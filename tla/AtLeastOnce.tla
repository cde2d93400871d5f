---------------------------- MODULE AtLeastOnce ----------------------------
(***************************************************************************)
(* What a durable message source promises the consumer (the "Delivery      *)
(* contract" of src/tt_ledger/ingest/redis_stream_source.py): an entry is  *)
(* owed until it has been handed to the consumer, it is forgotten only     *)
(* after that, and every entry that is owed is handed over in the end.     *)
(* Nothing is said about order, or about how often.                        *)
(***************************************************************************)
CONSTANT Entry

VARIABLES
    owed,     \* entries the source may not forget yet
    handled   \* entries that were handed over, or lost to the stream's own limits

vars == <<owed, handled>>

Init == owed = {} /\ handled = {}

Owe(e) ==
    /\ e \notin owed \cup handled
    /\ owed' = owed \cup {e}
    /\ UNCHANGED handled

Handle(e) ==
    /\ e \notin handled
    /\ handled' = handled \cup {e}
    /\ UNCHANGED owed

Forget(S) ==
    /\ S \subseteq owed \cap handled
    /\ owed' = owed \ S
    /\ UNCHANGED handled

Next ==
    \/ \E e \in Entry : Owe(e) \/ Handle(e)
    \/ \E S \in SUBSET Entry : Forget(S)

Fairness == \A e \in Entry : WF_vars(e \in owed /\ Handle(e))

Spec == Init /\ [][Next]_vars /\ Fairness
=============================================================================
