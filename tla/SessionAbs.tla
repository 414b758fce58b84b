----------------------------- MODULE SessionAbs -----------------------------
(***************************************************************************)
(* What the registry promises about one session ID: its command is run     *)
(* once, the record of that run is replaced by its completion and nothing  *)
(* else, and the ID is free again only when a completed run is a day old.  *)
(* A run whose runner is lost stays recorded as live: the ID is never      *)
(* silently given to a new run (session.rs connect_or_start fails closed). *)
(***************************************************************************)
CONSTANTS Runs, NoRun

VARIABLES record,  \* what the metadata file says: kind and run
          used,    \* runs that were recorded
          old      \* completed runs whose retention is over

Init ==
    /\ record = [kind |-> "none", by |-> NoRun]
    /\ used = {}
    /\ old = {}

Create(r) ==
    /\ record.kind = "none"
    /\ r \notin used
    /\ record' = [kind |-> "live", by |-> r]
    /\ used' = used \cup {r}
    /\ UNCHANGED old

Finish(r) ==
    /\ record = [kind |-> "live", by |-> r]
    /\ record' = [kind |-> "completed", by |-> r]
    /\ UNCHANGED <<used, old>>

Age(r) ==
    /\ record = [kind |-> "completed", by |-> r]
    /\ old' = old \cup {r}
    /\ UNCHANGED <<record, used>>

Expire ==
    /\ record.kind = "completed"
    /\ record.by \in old
    /\ record' = [kind |-> "none", by |-> NoRun]
    /\ UNCHANGED <<used, old>>

Next == Expire \/ \E r \in Runs : Create(r) \/ Finish(r) \/ Age(r)

Spec == Init /\ [][Next]_<<record, used, old>>
=============================================================================
