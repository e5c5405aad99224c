--------------------------- MODULE AtomicRegistrar ---------------------------
(***************************************************************************)
(* What the registrar promises every process that shares its database:     *)
(* each call takes effect at one instant, on the tables as they are then.  *)
(***************************************************************************)
EXTENDS RegistrarDb

VARIABLE db

Init == db = EmptyDb

Serve(call) == ~ Raises(call, db) /\ db' = Apply(call, db)

Next == \E call \in Call : Serve(call)

Spec == Init /\ [][Next]_db
=============================================================================
