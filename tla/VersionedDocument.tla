-------------------------- MODULE VersionedDocument --------------------------
(***************************************************************************)
(* What the authoring API promises its clients: a request to promote a     *)
(* document takes effect at one instant, at most once, and only if the     *)
(* document it was made from is then the current one and its own revision  *)
(* is later.                                                               *)
(***************************************************************************)
EXTENDS Naturals

CONSTANTS Request, Seed, Text, MaxRev

VARIABLES doc, promoted, ask

vars == <<doc, promoted, ask>>

Doc == [rev : 0..MaxRev, text : Text]

(* Before it is sent, a request asks for nothing. *)
NoAsk == [match |-> Seed, body |-> Seed]

Init == doc = Seed /\ promoted = {} /\ ask = [r \in Request |-> NoAsk]

Ask(r) == /\ ask[r] = NoAsk
          /\ \E match, body \in Doc :
                ask' = [ask EXCEPT ![r] = [match |-> match, body |-> body]]
          /\ UNCHANGED <<doc, promoted>>

Promote(r) == /\ r \notin promoted
              /\ ask[r].match = doc /\ ask[r].body.rev > doc.rev
              /\ doc' = ask[r].body
              /\ promoted' = promoted \cup {r}
              /\ UNCHANGED ask

Next == \E r \in Request : Ask(r) \/ Promote(r)

Spec == Init /\ [][Next]_vars
=============================================================================
