---------------------------- MODULE AuthoringTab ----------------------------
(***************************************************************************)
(* The browser tabs of the administrators (app.js) with the authoring API. *)
(*                                                                         *)
(* A tab holds the document it shows and edits, the entity tag it last     *)
(* received, and the inspector: an artifact that was selected and the text *)
(* that its editor was filled with, which apply-code puts in the place of  *)
(* the artifact.  Nothing refreshes that text when Admin control replaces  *)
(* the document.  The handlers are asynchronous: after a fetch is sent     *)
(* others run, and saveRemote itself waits between the headers of the      *)
(* answer, which it takes the tag from, and its body, which replaces the   *)
(* document.  A render ends at once.                                       *)
(*                                                                         *)
(* The text of a document is a set of facts: that an artifact was made,    *)
(* that its code holds a change, that it was deleted.  A change is a       *)
(* number, and an artifact has the number of the change that made it, 0    *)
(* for one of the seed.                                                    *)
(*                                                                         *)
(* A tab starts as a local draft of the seed.  Importing a file makes      *)
(* another draft, which reaches the server in the same way, through the    *)
(* editor's text only, and is not modelled; nor is a tab that cannot edit. *)
(***************************************************************************)
EXTENDS AuthoringServer, FiniteSets

CONSTANTS Tab, NoTab, NoArtifact,
          Overlap,     \* whether a user acts before the last answer came
          MaxChanges   \* bound: changes made by users

Id == 0..MaxChanges
Fact == [what : {"made", "code", "gone"}, of : Id, by : Id]

ASSUME TabAssumption == NoTab \notin Tab /\ Overlap \in BOOLEAN
ASSUME ChangeAssumption == /\ MaxChanges \in Nat /\ Text = SUBSET Fact
                           /\ NoArtifact \notin Id
                           /\ \A f \in Seed.text : f.of = 0 /\ f.by = 0

VARIABLES tab,        \* [Tab -> what it shows, its tag, its inspector]
          owner,      \* [Request -> the tab that sent it]
          awaits,     \* [Request -> what its fetch is waiting for]
          reselects,  \* the requests whose handler ends with a select
          changes     \* changes made

tabVars == <<tab, owner, awaits, reselects, changes>>
allVars == <<vars, tabVars>>

(* The inspector: the artifact selected, the changes in the editor's text, *)
(* and, as history, whether the text was filled in since the last Admin    *)
(* control, and what older text was put over since then.                   *)
Shows == [doc : Doc, tag : Doc, remote : BOOLEAN,
          selected : Id \cup {NoArtifact}, code : SUBSET Id,
          fresh : BOOLEAN, overwritten : SUBSET {f \in Fact : f.what = "code"}]

Opened == [doc |-> Seed, tag |-> Seed, remote |-> FALSE,
           selected |-> NoArtifact, code |-> {}, fresh |-> FALSE,
           overwritten |-> {}]

Awaited == {"nothing", "headers", "body", "done"}

TabTypeOK == /\ TypeOK
             /\ tab \in [Tab -> Shows]
             /\ owner \in [Request -> Tab \cup {NoTab}]
             /\ awaits \in [Request -> Awaited]
             /\ reselects \subseteq Request
             /\ changes \in 0..MaxChanges

TabInit == /\ Init
           /\ tab = [t \in Tab |-> Opened]
           /\ owner = [r \in Request |-> NoTab]
           /\ awaits = [r \in Request |-> "nothing"]
           /\ reselects = {}
           /\ changes = 0

-----------------------------------------------------------------------------
(* What a document says of its artifacts *)

Made(a) == [what |-> "made", of |-> a, by |-> a]
Coded(a, ns) == {[what |-> "code", of |-> a, by |-> n] : n \in ns}
Deleted(as, n) == {[what |-> "gone", of |-> a, by |-> n] : a \in as}

Here(text) == {a \in Id : Made(a) \in text /\ \A n \in Id : Deleted({a}, n) \cap text = {}}
CodeOf(text, a) == {n \in Id : Coded(a, {n}) \subseteq text}

(* select *)
Selected(k, a) == [k EXCEPT !.selected = a, !.code = CodeOf(k.doc.text, a),
                            !.fresh = TRUE]

Reselected(k) == IF k.selected \in Here(k.doc.text) THEN Selected(k, k.selected) ELSE k

(* Mutant: a revision for each artifact. *)
RevisedForEach(k, text) ==
    [k EXCEPT !.doc = [rev |-> @.rev + Cardinality(Here(text)), text |-> text]]

Revised(k, text) == [k EXCEPT !.doc = [rev |-> @.rev + 1, text |-> text]]

(* apply-code: the editor's text, with the user's change n, is the artifact. *)
Applied(k, n) ==
    LET old == Coded(k.selected, CodeOf(k.doc.text, k.selected))
        new == Coded(k.selected, k.code \cup {n})
    IN  [Revised(k, (k.doc.text \ old) \cup new) EXCEPT
            !.code = @ \cup {n},
            !.overwritten = IF k.fresh THEN @ ELSE @ \cup (old \ new)]

Duplicated(k, n) ==
    [Revised(k, k.doc.text \cup {Made(n)} \cup Coded(n, CodeOf(k.doc.text, k.selected)))
       EXCEPT !.selected = n]

DeletedTree(k, n, as) ==
    [Revised(k, k.doc.text \cup Deleted(as, n)) EXCEPT !.selected = NoArtifact]

Created(k, n) == Selected([k EXCEPT !.doc.text = @ \cup {Made(n)}], n)

-----------------------------------------------------------------------------
(* A user who waits does nothing while a fetch is under way. *)
Free(t) == Overlap \/ \A r \in Request : owner[r] = t => awaits[r] = "done"

Show(t, k) == tab' = [tab EXCEPT ![t] = k]

Fetch(t, r, again) ==
    /\ owner' = [owner EXCEPT ![r] = t]
    /\ awaits' = [awaits EXCEPT ![r] = "headers"]
    /\ reselects' = IF again THEN reselects \cup {r} ELSE reselects

(* connectAdmin *)
Connect(t, r) == /\ Free(t) /\ Send(r, "GET", Seed, Seed) /\ Fetch(t, r, FALSE)
                 /\ UNCHANGED <<tab, changes>>

(* The local-draft button *)
Draft(t) == /\ Free(t) /\ tab[t].remote
            /\ Show(t, [tab[t] EXCEPT !.remote = FALSE])
            /\ UNCHANGED <<vars, owner, awaits, reselects, changes>>

(* A click on an artifact *)
Select(t) == /\ Free(t)
             /\ \E a \in Here(tab[t].doc.text) : Show(t, Selected(tab[t], a))
             /\ UNCHANGED <<vars, owner, awaits, reselects, changes>>

NewChange == changes < MaxChanges /\ changes' = changes + 1

(* A click in the palette *)
Create(t) == /\ Free(t) /\ NewChange
             /\ Show(t, Created(tab[t], changes + 1))
             /\ UNCHANGED <<vars, owner, awaits, reselects>>

(* The local document changes, then saveRemote sends it, whatever becomes  *)
(* of that.  Where nothing is sent the handler goes on to its select.      *)
Edit(t, r, k, again) ==
    /\ Free(t) /\ NewChange /\ tab[t].doc.rev < MaxRev
    /\ IF tab[t].remote
       THEN Show(t, k) /\ Send(r, "PUT", tab[t].tag, k.doc) /\ Fetch(t, r, again)
       ELSE /\ Show(t, IF again THEN Reselected(k) ELSE k)
            /\ UNCHANGED <<vars, owner, awaits, reselects>>

Apply(t, r) == /\ tab[t].selected \in Here(tab[t].doc.text)
               /\ Edit(t, r, Applied(tab[t], changes + 1), TRUE)

Duplicate(t, r) == /\ tab[t].selected \in Here(tab[t].doc.text)
                   /\ Edit(t, r, Duplicated(tab[t], changes + 1), TRUE)

(* The selected artifact and the tree below it, whatever its parents say;  *)
(* if it is not there any more, nothing or what was below it.              *)
Delete(t, r) ==
    /\ tab[t].selected # NoArtifact
    /\ \E as \in SUBSET Here(tab[t].doc.text) :
          /\ tab[t].selected \in Here(tab[t].doc.text) => tab[t].selected \in as
          /\ Edit(t, r, DeletedTree(tab[t], changes + 1, as), FALSE)

Arrived(r, k, next) == /\ Show(owner[r], k)
                       /\ awaits' = [awaits EXCEPT ![r] = next]
                       /\ UNCHANGED <<vars, owner, reselects, changes>>

(* The fetch of a GET, its body awaited before anything is assigned; the   *)
(* inspector is left as it is.                                             *)
Connected(r) ==
    /\ req[r].kind = "GET" /\ awaits[r] = "headers" /\ req[r].at = "answered"
    /\ req[r].status = 200
    /\ Arrived(r, [tab[owner[r]] EXCEPT !.doc = req[r].body, !.tag = req[r].body,
                                        !.remote = TRUE, !.fresh = FALSE,
                                        !.overwritten = {}], "done")

(* Mutant: the tag is taken from any answer, 412 included. *)
SavedOrNot(r) ==
    /\ req[r].kind = "PUT" /\ awaits[r] = "headers" /\ req[r].at = "answered"
    /\ LET saved == req[r].status = 200
       IN  Arrived(r, [tab[owner[r]] EXCEPT !.tag = IF saved THEN req[r].body ELSE doc],
                   IF saved THEN "body" ELSE "done")

Saved(r) ==
    /\ req[r].kind = "PUT" /\ awaits[r] = "headers" /\ req[r].at = "answered"
    /\ req[r].status = 200
    /\ Arrived(r, [tab[owner[r]] EXCEPT !.tag = req[r].body], "body")

SavedBody(r) ==
    /\ awaits[r] = "body"
    /\ LET k == [tab[owner[r]] EXCEPT !.doc = req[r].body, !.overwritten = {}]
       IN  Arrived(r, IF r \in reselects THEN Reselected(k) ELSE k, "done")

(* Refused, or the answer was lost: the handler throws, and the change     *)
(* stays in the local document.                                            *)
Unsaved(r) == /\ awaits[r] = "headers"
              /\ req[r].at \in {"answered", "lost"}
              /\ req[r].status # 200
              /\ Arrived(r, tab[owner[r]], "done")

TabStep(t) == \/ Draft(t) \/ Select(t) \/ Create(t)
              \/ \E r \in Request : \/ Connect(t, r) \/ Apply(t, r)
                                   \/ Duplicate(t, r) \/ Delete(t, r)

FetchStep(r) == Connected(r) \/ Saved(r) \/ SavedBody(r) \/ Unsaved(r)

ServerStep == /\ Crash \/ \E r \in Request : Handle(r)
              /\ UNCHANGED tabVars

TabNext == \/ \E t \in Tab : TabStep(t)
           \/ \E r \in Request : FetchStep(r)
           \/ ServerStep

TabSpec == TabInit /\ [][TabNext]_allVars

-----------------------------------------------------------------------------
(* The reason why a conflict can be told by the tag alone: what a tab that *)
(* is about to save lacks of the document its tag names, the user has put  *)
(* older text over since that document was shown.                          *)
TagFitsDocument ==
    \A t \in Tab : tab[t].remote =>
       tab[t].tag.text \subseteq tab[t].doc.text \cup tab[t].overwritten

(* What a save takes away from the document it replaces is code that its   *)
(* own user put editor text over, filled in before the last Admin control: *)
(* no artifact, no deletion, and nothing at all of users who select again. *)
LossesAreOwn ==
    [][\/ doc.text \subseteq doc'.text
       \/ \E r \in promoted' \ promoted :
             doc.text \ doc'.text \subseteq tab[owner[r]].overwritten]_allVars

(* The surface's README: "Authenticated admin mode reads/writes through    *)
(* /api/document with an ETag.  Conflicting revisions receive HTTP 412."   *)
(* A change that was saved is then never lost: each promoted document      *)
(* holds all the changes of the one it replaces.                           *)
SavedChangesSurvive == [][doc.text \subseteq doc'.text]_allVars
=============================================================================
