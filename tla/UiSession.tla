------------------------------ MODULE UiSession ------------------------------
(***************************************************************************)
(* Window instances, drafts and the close protocol of one UI session:      *)
(* UiSession in crates/bern-runtime/src/lib.rs.  Every operation is a      *)
(* critical section of the session mutex (crates/bern-ffi/src/lib.rs), so  *)
(* it is one action; the callers are the target's windows, their late      *)
(* callbacks, which still hold the generation of a closed instance, and    *)
(* external entries, which may hold any confirmation ever issued.          *)
(*                                                                         *)
(* A window's drafts are one value; a confirmation's id is the number at   *)
(* its end, which is unique in the session.                                *)
(***************************************************************************)
EXTENDS Naturals, Sequences

CONSTANTS
    Kinds,      \* window kinds of the catalog
    Drafts,     \* values a window's drafts can have
    Initial,    \* the schema's initial drafts
    Facts,      \* presentations the platform can report
    MaxOpens,   \* bound: generations of a kind
    MaxEdits,   \* bound: draft writes of an instance
    MaxAsked,   \* bound: confirmations of the session
    MaxReports  \* bound: changes of an instance's facts

Unknown == "unknown"    \* no facts reported yet

ASSUME SessionAssumption ==
    /\ Initial \in Drafts
    /\ Unknown \notin Facts
    /\ MaxOpens \in Nat /\ MaxEdits \in Nat
    /\ MaxAsked \in Nat /\ MaxReports \in Nat

VARIABLES
    generation,    \* WindowState::generation
    open,          \* WindowState::open
    draft,         \* WindowState::drafts
    edits,         \* WindowState::revision
    pending,       \* WindowState::pending
    facts,         \* WindowState::facts
    factVersion,   \* WindowState::fact_version
    revision,      \* UiSession::revision
    confirmations, \* UiSession::confirmations
    issued,        \* history: what each confirmation was asked about
    consent        \* history: per kind, what its instance was last allowed to close on

windowVars == <<generation, open, draft, edits, pending, facts, factVersion>>
sessionVars == <<windowVars, revision, confirmations, issued, consent>>

Decisions == {"save", "discard", "cancel"}

\* Confirmation; its window is the kind it is stored for.
Confirmation == [id : Nat \ {0}, generation : Nat, revision : Nat, canSave : BOOLEAN]

NoConfirmation == [id |-> 0, generation |-> 0, revision |-> 0, canSave |-> FALSE]

\* A window may close because nobody had to be asked or because somebody was,
\* and may then close on the edits of that moment.
Consents == [given : {"no", "freely", "asked"}, revision : Nat]

NoConsent == [given |-> "no", revision |-> 0]

Question == [kind : Kinds, generation : Nat, revision : Nat, draft : Drafts,
             decided : BOOLEAN]

TypeOK ==
    /\ generation \in [Kinds -> Nat]
    /\ open \in [Kinds -> BOOLEAN]
    /\ draft \in [Kinds -> Drafts]
    /\ edits \in [Kinds -> Nat]
    /\ pending \in [Kinds -> Confirmation \cup {NoConfirmation}]
    /\ facts \in [Kinds -> Facts \cup {Unknown}]
    /\ factVersion \in [Kinds -> Nat]
    /\ revision \in Nat
    /\ confirmations \in Nat
    /\ issued \in Seq(Question)
    /\ consent \in [Kinds -> Consents]

SessionInit ==
    /\ generation = [k \in Kinds |-> 0]
    /\ open = [k \in Kinds |-> FALSE]
    /\ draft = [k \in Kinds |-> Initial]
    /\ edits = [k \in Kinds |-> 0]
    /\ pending = [k \in Kinds |-> NoConfirmation]
    /\ facts = [k \in Kinds |-> Unknown]
    /\ factVersion = [k \in Kinds |-> 0]
    /\ revision = 0
    /\ confirmations = 0
    /\ issued = <<>>
    /\ consent = [k \in Kinds |-> NoConsent]

-----------------------------------------------------------------------------
(* Operations.  An operation on a closed or replaced instance fails as      *)
(* stale and changes nothing: OpenState.                                    *)

OpenState(k, g) == open[k] /\ generation[k] = g

\* window_opened; for a window already open it only returns the instance.
WindowOpened(k) ==
    /\ ~open[k]
    /\ generation[k] < MaxOpens
    /\ generation' = [generation EXCEPT ![k] = @ + 1]
    /\ open' = [open EXCEPT ![k] = TRUE]
    /\ draft' = [draft EXCEPT ![k] = Initial]
    /\ edits' = [edits EXCEPT ![k] = 0]
    /\ pending' = [pending EXCEPT ![k] = NoConfirmation]
    /\ facts' = [facts EXCEPT ![k] = Unknown]
    /\ factVersion' = [factVersion EXCEPT ![k] = 0]
    /\ revision' = revision + 1
    /\ consent' = [consent EXCEPT ![k] = NoConsent]
    /\ UNCHANGED <<confirmations, issued>>

\* window_closed; the cleared drafts are the initial ones of the next instance.
WindowClosed(k, g) ==
    /\ OpenState(k, g)
    /\ open' = [open EXCEPT ![k] = FALSE]
    /\ draft' = [draft EXCEPT ![k] = Initial]
    /\ pending' = [pending EXCEPT ![k] = NoConfirmation]
    /\ revision' = revision + 1
    /\ UNCHANGED <<generation, edits, facts, factVersion, confirmations, issued,
                   consent>>
\* window_facts; unchanged facts keep the version.
WindowFacts(k, g, f) ==
    /\ OpenState(k, g)
    /\ facts[k] # f
    /\ factVersion[k] < MaxReports
    /\ facts' = [facts EXCEPT ![k] = f]
    /\ factVersion' = [factVersion EXCEPT ![k] = @ + 1]
    /\ UNCHANGED <<generation, open, draft, edits, pending, revision,
                   confirmations, issued, consent>>

\* set: only a different value is an edit, and a pending confirmation stays,
\* now out of date.
Set(k, g, v) ==
    /\ OpenState(k, g)
    /\ draft[k] # v
    /\ edits[k] < MaxEdits
    /\ draft' = [draft EXCEPT ![k] = v]
    /\ edits' = [edits EXCEPT ![k] = @ + 1]
    /\ revision' = revision + 1
    /\ UNCHANGED <<generation, open, pending, facts, factVersion, confirmations,
                   issued, consent>>

\* A confirmation is pending and the drafts are still those it is about.
Covered(k) == pending[k].id # 0 /\ pending[k].revision = edits[k]

\* request_close with nothing to confirm.
RequestAllowed(k, g) ==
    /\ OpenState(k, g)
    /\ ~Covered(k)
    /\ pending' = [pending EXCEPT ![k] = NoConfirmation]
    /\ consent' = [consent EXCEPT ![k] = [given |-> "freely", revision |-> edits[k]]]
    /\ UNCHANGED <<generation, open, draft, edits, facts, factVersion, revision,
                   confirmations, issued>>

\* Mutant: every request asks anew.
RequestConfirmAgain(k, g, canSave) ==
    /\ OpenState(k, g)
    /\ confirmations < MaxAsked
    /\ confirmations' = confirmations + 1
    /\ pending' = [pending EXCEPT ![k] =
                     [id |-> confirmations + 1, generation |-> g,
                      revision |-> edits[k], canSave |-> canSave]]
    /\ issued' = Append(issued, [kind |-> k, generation |-> g,
                                 revision |-> edits[k], draft |-> draft[k],
                                 decided |-> FALSE])
    /\ UNCHANGED <<generation, open, draft, edits, facts, factVersion, revision,
                   consent>>

\* request_close that needs a decision; while the pending confirmation is
\* Covered it returns that one and changes nothing.
RequestConfirm(k, g, canSave) ==
    /\ OpenState(k, g)
    /\ ~Covered(k)
    /\ confirmations < MaxAsked
    /\ confirmations' = confirmations + 1
    /\ pending' = [pending EXCEPT ![k] =
                     [id |-> confirmations + 1, generation |-> g,
                      revision |-> edits[k], canSave |-> canSave]]
    /\ issued' = Append(issued, [kind |-> k, generation |-> g,
                                 revision |-> edits[k], draft |-> draft[k],
                                 decided |-> FALSE])
    /\ UNCHANGED <<generation, open, draft, edits, facts, factVersion, revision,
                   consent>>

\* confirm_close names the pending confirmation of the open instance.
Names(k, g, id) == OpenState(k, g) /\ id # 0 /\ pending[k].id = id

\* confirm_close of a confirmation the drafts have left behind.
ConfirmStale(k, g, id) ==
    /\ Names(k, g, id)
    /\ ~Covered(k)
    /\ pending' = [pending EXCEPT ![k] = NoConfirmation]
    /\ UNCHANGED <<generation, open, draft, edits, facts, factVersion, revision,
                   confirmations, issued, consent>>

\* What a decision leaves of the consent: a cancel gives none.
Answered(k, decision) ==
    IF decision = "cancel" THEN consent[k]
    ELSE [given |-> "asked", revision |-> edits[k]]

\* Mutant: the draft revision is not compared.
ConfirmAcceptedUnchecked(k, g, id, decision) ==
    /\ Names(k, g, id)
    /\ decision = "save" => pending[k].canSave
    /\ pending' = [pending EXCEPT ![k] = NoConfirmation]
    /\ issued' = [issued EXCEPT ![id].decided = TRUE]
    /\ consent' = [consent EXCEPT ![k] = Answered(k, decision)]
    /\ UNCHANGED <<generation, open, draft, edits, facts, factVersion, revision,
                   confirmations>>

\* confirm_close that is accepted; a save the window does not declare is
\* refused and leaves the confirmation pending.
ConfirmAccepted(k, g, id, decision) ==
    /\ Names(k, g, id)
    /\ Covered(k)
    /\ decision = "save" => pending[k].canSave
    /\ pending' = [pending EXCEPT ![k] = NoConfirmation]
    /\ issued' = [issued EXCEPT ![id].decided = TRUE]
    /\ consent' = [consent EXCEPT ![k] = Answered(k, decision)]
    /\ UNCHANGED <<generation, open, draft, edits, facts, factVersion, revision,
                   confirmations>>

\* Generations a caller may hold, the current one and those of late callbacks.
Known(k) == 1 .. generation[k]

SessionNext ==
    \E k \in Kinds :
        \/ WindowOpened(k)
        \/ \E g \in Known(k) :
              \/ WindowClosed(k, g)
              \/ \E f \in Facts : WindowFacts(k, g, f)
              \/ \E v \in Drafts : Set(k, g, v)
              \/ RequestAllowed(k, g)
              \/ \E canSave \in BOOLEAN : RequestConfirm(k, g, canSave)
              \/ \E id \in 1 .. confirmations :
                    \/ ConfirmStale(k, g, id)
                    \/ \E d \in Decisions : ConfirmAccepted(k, g, id, d)

SessionSpec == SessionInit /\ [][SessionNext]_sessionVars

-----------------------------------------------------------------------------
(* What the runtime promises.                                               *)

DecidesWhatIsThere ==
    \A i \in DOMAIN issued :
        issued'[i].decided /\ ~issued[i].decided =>
            LET k == issued[i].kind
            IN /\ open[k]
               /\ issued[i].generation = generation[k]
               /\ issued[i].draft = draft[k]

\* An accepted decision is about the very drafts its confirmation was asked
\* about, in the same instance of the same window, whoever holds the id and
\* however late the decision comes (confirm_close).
DecisionsCoverDrafts == [][DecidesWhatIsThere]_sessionVars

\* Repeated requests are merged: two questions about the same edits of the
\* same instance are never both undecided (request_close, "return the same
\* confirmation instead of asking again").
OneQuestionPerRevision ==
    \A i, j \in DOMAIN issued :
        /\ i # j
        /\ issued[i].kind = issued[j].kind
        /\ issued[i].generation = issued[j].generation
        /\ issued[i].revision = issued[j].revision
        => issued[i].decided \/ issued[j].decided

VersionsFacts ==
    \A k \in Kinds :
        facts'[k] # facts[k] =>
            \/ generation'[k] > generation[k]
            \/ /\ generation'[k] = generation[k]
               /\ factVersion'[k] > factVersion[k]

\* Different facts of a kind never carry the same generation and version: who
\* remembers both can tell that the presentation changed (window_facts).
FactsAreVersioned == [][VersionsFacts]_sessionVars

\* The undecided question a confirmation stands for.
IsQuestionOf(k, q) ==
    /\ q.kind = k
    /\ q.generation = generation[k]
    /\ q.revision = pending[k].revision
    /\ ~q.decided
    /\ q.revision = edits[k] => q.draft = draft[k]

\* A pending confirmation is the latest answer to a request of the open
\* instance: its question was recorded, is undecided, and is about drafts the
\* window has or has left behind (WindowState::pending).
PendingIsAsked ==
    \A k \in Kinds :
        pending[k].id # 0 =>
            /\ open[k]
            /\ pending[k].id \in DOMAIN issued
            /\ pending[k].generation = generation[k]
            /\ IsQuestionOf(k, issued[pending[k].id])

\* No question is about drafts or an instance that are yet to come, and the
\* undecided one about the drafts of now is the pending one.
QuestionsArePast ==
    \A i \in DOMAIN issued :
        LET q == issued[i]
            k == q.kind
        IN /\ q.generation <= generation[k]
           /\ q.generation = generation[k] => q.revision <= edits[k]
           /\ /\ q.generation = generation[k]
              /\ q.revision = edits[k]
              /\ open[k]
              /\ ~q.decided
              => pending[k].id = i

\* The strengthening that is inductive: what the session knows of its
\* confirmations is what was asked (request_close, confirm_close).
SessionInv ==
    /\ confirmations = Len(issued)
    /\ PendingIsAsked
    /\ QuestionsArePast
    /\ OneQuestionPerRevision

\* The session implements the abstract protocol: every step is one of its
\* steps, so no consent is ever given about edits nobody was asked about.
Consent == INSTANCE CloseConsent WITH
    shown <- open,
    asked <- [k \in Kinds |-> pending[k].id # 0],
    covers <- [k \in Kinds |-> pending[k].revision],
    consented <- consent

ImplementsConsent == Consent!Spec

=============================================================================
