----------------------------- MODULE WindowClose -----------------------------
(***************************************************************************)
(* The close protocol end to end: the session runtime of UiSession under   *)
(* a target's windows, as the GTK runtime (crates/bern-gtk/src/windows.rs) *)
(* and the web page (crates/bern-backend-web/templates/bern.js) drive it.  *)
(* Every handler runs on the UI thread; a handler that makes two calls     *)
(* into the runtime is two steps, and nothing else runs between them.      *)
(***************************************************************************)
EXTENDS UiSession

CONSTANT Settings  \* the frontends and applications to consider

\* The toolkit, whether its windows declare a save command, and whether drafts
\* also change by themselves while the controls are blocked.
ASSUME CloseAssumption ==
    Settings \subseteq
        [frontend : {"gtk", "web"}, savable : BOOLEAN, background : BOOLEAN]

VARIABLES
    setting,   \* the one of this program, chosen when it was built
    blocked,   \* per kind: the confirmation in win.pending, 0 for none
    dialog,    \* per kind: the confirmation the dialog on screen answers
    listed,    \* per kind: the generation of the window the manager lists
    saves,     \* save commands running for a window that waits to close
    saved,     \* per kind: what the engine has saved
    finishing  \* the rest of the handler: the windows it closes

targetVars == <<blocked, dialog, listed, saves, saved>>
vars == <<sessionVars, targetVars, finishing, setting>>

Frontend == setting.frontend
Savable == setting.savable
Background == setting.background

Window == [kind : Kinds, generation : Nat]

CloseTypeOK ==
    /\ TypeOK
    /\ blocked \in [Kinds -> Nat]
    /\ dialog \in [Kinds -> Nat]
    /\ listed \in [Kinds -> Nat]
    /\ saves \subseteq [window : Window, draft : Drafts, id : Nat]
    /\ saved \in [Kinds -> Drafts]
    /\ finishing \subseteq Window
    /\ setting \in Settings

Init ==
    /\ SessionInit
    /\ setting \in Settings
    /\ blocked = [k \in Kinds |-> 0]
    /\ dialog = [k \in Kinds |-> 0]
    /\ listed = [k \in Kinds |-> 0]
    /\ saves = {}
    /\ saved = [k \in Kinds |-> Initial]
    /\ finishing = {}

UiIdle == finishing = {}

TheWindow(k) == [kind |-> k, generation |-> generation[k]]

-----------------------------------------------------------------------------

\* open: a kind whose window the target lists is only brought forward; an
\* instance the runtime still has open gets a second window, which nothing
\* blocks yet.  What the first one still shows is not followed any further.
OpenWindow(k) ==
    /\ UiIdle
    /\ listed[k] = 0
    /\ IF open[k] THEN UNCHANGED sessionVars ELSE WindowOpened(k)
    /\ listed' = [listed EXCEPT ![k] = generation'[k]]
    /\ blocked' = [blocked EXCEPT ![k] = 0]
    /\ dialog' = [dialog EXCEPT ![k] = 0]
    /\ UNCHANGED <<saves, saved, finishing>>

\* Win::write, by the user while the controls are not blocked, or by a
\* callback that answers late: a file chooser, the clipboard, a command.
Write(k, v) ==
    /\ UiIdle
    /\ blocked[k] = 0 \/ Background
    /\ Set(k, generation[k], v)
    /\ UNCHANGED <<targetVars, finishing>>

\* The declared close check.
NeedsConfirmation(k) == draft[k] # saved[k]

\* Mutant: whatever dialog is on screen stays.
ShownDialogsKept(k, id) == {IF dialog[k] # 0 THEN dialog[k] ELSE id}

\* show_dialog: the page draws its dialog from win.pending; GTK keeps one that
\* has the same heading, with the confirmation it was built for, and in place of
\* one with another shows a new dialog, the only one answered from then on.
ShownDialogs(k, id) ==
    {id} \cup IF Frontend = "gtk" /\ dialog[k] # 0 THEN {dialog[k]} ELSE {}
Shows(k, id) ==
    \E shown \in ShownDialogs(k, id) : dialog' = [dialog EXCEPT ![k] = shown]

\* request_close_from, requestClose: the header bar, a key, a declared action
\* or window.close.
RequestClose(k) ==
    /\ UiIdle
    /\ listed[k] # 0
    /\ \/ /\ OpenState(k, listed[k])
          /\ Covered(k)
          /\ blocked' = [blocked EXCEPT ![k] = pending[k].id]
          /\ Shows(k, pending[k].id)
          /\ UNCHANGED <<sessionVars, finishing>>
       \/ /\ NeedsConfirmation(k)
          /\ RequestConfirm(k, listed[k], Savable)
          /\ blocked' = [blocked EXCEPT ![k] = confirmations']
          /\ Shows(k, confirmations')
          /\ UNCHANGED finishing
       \/ /\ ~NeedsConfirmation(k)
          /\ RequestAllowed(k, listed[k])
          /\ finishing' = {TheWindow(k)}
          /\ UNCHANGED <<blocked, dialog>>
    /\ UNCHANGED <<listed, saves, saved>>

\* Mutant: the refusal of a stale decision leaves the window as it was.
RejectKeptBlocked(k, id) == UNCHANGED <<blocked, dialog>>

\* What a refused decision does to the window: GTK drops a confirmation that
\* is stale, the page keeps it.
Reject(k, id) ==
    IF Frontend = "gtk" /\ blocked[k] = id
    THEN /\ blocked' = [blocked EXCEPT ![k] = 0]
         /\ dialog' = [dialog EXCEPT ![k] = 0]
    ELSE UNCHANGED <<blocked, dialog>>

\* The runtime refuses a decision as stale: it forgets the confirmation if
\* that is the pending one, and changes nothing if it is another.
Stale(k, id) ==
    \/ ConfirmStale(k, listed[k], id)
    \/ /\ OpenState(k, listed[k])
       /\ pending[k].id # id
       /\ UNCHANGED sessionVars

\* Mutant: a stale decision to discard closes the window all the same.
RefusedCloses(k, id, d) ==
    /\ Stale(k, id)
    /\ Reject(k, id)
    /\ finishing' = IF d = "discard" THEN {TheWindow(k)} ELSE {}
    /\ UNCHANGED saves

\* confirm_close that is refused.
Refused(k, id, d) ==
    /\ Stale(k, id)
    /\ Reject(k, id)
    /\ UNCHANGED <<saves, finishing>>

\* confirm_close that is accepted: discard closes, save starts the command
\* and closes once it succeeds, cancel keeps the window.
Accepted(k, id, d) ==
    /\ ConfirmAccepted(k, listed[k], id, d)
    /\ blocked' = [blocked EXCEPT ![k] = 0]
    /\ dialog' = [dialog EXCEPT ![k] = 0]
    /\ saves' = IF d = "save"
                THEN saves \cup {[window |-> TheWindow(k), draft |-> draft[k], id |-> id]}
                ELSE saves
    /\ finishing' = IF d = "discard" THEN {TheWindow(k)} ELSE {}

\* A decision from an external entry, which may hold any confirmation.
DecideExternally(k, id, d) ==
    /\ UiIdle
    /\ listed[k] # 0
    /\ Refused(k, id, d) \/ Accepted(k, id, d)
    /\ UNCHANGED <<listed, saved>>

\* The response of the dialog on screen, which GTK takes off first.
DecideInDialog(k, d) ==
    /\ UiIdle
    /\ listed[k] # 0
    /\ dialog[k] # 0
    /\ d = "save" => Savable
    /\ \/ Accepted(k, dialog[k], d)
       \/ /\ Refused(k, dialog[k], d)
          /\ Frontend = "web"
       \/ /\ Stale(k, dialog[k])
          /\ Frontend = "gtk"
          /\ dialog' = [dialog EXCEPT ![k] = 0]
          /\ blocked' = [blocked EXCEPT ![k] = IF @ = dialog[k] THEN 0 ELSE @]
          /\ UNCHANGED <<saves, finishing>>
    /\ UNCHANGED <<listed, saved>>

\* The save command succeeds: the engine has the draft it was given, and the
\* window that waited closes.
SaveSucceeds(s) ==
    /\ UiIdle
    /\ s \in saves
    /\ saves' = saves \ {s}
    /\ saved' = [saved EXCEPT ![s.window.kind] = s.draft]
    /\ finishing' = {s.window}
    /\ UNCHANGED <<sessionVars, blocked, dialog, listed>>

\* "A save that fails keeps the window open."
SaveFails(s) ==
    /\ UiIdle
    /\ s \in saves
    /\ saves' = saves \ {s}
    /\ UNCHANGED <<sessionVars, blocked, dialog, listed, saved, finishing>>

\* Mutant: the window stays listed.
FinishCloseListed(w) ==
    /\ w \in finishing
    /\ finishing' = finishing \ {w}
    /\ \/ WindowClosed(w.kind, w.generation)
       \/ ~OpenState(w.kind, w.generation) /\ UNCHANGED sessionVars
    /\ UNCHANGED <<listed, blocked, dialog, saves, saved>>

\* finish_close, closed.  GTK closes a Win once and unlists that Win; the
\* page unlists whatever window of the kind is listed.
FinishClose(w) ==
    /\ w \in finishing
    /\ finishing' = finishing \ {w}
    /\ \/ WindowClosed(w.kind, w.generation)
       \/ ~OpenState(w.kind, w.generation) /\ UNCHANGED sessionVars
    /\ LET unlists == listed[w.kind] = w.generation \/ Frontend = "web"
       IN listed' = [listed EXCEPT ![w.kind] = IF unlists THEN 0 ELSE @]
    /\ IF OpenState(w.kind, w.generation)
       THEN /\ blocked' = [blocked EXCEPT ![w.kind] = 0]
            /\ dialog' = [dialog EXCEPT ![w.kind] = 0]
       ELSE UNCHANGED <<blocked, dialog>>
    /\ UNCHANGED <<saves, saved>>

Next ==
    /\ UNCHANGED setting
    /\ \/ \E k \in Kinds :
             \/ OpenWindow(k)
             \/ \E v \in Drafts : Write(k, v)
             \/ RequestClose(k)
             \/ \E d \in Decisions :
                   \/ DecideInDialog(k, d)
                   \/ \E id \in 1 .. confirmations : DecideExternally(k, id, d)
       \/ \E s \in saves : SaveSucceeds(s) \/ SaveFails(s)
       \/ \E w \in finishing : FinishClose(w)

Spec == Init /\ [][Next]_vars

-----------------------------------------------------------------------------

\* "An old confirmation cannot discard modifications made afterwards"
\* (Docs/Design.md:1959): a window closes on a consent that covers all its
\* edits, neither on a decision nor on a save that is older than they are.
EditsSurviveOldDecisions ==
    [][\A k \in Kinds :
          open[k] /\ ~open'[k] =>
              consent[k].given # "no" /\ consent[k].revision = edits[k]]_vars

\* No window closes without a consent, and where no save can run in between
\* the consent covers every edit: refused, stale and repeated decisions of the
\* dialog and of external entries lose nothing (confirm_close, finish_close).
EditsSurviveRefusals ==
    [][\A k \in Kinds :
          open[k] /\ ~open'[k] =>
              /\ consent[k].given # "no"
              /\ Savable \/ consent[k].revision = edits[k]]_vars

\* A window whose controls are blocked has a confirmation pending that a
\* decision can name: "the pending close confirmation of a window, which blocks
\* its controls until it is decided" (bern-runtime/src/lib.rs:436).
BlocksCanBeDecided ==
    \A k \in Kinds : UiIdle /\ blocked[k] # 0 => pending[k].id = blocked[k]

\* It holds but on a page where drafts change in the background, whose windows a
\* stale confirmation keeps blocked (UiSession::confirm_close).
BlockedMeansPending == Frontend = "gtk" \/ ~Background => BlocksCanBeDecided

\* The dialog on screen answers the confirmation its window is blocked by: a new
\* request finds "the same confirmation [...] already on screen"
\* (windows.rs:1520) or another dialog is shown.
DialogsAnswerBlocks ==
    \A k \in Kinds : UiIdle /\ dialog[k] # 0 => dialog[k] = blocked[k]

\* It holds but with GTK where drafts change in the background, which keeps an
\* older dialog (show_dialog).
DialogIsForPending == Frontend = "web" \/ ~Background => DialogsAnswerBlocks

\* Between handlers the target lists exactly the windows that are open, each
\* in its current generation, so every open window can be named and closed.
\* The page unlists a reopened window when an old save of it succeeds.
ListedIsOpen ==
    Frontend = "gtk" \/ ~Savable =>
        \A k \in Kinds :
            UiIdle => listed[k] = IF open[k] THEN generation[k] ELSE 0

\* "Repeated or concurrent opens are merged [...], without creating extra
\* windows" (Docs/Design.md:1953): no window is made of an instance that is open.
OpensAreMerged ==
    [][\A k \in Kinds : listed[k] = 0 /\ listed'[k] # 0 => ~open[k]]_vars

=============================================================================
