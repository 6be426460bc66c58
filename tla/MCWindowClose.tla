---------------------------- MODULE MCWindowClose ----------------------------
(***************************************************************************)
(* WindowClose with one window kind and two draft values; enough edits,    *)
(* reopenings and confirmations for a decision to be overtaken by each.    *)
(***************************************************************************)
EXTENDS WindowClose, TLC

CONSTANTS main, empty, typed

OneKind   == {main}
TwoDrafts == {empty, typed}
NoFacts   == {}

\* Every toolkit with every kind of application; GTK with saves alone.
AllSettings ==
    [frontend : {"gtk", "web"}, savable : BOOLEAN, background : BOOLEAN]
GtkSaves == [frontend : {"gtk"}, savable : {TRUE}, background : {FALSE}]

\* Drafts that change behind a dialog, of each toolkit; the page with saves.
GtkBackground == [frontend : {"gtk"}, savable : {FALSE}, background : {TRUE}]
WebBackground == [frontend : {"web"}, savable : {FALSE}, background : {TRUE}]
WebSaves      == [frontend : {"web"}, savable : {TRUE}, background : {FALSE}]

=============================================================================
