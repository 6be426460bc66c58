----------------------------- MODULE MCMediaHub -----------------------------
(***************************************************************************)
(* MediaHub with two pages, one of them with a video, a device and one     *)
(* player of the application.                                              *)
(***************************************************************************)
EXTENDS MediaHub

CONSTANTS app, page1, page2, url1

OnePlayer == {app}
TwoPages  == {page1, page2}
OneWindow == {page1}
OneUrl    == {url1}

=============================================================================
