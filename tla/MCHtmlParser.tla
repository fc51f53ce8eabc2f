---------------------------- MODULE MCHtmlParser ----------------------------
(* For checking HtmlParser with TLC: every input of up to MaxLength characters. *)
EXTENDS HtmlParser
=============================================================================
