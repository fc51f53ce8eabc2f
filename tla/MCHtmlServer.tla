---------------------------- MODULE MCHtmlServer ----------------------------
(* Constants for checking HtmlServer with TLC. *)
EXTENDS HtmlServer

Request(req, sleep, close) == [req |-> req, sleep |-> sleep, close |-> close]

\* generate_request, request_close and generate_request_with_close.
MCRequests == {Request(1, FALSE, FALSE), Request(2, TRUE, FALSE),
               Request(0, TRUE, TRUE), Request(0, FALSE, TRUE), Request(3, TRUE, TRUE)}

MCFewRequests == {Request(1, FALSE, FALSE), Request(2, TRUE, FALSE), Request(3, TRUE, TRUE)}
=============================================================================
