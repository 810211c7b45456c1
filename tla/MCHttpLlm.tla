------------------------------ MODULE MCHttpLlm ------------------------------
(* Two events, the first with a character of two bytes, an event without    *)
(* data, [DONE] and one after it, ended in both ways; a body without [DONE]. *)
EXTENDS HttpLlm

AllOps == {"stream", "summarize", "extract", "embed"}
AllAnswers == {"success", "client_error", "too_many", "server_error",
               "timeout", "no_connection", "broken"}
ConfigChoices == {{}, {"base_url"}}
BothDelimiters == {<<"n", "n">>, <<"r", "n", "r", "n">>}
TwoEvents == {<<<<"l", "t">>, <<>>, <<"x", "x">>, <<"D">>, <<"x">>>>,
              <<<<"x", "l", "t">>, <<"x">>>>}
=============================================================================
