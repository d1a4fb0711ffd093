------------------------------- MODULE MCConfig -------------------------------
(***************************************************************************)
(* An instance of Config for TLC: one option of each sort, an integer, a    *)
(* text that is off unless it is given, and a path with a default.          *)
(***************************************************************************)
EXTENDS Config

MCQuestions == <<"source_ip", "source_port", "ffuf_wordlist">>

MCDefault == [q \in {"source_ip", "source_port", "ffuf_wordlist"} |->
                CASE q = "source_ip" -> "empty"
                  [] q = "source_port" -> "number"
                  [] q = "ffuf_wordlist" -> "text"]

=============================================================================
