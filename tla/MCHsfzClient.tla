---------------------------- MODULE MCHsfzClient ----------------------------
(* Instances of HsfzClient for TLC: what is asked of the ECUs. *)
EXTENDS HsfzClient

\* One identifier, polled again and again (EGS 22 DA2E, an F303 read).
OneRead == {[service |-> "22", echo |-> {"a"}]}

\* Two identifiers of one service.
TwoReads == {[service |-> "22", echo |-> {x}] : x \in {"a", "b"}}

\* Mode 01: a batch of PIDs and the single reads it falls back to.
BatchAndSingles ==
  {[service |-> "01", echo |-> s] : s \in {{"a", "b"}, {"a"}, {"b"}}}
=============================================================================
