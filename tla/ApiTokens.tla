------------------------------ MODULE ApiTokens ------------------------------
(***************************************************************************)
(* live.py ApiTokens and tools/api_token.py: the bearer tokens of the      *)
(* odometer API live in a file that the command line tool replaces and the *)
(* server reads again when its stamp, (mtime, size), has changed.          *)
(*                                                                         *)
(* The server stats, compares, opens and reads: the file may be replaced   *)
(* between any two.  One call is in progress at a time (the lock), and one *)
(* tool.  Two files written at the same nanosecond do not occur; `mtime`   *)
(* is a version.  The shape of the header is settled before the file.      *)
(***************************************************************************)
EXTENDS Integers, FiniteSets

CONSTANTS
  Names,      \* who a token is for; one token each
  MaxWrites   \* bound on the versions of the file

VARIABLES
  store, version, \* the file: its tokens, or Missing; how often replaced
  tool,           \* api_token.py: the tokens it is about to write, or None
  loaded, stamp,  \* self._tokens, self._stamp
  step, who, seen, \* validate: where it is, the token, the stat result
  held,           \* ghost: every content of the file since the call began
  verdict,         \* what the last call said
  glitch          \* ghost: an open of this call's or the loaded version failed

apiVars == <<store, version, tool, loaded, stamp, step, who, seen, held,
             verdict, glitch>>

Missing == {"missing"}
NoStamp == <<0, 0>>
Contents == IF store = Missing THEN {} ELSE store

\* Mutation: a file of the same length is the same file.
SizeOnly == <<1, Cardinality(store)>>

\* `(st.st_mtime_ns, st.st_size)`
Stamp == <<version, Cardinality(store)>>

ApiTypeOK ==
  /\ store \in SUBSET Names \cup {Missing} /\ version \in 0 .. MaxWrites
  /\ loaded \subseteq Names
  /\ step \in {"idle", "stat", "read"} /\ verdict \in {"none", "yes", "no"}

ApiInit ==
  /\ store = Missing /\ version = 0 /\ tool = Missing
  /\ loaded = {} /\ stamp = NoStamp
  /\ step = "idle" /\ who \in Names /\ seen = NoStamp /\ held = {}
  /\ verdict = "none" /\ glitch = FALSE

\* mint and revoke: the store is read, and later replaced as a whole.
ToolReads ==
  /\ tool = Missing /\ version < MaxWrites
  /\ \E n \in Names : tool' = IF n \in Contents THEN Contents \ {n}
                              ELSE Contents \cup {n}
  /\ UNCHANGED <<store, version, loaded, stamp, step, who, seen, held, verdict,
                 glitch>>

Replace(content) ==
  /\ version < MaxWrites
  /\ store' = content
  /\ version' = version + 1
  /\ held' = held \cup {IF content = Missing THEN {} ELSE content}
  /\ UNCHANGED <<loaded, stamp, step, who, seen, verdict, glitch>>

ToolReplaces == tool # Missing /\ Replace(tool) /\ tool' = Missing

\* Somebody removes the file.
Remove ==
  /\ store # Missing /\ tool = Missing
  /\ Replace(Missing)
  /\ UNCHANGED tool

Arrives ==
  /\ step = "idle"
  /\ step' = "stat" /\ who' \in Names
  /\ held' = {Contents} /\ verdict' = "none"
  /\ UNCHANGED <<store, version, tool, loaded, stamp, seen, glitch>>

Compare(tokens) ==
  /\ step' = "idle"
  /\ verdict' = IF who \in tokens THEN "yes" ELSE "no"

\* _load up to the open: a file that is not there, or has not changed.
Stat ==
  /\ step = "stat"
  /\ IF store = Missing
       THEN loaded' = {} /\ stamp' = NoStamp /\ glitch' = FALSE
            /\ Compare({}) /\ UNCHANGED seen
       ELSE /\ UNCHANGED <<loaded, stamp, glitch>>
            /\ IF Stamp = stamp THEN Compare(loaded) /\ UNCHANGED seen
               ELSE step' = "read" /\ seen' = Stamp /\ UNCHANGED verdict
  /\ UNCHANGED <<store, version, tool, who, held>>

\* _load from the open: what cannot be read is no token, and the stamp of
\* the stat is kept for either.
Read ==
  /\ step = "read"
  /\ \/ loaded' = Contents /\ glitch' = (store = Missing)
     \/ loaded' = {} /\ glitch' = TRUE
  /\ stamp' = seen
  /\ Compare(loaded')
  /\ UNCHANGED <<store, version, tool, who, seen, held>>

ApiNext == ToolReads \/ ToolReplaces \/ Remove \/ Arrives \/ Stat \/ Read

ApiSpec == ApiInit /\ [][ApiNext]_apiVars

-----------------------------------------------------------------------------
(* Properties *)

\* The answer is the one the file gave at some moment of the call: a token
\* that was revoked before it is refused, one that was minted before it is
\* accepted, however the tool's replacing of the file falls between the stat,
\* the open and an earlier call's (live.py:4457-4512, 4556-4569).  An open that
\* fails refuses everybody until the file is written again.
AnswerIsCurrent ==
  /\ verdict = "yes" => \E c \in held : who \in c
  /\ verdict = "no" => glitch \/ \E c \in held : who \notin c
=============================================================================
