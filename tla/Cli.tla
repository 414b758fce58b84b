-------------------------------- MODULE Cli --------------------------------
(***************************************************************************)
(* The command line (cli.rs): parse and its helpers, for afk as the user   *)
(* calls it and as afk calls itself (__runner, __child).  A word is a      *)
(* string of which only its length and whether it is an ID are known.      *)
(***************************************************************************)
EXTENDS Integers, Sequences, SequencesExt

CONSTANTS Sizes,     \* the words of the model and their lengths in bytes
          Ids,       \* the words SessionId::parse_bytes takes
          MaxArgs,   \* MAX_COMMAND_ARGUMENTS
          MaxBytes   \* MAX_COMMAND_BYTES
ASSUME CliAssumption ==
    /\ Sizes \in [DOMAIN Sizes -> Nat] /\ Ids \subseteq DOMAIN Sizes
    /\ MaxArgs \in Nat \ {0} /\ MaxBytes \in Nat

\* Command and ParseError.
Plain(name) == [name |-> name]
ForSession(name, id) == [name |-> name, session |-> id]
Session(id, trace, command) == [name |-> "session", session |-> id, trace |-> trace, command |-> command]
HiddenChild(command) == [name |-> "child", command |-> command]
ParseError(why) == [name |-> "error", why |-> why]

Total(command) == FoldLeft(LAMBDA n, word : n + Sizes[word], 0, command)
CountForgotten(command) == Total(command) <= MaxBytes    \* mutant: only the bytes are counted
validate_command(command) == Len(command) <= MaxArgs /\ Total(command) <= MaxBytes

parse_session(a) ==
    IF a = <<>> THEN ParseError("InvalidArguments")
    ELSE IF a[1] \notin Ids THEN ParseError("InvalidSessionId")
    ELSE LET trace == Len(a) > 1 /\ a[2] = "--trace"
             remaining == SubSeq(a, IF trace THEN 3 ELSE 2, Len(a))
         IN  IF remaining = <<>> THEN Session(a[1], trace, <<>>)
             ELSE IF remaining[1] # "--" \/ Len(remaining) = 1 THEN ParseError("InvalidArguments")
             ELSE IF validate_command(Tail(remaining)) THEN Session(a[1], trace, Tail(remaining))
             ELSE ParseError("CommandTooLarge")

parse_session_command(name, a) ==
    IF Len(a) # 1 THEN ParseError("InvalidArguments")
    ELSE IF a[1] \in Ids THEN ForSession(name, a[1]) ELSE ParseError("InvalidSessionId")

parse_sessions(a) ==
    IF a \in {<<>>, <<"--json">>} THEN [name |-> "sessions", json |-> a # <<>>]
    ELSE ParseError("InvalidArguments")

parse_hidden_child(a) ==
    IF a = <<>> THEN ParseError("InvalidArguments")
    ELSE IF validate_command(a) THEN HiddenChild(a) ELSE ParseError("CommandTooLarge")

parse(a) ==
    CASE a = <<>> -> ParseError("MissingCommand")
      [] a \in {<<"--help">>, <<"-h">>} -> Plain("help")
      [] a \in {<<"--version">>, <<"-V">>} -> Plain("version")
      [] a # <<>> /\ a[1] = "session" -> parse_session(Tail(a))
      [] a # <<>> /\ a[1] = "sessions" -> parse_sessions(Tail(a))
      [] a # <<>> /\ a[1] = "stop" -> parse_session_command("stop", Tail(a))
      [] a # <<>> /\ a[1] = "__runner" -> parse_session_command("runner", Tail(a))
      [] a # <<>> /\ a[1] = "__child" -> parse_hidden_child(Tail(a))
      [] OTHER -> ParseError("UnsupportedCommand")

=============================================================================
