------------------------------- MODULE Quoting -------------------------------
(***************************************************************************)
(* bridge/src/install.rs: the command that osascript runs as root passes   *)
(* through two readers, AppleScript for its string literal and then        *)
(* /bin/sh for its words, and is escaped for both.                         *)
(*                                                                         *)
(* A string is a sequence of tokens: the characters that either reader     *)
(* treats specially, and words of ordinary characters.                     *)
(***************************************************************************)
EXTENDS Naturals, Sequences, SequencesExt

Apostrophe == "'"
Quote == "\""
Backslash == "\\"
Blank == " "
Special == {Apostrophe, Quote, Backslash, Blank}

\* str::replace of one character
Replace(s, c, by) == FlattenSeq([i \in DOMAIN s |-> IF s[i] = c THEN by ELSE <<s[i]>>])

shell_quote(s) ==
  <<Apostrophe>>
  \o Replace(s, Apostrophe, <<Apostrophe, Backslash, Apostrophe, Apostrophe>>)
  \o <<Apostrophe>>

\* Faulty variant: the backslashes that escape the quotes are doubled again.
applescript_escape_swapped(s) ==
  Replace(Replace(s, Quote, <<Backslash, Quote>>), Backslash, <<Backslash, Backslash>>)

applescript_escape(s) ==
  Replace(Replace(s, Backslash, <<Backslash, Backslash>>), Quote, <<Backslash, Quote>>)

\* The literal in "do shell script ... with administrator privileges".
run_osascript_admin(raw_cmd) == <<Quote>> \o applescript_escape(raw_cmd) \o <<Quote>>

\* What osascript is given to run: nothing unless all three files are there.
run_install(script, supervisor_bin, core_bin, uid, files) ==
  IF ~({script, supervisor_bin, core_bin} \subseteq files) THEN {}
  ELSE {run_osascript_admin(
          shell_quote(script) \o <<Blank, "--supervisor-bin", Blank>>
          \o shell_quote(supervisor_bin) \o <<Blank, "--core-bin", Blank>>
          \o shell_quote(core_bin) \o <<Blank, "--owner-uid", Blank, uid>>)}

run_uninstall(script, files) ==
  IF script \notin files THEN {} ELSE {run_osascript_admin(shell_quote(script))}
-----------------------------------------------------------------------------
(* The two readers, outside this repository.                               *)

Unterminated == <<"unterminated">>

\* An AppleScript string literal: a backslash keeps the character after it, a
\* quote ends the literal; what follows would be read as program text.
LiteralStep(st, c) ==
  CASE st.at = "out" -> [st EXCEPT !.at = IF c = Quote THEN "in" ELSE "bad"]
    [] st.at = "in" /\ c = Backslash -> [st EXCEPT !.at = "escape"]
    [] st.at = "in" /\ c = Quote -> [st EXCEPT !.at = "end"]
    [] st.at = "escape" \/ (st.at = "in" /\ c \notin {Backslash, Quote})
         -> [at |-> "in", value |-> Append(st.value, c)]
    [] OTHER -> [st EXCEPT !.at = "bad"]

\* The words of a POSIX shell command, with the quoting that can occur.
PutInWord(st, c) == [st EXCEPT !.word = Append(@, c), !.inWord = TRUE]

ShellStep(st, c) ==
  CASE st.at = "single" /\ c = Apostrophe -> [st EXCEPT !.at = "out"]
    [] st.at = "double" /\ c = Quote -> [st EXCEPT !.at = "out"]
    [] st.at = "escape" -> [PutInWord(st, c) EXCEPT !.at = "out"]
    [] st.at = "out" /\ c = Apostrophe -> [st EXCEPT !.at = "single", !.inWord = TRUE]
    [] st.at = "out" /\ c = Quote -> [st EXCEPT !.at = "double", !.inWord = TRUE]
    [] st.at = "out" /\ c = Backslash -> [st EXCEPT !.at = "escape"]
    [] st.at = "out" /\ c = Blank -> IF st.inWord
                                     THEN [st EXCEPT !.words = Append(@, st.word),
                                                     !.word = <<>>, !.inWord = FALSE]
                                     ELSE st
    [] OTHER -> PutInWord(st, c)

\* Either reader takes a text character by character.
Start == [literal |-> [at |-> "out", value |-> <<>>],
          shell |-> [at |-> "out", words |-> <<>>, word |-> <<>>, inWord |-> FALSE]]
Step(reader, st, c) == IF reader = "literal" THEN LiteralStep(st, c) ELSE ShellStep(st, c)

Read(reader, text) ==
  LET read[i \in 0..Len(text)] ==
        IF i = 0 THEN Start[reader] ELSE Step(reader, read[i - 1], text[i])
  IN read[Len(text)]

AppleScriptLiteral(text) ==
  LET end == Read("literal", text)
  IN IF end.at = "end" THEN end.value ELSE Unterminated

ShellWords(text) ==
  LET end == Read("shell", text)
  IN IF end.at # "out" THEN <<Unterminated>>
     ELSE IF end.inWord THEN Append(end.words, end.word) ELSE end.words

\* Whatever characters the paths are made of, the root shell runs a script
\* that is there, with these very arguments, or nothing is run.
ArgumentsIntact(script, supervisor_bin, core_bin, uid, files) ==
  /\ {ShellWords(AppleScriptLiteral(cmd)) :
        cmd \in run_install(script, supervisor_bin, core_bin, uid, files)}
     = IF {script, supervisor_bin, core_bin} \subseteq files
       THEN {<< script, <<"--supervisor-bin">>, supervisor_bin,
                <<"--core-bin">>, core_bin, <<"--owner-uid">>, <<uid>> >>}
       ELSE {}
  /\ {ShellWords(AppleScriptLiteral(cmd)) : cmd \in run_uninstall(script, files)}
     = {<<s>> : s \in files \cap {script}}
==============================================================================
