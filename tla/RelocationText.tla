--------------------------- MODULE RelocationText ---------------------------
(***************************************************************************)
(* What the relocators make of a file (internal/qtinstall/                 *)
(* desktop_relocator.go and mobile_relocator.go).                          *)
(*                                                                         *)
(* A text is a sequence of tokens: a build path, "/Users" for              *)
(* /Users/qt/work/install and "/home" for /home/qt/work/install, the       *)
(* library directory below it, a drive letter before it, each path also    *)
(* with backslashes, the directory of this kit, and "x" for anything else. *)
(* A settings file is a sequence of lines [kind, name, value].             *)
(***************************************************************************)
EXTENDS Naturals, Sequences, SequencesExt, FiniteSets

Refused == <<"refused">>

\* desktopBuildPrefixes, in the order in which they are replaced.
BuildPrefixes == << <<"/Users">>, <<"/home">>, <<"c:", "/Users">>, <<"C:", "/Users">> >>

Backslashes == [p \in {"/Users", "/home", "/lib", "/kit"} |->
  CASE p = "/Users" -> "\\Users" [] p = "/home" -> "\\home"
    [] p = "/lib" -> "\\lib" [] OTHER -> "\\kit"]

Backslashed(text) ==
  [i \in DOMAIN text |-> IF text[i] \in DOMAIN Backslashes THEN Backslashes[text[i]] ELSE text[i]]

\* bytes.ReplaceAll: from left to right, going on behind what was replaced.
ReplaceEach(text, old, new) ==
  LET at(i) == i + Len(old) <= Len(text) + 1 /\ SubSeq(text, i, i + Len(old) - 1) = old
      from[i \in 1..Len(text) + 1] ==
        IF i > Len(text) THEN <<>>
        ELSE IF at(i) THEN new \o from[i + Len(old)]
        ELSE <<text[i]>> \o from[i + 1]
  IN  from[1]

ReplacePrefixes(text, prefixes, kitDir) ==
  FoldLeft(LAMBDA t, p : ReplaceEach(ReplaceEach(t, p, kitDir), Backslashed(p), Backslashed(kitDir)),
           text, prefixes)

\* Mutated form: paths with backslashes are not looked for.
ReplaceSlashedPrefixes(text, kitDir) ==
  FoldLeft(LAMBDA t, p : ReplaceEach(t, p, kitDir), text, BuildPrefixes)

\* replaceDesktopBuildPrefixes, for .pc and .la files.
ReplaceBuildPrefixes(text, kitDir) == ReplacePrefixes(text, BuildPrefixes, kitDir)

\* rewriteDesktopPRL: the library directory becomes a property of the kit.
RewritePRL(text) ==
  FoldLeft(LAMBDA t, p : ReplaceEach(ReplaceEach(t, p \o <<"/lib">>, <<"libs">>),
                                     Backslashed(p) \o <<"\\lib">>, <<"libs">>),
           text, BuildPrefixes)

HasPart(text, part) ==
  \E i \in 1..Len(text) : i + Len(part) <= Len(text) + 1 /\ SubSeq(text, i, i + Len(part) - 1) = part

\* quoteShellPath.
Quoted(path) == <<"'">> \o ReplaceEach(path, <<"'">>, <<"'", "dq", "'", "dq", "'">>) \o <<"'">>

Command(hostTool, windows) == IF windows THEN <<"dq">> \o hostTool \o <<"dq">> ELSE Quoted(hostTool)

\* The script with the one build path of the tool, and the double quotes around
\* it, replaced by the command that runs the host's tool.
WithCommand(text, command) ==
  LET at   == CHOOSE i \in DOMAIN text : text[i] = "tool"
      from == IF at > 1 /\ text[at - 1] = "dq" THEN at - 1 ELSE at
      to   == IF at < Len(text) /\ text[at + 1] = "dq" THEN at + 1 ELSE at
  IN  SubSeq(text, 1, from - 1) \o command \o SubSeq(text, to + 1, Len(text))

BuildTools(text) == Cardinality({i \in DOMAIN text : text[i] = "tool"})

\* Mutated form: a script that runs the host's tool already is not recognised.
RewriteScriptOnce(text, hostTool, windows) ==
  IF BuildTools(text) = 1 THEN WithCommand(text, Command(hostTool, windows)) ELSE Refused

\* rewriteQtToolScript; "tool" is any spelling of the tool's path on the build machine.
RewriteScript(text, hostTool, windows) ==
  CASE BuildTools(text) = 0 /\ HasPart(text, hostTool) -> text
    [] BuildTools(text) = 1 -> WithCommand(text, Command(hostTool, windows))
    [] OTHER -> Refused

-----------------------------------------------------------------------------
IsSection(line) == line.kind = "section"

RefusedLines == <<[kind |-> "refused", name |-> "", value |-> ""]>>

\* Mutated form: an entry is taken for one of the section whatever section it is in.
RewriteLineAnywhere(done, line, section, values) ==
  IF line.kind = "entry" /\ line.name \in DOMAIN values
  THEN [done EXCEPT !.found = @ \cup {line.name},
                    !.twice = @ \/ line.name \in done.found,
                    !.lines = Append(@, [line EXCEPT !.value = values[line.name]])]
  ELSE [done EXCEPT !.lines = Append(@, line)]

\* One line of rewriteINIValues' loop: done has the section it is in, the keys
\* it found, whether one came twice, and the lines so far.
RewriteLine(done, line, section, values) ==
  CASE IsSection(line) ->
         [done EXCEPT !.section = line.name, !.lines = Append(@, line)]
    [] line.kind = "entry" /\ done.section = section /\ line.name \in DOMAIN values ->
         [done EXCEPT !.found = @ \cup {line.name},
                      !.twice = @ \/ line.name \in done.found,
                      !.lines = Append(@, [line EXCEPT !.value = values[line.name]])]
    [] OTHER -> [done EXCEPT !.lines = Append(@, line)]

\* rewriteINIValues: every key exactly once in its section, or the file is refused.
RewriteINI(lines, section, values) ==
  LET begin == [section |-> "", found |-> {}, twice |-> FALSE, lines |-> <<>>]
      end   == FoldLeft(LAMBDA done, line : RewriteLine(done, line, section, values), begin, lines)
  IN  IF end.twice \/ end.found # DOMAIN values THEN RefusedLines ELSE end.lines
=============================================================================
