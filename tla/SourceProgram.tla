---------------------------- MODULE SourceProgram ----------------------------
(***************************************************************************)
(* What an assembly text means to its author: control moves from line to   *)
(* line, and a target denotes the line that bears the label.  There are no *)
(* addresses and no words here.                                            *)
(***************************************************************************)
EXTENDS SourceLines

VARIABLES
  source,    \* the lines
  running,
  line,      \* the line to execute, Len(source) + 1 past the last one
  link       \* the line the last CALLA returns to

textVars == <<source, running, line, link>>

mnemonic == source[line].mnemonic
targets  == {InstructionFrom(source, i) : i \in Denoted(source, line, source[line].target)}
follower == InstructionFrom(source, line + 1)

FromTheTop ==
  /\ line = InstructionFrom(source, 1)
  /\ link = line

TextInit ==
  /\ ~running
  /\ FromTheTop

(* Until it runs, the text may be added to. *)
Write ==
  /\ ~running
  /\ ~running'
  /\ FromTheTop'

Run ==
  /\ ~running
  /\ running'
  /\ UNCHANGED <<source, line, link>>

TextStep ==
  /\ running
  /\ line <= Len(source)
  /\ UNCHANGED <<source, running>>
  /\ \/ /\ mnemonic \in {JR, JMPA}
        /\ line' \in targets
        /\ UNCHANGED link
     \/ /\ mnemonic \in Branches \ {JR}
        /\ line' \in targets \cup {follower}
        /\ UNCHANGED link
     \/ /\ mnemonic = CALLA
        /\ line' \in targets
        /\ link' = follower
     \/ /\ mnemonic = RET
        /\ line' = link
        /\ UNCHANGED link
     \/ /\ mnemonic \notin Branches \cup {JMPA, CALLA, RET}
        /\ line' = follower
        /\ UNCHANGED link

TextSpec == TextInit /\ [][Write \/ Run \/ TextStep]_textVars
=============================================================================
