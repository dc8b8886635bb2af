----------------------------- MODULE SourceLines -----------------------------
(***************************************************************************)
(* Lines of assembly text as parse_lines of model/assembler.py leaves      *)
(* them: the labels in front of the line, the mnemonic (given by the       *)
(* opcode it stands for), the register operands (0 where there is none)    *)
(* and the token of a target or immediate.                                 *)
(***************************************************************************)
EXTENDS Encoding, Sequences, Functions

(* The mnemonic of a line that holds only labels. *)
NoMnemonic == 256

Number(n)   == [kind |-> "number", value |-> n]
Forward(l)  == [kind |-> "forward", label |-> l]    \* 1F
Backward(l) == [kind |-> "backward", label |-> l]   \* 1B
Name(l)     == [kind |-> "name", label |-> l]

Line(labels, mn, d, s, token) ==
  [labels |-> labels, mnemonic |-> mn, d |-> d, s |-> s, target |-> token, wellFormed |-> TRUE]

Plain(labels, mn, d, s) == Line(labels, mn, d, s, Number(0))

(* Mnemonics whose operands include a target. *)
TakesTarget == Branches \cup Extended

(* parse_lines yields any mnemonic and token; parse_register and Python's  *)
(* integers bound the operands.                                            *)
IsToken(t) ==
  /\ t.kind \in {"number", "forward", "backward", "name"}
  /\ t.kind = "number" => t.value \in Int

IsLine(l) ==
  /\ l.mnemonic \in 0 .. 255 \cup {NoMnemonic}
  /\ l.d \in Reg /\ l.s \in Reg
  /\ l.mnemonic \in TakesTarget => IsToken(l.target)

IsText(lines) ==
  /\ lines \in Seq(Range(lines))
  /\ \A i \in DOMAIN lines : IsLine(lines[i])

(* Lines of a source that bear a label. *)
Bearing(lines, l) == {i \in DOMAIN lines : l \in lines[i].labels}

(* What a token on line i denotes to the author: 1F is the next line so    *)
(* labelled, 1B the last one up to this line, a name the first so labelled.*)
Denoted(lines, i, token) ==
  LET bearing == Bearing(lines, token.label)
      ahead   == {j \in bearing : j > i}
      behind  == {j \in bearing : j <= i}
  IN  CASE token.kind = "forward"  -> {j \in ahead : \A k \in ahead : j <= k}
        [] token.kind = "backward" -> {j \in behind : \A k \in behind : j >= k}
        [] token.kind = "name"     -> {j \in bearing : \A k \in bearing : j <= k}

Least(S)    == CHOOSE x \in S : \A y \in S : x <= y
Greatest(S) == CHOOSE x \in S : \A y \in S : x >= y

(* The first instruction at or after line i; past the last line if none.   *)
InstructionFrom(lines, i) ==
  Least({j \in i .. Len(lines) : lines[j].mnemonic # NoMnemonic} \cup {Len(lines) + 1})
=============================================================================
