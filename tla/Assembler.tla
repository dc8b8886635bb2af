------------------------------ MODULE Assembler ------------------------------
(***************************************************************************)
(* model/assembler.py: two passes over the lines.  The first gives every   *)
(* line its address, the second resolves targets and emits words; any      *)
(* error ends the assembly before a file is written.                       *)
(***************************************************************************)
EXTENDS SourceLines

CONSTANT Sources   \* the texts that are assembled

ASSUME SourcesAssumption == \A s \in Sources : IsText(s)

VARIABLES
  source,    \* the lines of the text
  phase,     \* from "place" over "encode" to "written", or "error"; a text
             \* may be generated before and its words loaded after
  address,   \* addresses of the lines placed so far, and the next one
  encoded,   \* lines encoded so far
  words      \* words emitted so far

asmVars == <<source, phase, address, encoded, words>>

Ends(S) == S[Len(S)]

(* As before BUG-001 of reports/bug_list.md. *)
instruction_size_bug001(mnemonic) ==
  CASE mnemonic = NoMnemonic                       -> 0
    [] mnemonic \in Extended \cup {LDRR, STRR}     -> 2
    [] mnemonic \notin Extended \cup {LDRR, STRR, NoMnemonic} -> 1

instruction_size(mnemonic) ==
  CASE mnemonic = NoMnemonic                       -> 0
    [] mnemonic \in Extended                       -> 2
    [] mnemonic \notin Extended \cup {NoMnemonic}  -> 1

label_table(l) == {address[i] : i \in Bearing(source, l)}

(* As if the label of the line itself were ahead of it. *)
CandidatesFromHere(token, current) ==
  CASE token.kind = "number"   -> {token.value}
    [] token.kind = "forward"  -> {a \in label_table(token.label) : a >= current}
    [] token.kind = "backward" -> {a \in label_table(token.label) : a <= current}
    [] token.kind = "name"     -> label_table(token.label)

(* The addresses a token may stand for; none is an error. *)
Candidates(token, current) ==
  CASE token.kind = "number"   -> {token.value}
    [] token.kind = "forward"  -> {a \in label_table(token.label) : a > current}
    [] token.kind = "backward" -> {a \in label_table(token.label) : a <= current}
    [] token.kind = "name"     -> label_table(token.label)

resolve_target(token, current) ==
  IF token.kind = "backward"
  THEN Greatest(Candidates(token, current))
  ELSE Least(Candidates(token, current))

Target(i) == resolve_target(source[i].target, address[i])

(* As if a call were relative to its second word, as a branch is. *)
OffsetFromNextWord(i) == Target(i) - address[i] - 1

Offset(i) == Target(i) - address[i] - (IF source[i].mnemonic = CALLA THEN 2 ELSE 1)

Relative(i) == source[i].mnemonic \in Branches \cup {CALLA}

(* As if both ends of the range were shifted by one. *)
OffsetFitsShifted(i) == Offset(i) \in -127 .. 128

OffsetFits(i) == Offset(i) \in -128 .. 127

Unresolved(i) ==
  /\ source[i].mnemonic \in TakesTarget
  /\ Candidates(source[i].target, address[i]) = {}

ExtensionWord(i) == Target(i) % WordSize

(* encode_line raises an error. *)
Rejected(i) ==
  \/ source[i].mnemonic # NoMnemonic /\ ~source[i].wellFormed
  \/ Unresolved(i)
  \/ Relative(i) /\ ~Unresolved(i) /\ ~OffsetFits(i)

encode_line(i) ==
  LET l == source[i]
      opcodeWord == 256 * l.mnemonic + 16 * l.d + l.s
  IN  CASE l.mnemonic = NoMnemonic             -> <<>>
        [] l.mnemonic \in Branches             -> <<256 * l.mnemonic + (Offset(i) % 256)>>
        [] l.mnemonic = CALLA                  -> <<256 * l.mnemonic + (Offset(i) % 256), 0>>
        [] l.mnemonic \in Extended \ {CALLA}   -> <<opcodeWord, ExtensionWord(i)>>
        [] l.mnemonic \in Defined \ TakesTarget -> <<opcodeWord>>

AsmInit ==
  /\ source \in Sources
  /\ phase = "place"
  /\ address = <<0>>
  /\ encoded = 0
  /\ words = <<>>

(* First pass: the address of the next line. *)
Place ==
  LET i == Len(address)
  IN  /\ phase = "place"
      /\ i <= Len(source)
      /\ source[i].mnemonic \in Defined \cup {NoMnemonic}
      /\ address' = Append(address, Ends(address) + instruction_size(source[i].mnemonic))
      /\ UNCHANGED <<source, phase, encoded, words>>

PlaceFails ==
  /\ phase = "place"
  /\ Len(address) <= Len(source)
  /\ source[Len(address)].mnemonic \notin Defined \cup {NoMnemonic}
  /\ phase' = "error"
  /\ UNCHANGED <<source, address, encoded, words>>

BuildLabelTable ==
  /\ phase = "place"
  /\ Len(address) > Len(source)
  /\ phase' = "encode"
  /\ UNCHANGED <<source, address, encoded, words>>

(* Second pass: the words of the next line. *)
Encode ==
  LET i == encoded + 1
  IN  /\ phase = "encode"
      /\ i <= Len(source)
      /\ ~Rejected(i)
      /\ words' = words \o encode_line(i)
      /\ encoded' = i
      /\ UNCHANGED <<source, phase, address>>

EncodeFails ==
  /\ phase = "encode"
  /\ encoded < Len(source)
  /\ Rejected(encoded + 1)
  /\ phase' = "error"
  /\ UNCHANGED <<source, address, encoded, words>>

(* main writes the words, one a line, and the layout. *)
WriteHex ==
  /\ phase = "encode"
  /\ encoded = Len(source)
  /\ phase' = "written"
  /\ UNCHANGED <<source, address, encoded, words>>

Assemble ==
  \/ Place
  \/ PlaceFails
  \/ BuildLabelTable
  \/ Encode
  \/ EncodeFails
  \/ WriteHex

AsmSpec == AsmInit /\ [][Assemble]_asmVars

-----------------------------------------------------------------------------
(***************************************************************************)
(* The two passes agree: when a line is encoded, its words go where the    *)
(* first pass placed it, although the passes count words by two unrelated  *)
(* tables, and they are words of sixteen bits.  (The layout file pairs      *)
(* addresses of the first pass with words of the second.)                  *)
(***************************************************************************)
WordsWherePlaced ==
  /\ phase = "encode" => Len(words) = address[encoded + 1]
  /\ \A i \in DOMAIN words : words[i] \in Word

(* Where the rule of the processor leads from line i, if it is a relative  *)
(* instruction with this byte of displacement.                             *)
LandsBy(i, byte) ==
  Plus(address[i] + instruction_size(source[i].mnemonic), SignExtend(byte))

Lands(i) == LandsBy(i, Imm8(words[address[i] + 1]))

(***************************************************************************)
(* Every relative instruction that was emitted, wherever it stands and     *)
(* whatever its target token, takes the processor to its target.           *)
(***************************************************************************)
RelativeTargetsReached ==
  \A i \in 1 .. encoded : Relative(i) => Lands(i) = Target(i) % WordSize

(* The addresses the text of line i means: the number that is written, or  *)
(* where the line stands that the token denotes (none, if it is dangling). *)
Meant(i) ==
  IF source[i].target.kind = "number"
  THEN {source[i].target.value}
  ELSE {address[j] : j \in Denoted(source, i, source[i].target)}

(* As plain numbers, the next address and this one are at the two ends of  *)
(* the address space: only a way round its top is short.                   *)
RoundTheTop(i, a) ==
  LET distance == a - address[i] - instruction_size(source[i].mnemonic)
  IN  distance <= 127 - WordSize \/ distance >= WordSize - 128

(***************************************************************************)
(* The assembler gives up on a well-formed line only where the author is   *)
(* to blame: nothing in the text bears the label, or the line that it      *)
(* denotes is out of the processor's reach, whose addresses go round.  The *)
(* assembler itself does not go round: the exceptions are a number at the  *)
(* other end of the address space, and texts of more than 65408 words.     *)
(***************************************************************************)
OnlyUnreachableRejected ==
  LET i == encoded + 1
  IN  phase = "error" /\ Len(address) > Len(source) /\ source[i].wellFormed =>
        /\ source[i].mnemonic \in TakesTarget
        /\ \A a \in Meant(i) :
             /\ Relative(i)
             /\ \/ \A byte \in 0 .. 255 : LandsBy(i, byte) # a % WordSize
                \/ source[i].target.kind = "number" /\ RoundTheTop(i, a)
                \/ Ends(address) > WordSize - 128
=============================================================================
