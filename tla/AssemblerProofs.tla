--------------------------- MODULE AssemblerProofs ---------------------------
(***************************************************************************)
(* From text to execution, for every text and every generated program.     *)
(*                                                                         *)
(* The two passes of the assembler agree: the words of a line stand where  *)
(* the first pass placed it, a relative instruction lands on its target,   *)
(* and only what no displacement reaches is rejected.  The invariant is    *)
(* the one of the two loops: the addresses so far add up the sizes of the  *)
(* lines, and the words so far are the encodings of the lines encoded, at  *)
(* their addresses.                                                        *)
(*                                                                         *)
(* The words then do what the text says.  As long as they are where they   *)
(* were loaded, the program counter and R15 hold addresses of lines; each  *)
(* instruction that is fetched is the one of the current line, and its     *)
(* displacement or extension leads to the line its target denotes.         *)
(*                                                                         *)
(* A generated program stays where it was loaded, because of its shape:    *)
(* it begins with the moves to R10 and R11 (and R13), then stores only     *)
(* through these and does not change them, and ends where nothing is       *)
(* stored; no jump leads back from the end or past the moves.  The         *)
(* invariant says what they hold at each line.                             *)
(*                                                                         *)
(* And it comes to its halt loop, as far as steps tell.  Its opening, the  *)
(* blocks of the loop and the ending are told apart (LoopText, Closed):    *)
(* each label is on one line, and every jump but the one at the end of the *)
(* loop leads forward; so the assembler accepts it, and the rounds left in *)
(* R12 and the lines left to the end count its steps down.                 *)
(***************************************************************************)
EXTENDS RandomTests, SequenceTheorems, WellFoundedInduction, TLAPS

Known == Defined \cup {NoMnemonic}

(* The first pass has come to address k of the lines. *)
AddressesAddUp ==
  /\ address \in Seq(Nat)
  /\ Len(address) \in 1 .. Len(source) + 1
  /\ address[1] = 0
  /\ \A i \in 1 .. Len(address) - 1 :
       /\ source[i].mnemonic \in Known
       /\ address[i + 1] = address[i] + instruction_size(source[i].mnemonic)

Placed == Len(address) = Len(source) + 1

PassesInOrder ==
  /\ phase \in {"generate", "place", "encode", "written", "loaded", "error"}
  /\ phase = "generate" => address = <<0>>
  /\ phase \in {"generate", "place"} => encoded = 0
  /\ phase \in {"encode", "written", "loaded"} \/ encoded > 0 => Placed

(* The words of line i stand at its address. *)
StandsInPlace(i) ==
  /\ address[i] + instruction_size(source[i].mnemonic) <= Len(words)
  /\ Len(encode_line(i)) = instruction_size(source[i].mnemonic)
  /\ \A k \in 1 .. instruction_size(source[i].mnemonic) :
       words[address[i] + k] = encode_line(i)[k]

WordsInPlace ==
  /\ encoded \in 0 .. Len(source)
  /\ words \in Seq(Word)
  /\ Len(words) = address[encoded + 1]
  /\ \A i \in 1 .. encoded : ~Rejected(i) /\ StandsInPlace(i)

ErrorIsRejection ==
  phase = "error" /\ Placed => encoded < Len(source) /\ Rejected(encoded + 1)

AsmInv ==
  /\ IsText(source)
  /\ AddressesAddUp
  /\ PassesInOrder
  /\ WordsInPlace
  /\ ErrorIsRejection
-----------------------------------------------------------------------------
(* Sizes, targets and the words of one line.                               *)
LEMMA LeastIsLeast ==
  ASSUME NEW S \in SUBSET Nat, S # {}
  PROVE  Least(S) \in S /\ \A y \in S : Least(S) <= y
<1>1. PICK x \in S : \A y \in S : ~ (<<y, x>> \in OpToRel(<, Nat))
  BY Zenon, NatLessThanWellFounded, WFMin
<1>2. \A y \in S : ~ (y < x)
  BY <1>1, Zenon DEF OpToRel
<1>3. \A y \in S : x <= y
  BY <1>2
<1> QED
  BY <1>3 DEF Least

LEMMA GreatestIsGreatest ==
  ASSUME NEW n \in Nat, NEW S \in SUBSET (0 .. n), S # {}
  PROVE  Greatest(S) \in S /\ \A y \in S : Greatest(S) >= y
<1> DEFINE T == {n - x : x \in S}
<1>1. T \in SUBSET Nat /\ T # {}
  <2>1. \A x \in S : n - x \in Nat
    OBVIOUS
  <2> QED
    BY <2>1
<1>2. Least(T) \in T /\ \A y \in T : Least(T) <= y
  BY <1>1, LeastIsLeast
<1>3. PICK x \in S : Least(T) = n - x
  BY <1>2
<1>4. \A y \in S : x >= y
  BY <1>2, <1>3
<1> QED
  BY <1>4 DEF Greatest

LEMMA SizeOfLine ==
  ASSUME NEW mn \in Known
  PROVE  /\ instruction_size(mn) \in {0, 1, 2}
         /\ mn \in Branches => instruction_size(mn) = 1
         /\ mn = CALLA => instruction_size(mn) = 2
  BY DEF Known, instruction_size, NoMnemonic, Defined, RegisterOps, Branches, Extended,
     ADD, SUB, AND, CMP, XOR, TEST, OR, MVRR, DEC, INC, SHL, SHR, ADC, SBB, NOT, ASR,
     JR, JRS, JRNS, JRC, JRNC, JRZ, JRNZ, CLC, STC, RET, JMPA, MVRD, LDRR, STRR, ADDI, ANDI, CALLA

LEMMA LineIsTyped ==
  ASSUME IsText(source), NEW i \in 1 .. Len(source)
  PROVE  IsLine(source[i]) /\ DOMAIN source = 1 .. Len(source) /\ Len(source) \in Nat
<1>1. DOMAIN source = 1 .. Len(source) /\ Len(source) \in Nat
  BY LenProperties DEF IsText
<1> QED
  BY <1>1 DEF IsText

LEMMA TargetIsInteger ==
  ASSUME IsText(source), AddressesAddUp, Placed, NEW i \in 1 .. Len(source),
         source[i].mnemonic \in TakesTarget, ~Unresolved(i)
  PROVE  Target(i) \in Int /\ address[i] \in Nat
<1> DEFINE token == source[i].target
<1>1. IsToken(token) /\ DOMAIN source = 1 .. Len(source) /\ Len(source) \in Nat
  BY LineIsTyped DEF IsLine
<1>2. \A j \in 1 .. Len(source) : address[j] \in Nat
  BY <1>1, LenProperties, ElementOfSeq DEF AddressesAddUp, Placed
<1>3. \A l : label_table(l) \subseteq Nat
  BY <1>1, <1>2 DEF label_table, Bearing
<1>4. Candidates(token, address[i]) # {}
  BY DEF Unresolved
<1>5. CASE token.kind = "number"
  <2>1. Candidates(token, address[i]) = {token.value} /\ token.value \in Int
    BY <1>1, <1>5 DEF Candidates, IsToken
  <2>2. Least({token.value}) = token.value
    BY <2>1 DEF Least
  <2> QED
    BY <1>2, <1>5, <2>1, <2>2 DEF Target, resolve_target
<1>6. CASE token.kind \in {"forward", "name"}
  <2>1. Candidates(token, address[i]) \in SUBSET Nat
    BY <1>3, <1>6 DEF Candidates
  <2>2. Least(Candidates(token, address[i])) \in Nat
    BY <1>4, <2>1, LeastIsLeast
  <2> QED
    BY <1>2, <1>6, <2>2 DEF Target, resolve_target
<1>7. CASE token.kind = "backward"
  <2>1. Candidates(token, address[i]) \in SUBSET (0 .. address[i])
    BY <1>2, <1>3, <1>7 DEF Candidates
  <2>2. Greatest(Candidates(token, address[i])) \in 0 .. address[i]
    BY <1>2, <1>4, <2>1, GreatestIsGreatest
  <2> QED
    BY <1>2, <1>7, <2>2 DEF Target, resolve_target
<1> QED
  BY <1>1, <1>5, <1>6, <1>7 DEF IsToken

(* A byte of displacement says the same to assembler and processor.        *)
RelativeWord(m, offset) == 256 * m + (offset % 256)

LEMMA Displacement ==
  ASSUME NEW m \in 0 .. 255, NEW off \in -128 .. 127
  PROVE  /\ RelativeWord(m, off) \in Word
         /\ \A a \in Nat : Plus(a, SignExtend(Imm8(RelativeWord(m, off)))) = (a + off) % WordSize
<1>1. off % 256 = (IF off < 0 THEN off + 256 ELSE off)
  OBVIOUS
<1>2. Imm8(RelativeWord(m, off)) = off % 256
  BY <1>1 DEF Imm8, RelativeWord
<1>3. SignExtend(off % 256) = (IF off < 0 THEN off + 65536 ELSE off)
  BY <1>1 DEF SignExtend
<1>4. \A a \in Nat : Plus(a, SignExtend(off % 256)) = (a + off) % WordSize
  BY <1>3 DEF Plus, WordSize
<1>5. RelativeWord(m, off) \in Word
  BY <1>1 DEF Word, WordSize, RelativeWord
<1> QED
  BY <1>2, <1>4, <1>5

LEMMA KindsOfLine ==
  ASSUME NEW mn \in Known
  PROVE  /\ mn \in {NoMnemonic, CALLA} \cup Branches \cup (Extended \ {CALLA}) \cup (Defined \ TakesTarget)
         /\ mn # NoMnemonic => mn \in 0 .. 255
         /\ mn \in Branches \cup {CALLA} => mn \in TakesTarget
         /\ mn \in Extended => mn \in TakesTarget
         /\ mn = NoMnemonic =>
              mn \notin {CALLA} \cup Branches \cup Extended \cup Defined /\ instruction_size(mn) = 0
         /\ mn \in Branches => mn \notin {NoMnemonic, CALLA} \cup Extended /\ instruction_size(mn) = 1
         /\ mn = CALLA => mn # NoMnemonic /\ mn \notin Branches /\ instruction_size(mn) = 2
         /\ mn \in Extended => mn # NoMnemonic /\ mn \notin Branches /\ instruction_size(mn) = 2
         /\ mn \in Defined \ TakesTarget =>
              mn \notin {NoMnemonic, CALLA} \cup Branches \cup Extended /\ instruction_size(mn) = 1
  BY DEF Known, TakesTarget, instruction_size, NoMnemonic, Defined, RegisterOps, Branches, Extended,
     ADD, SUB, AND, CMP, XOR, TEST, OR, MVRR, DEC, INC, SHL, SHR, ADC, SBB, NOT, ASR,
     JR, JRS, JRNS, JRC, JRNC, JRZ, JRNZ, CLC, STC, RET, JMPA, MVRD, LDRR, STRR, ADDI, ANDI, CALLA

LEMMA WordOfFields ==
  ASSUME NEW mn \in 0 .. 255, NEW d \in Reg, NEW r \in Reg
  PROVE  256 * mn + 16 * d + r \in Word
  BY DEF Reg, Word, WordSize

(* An accepted line takes as many words as the first pass counted for it.  *)
LEMMA EncodedLine ==
  ASSUME IsText(source), AddressesAddUp, Placed, NEW i \in 1 .. Len(source), ~Rejected(i)
  PROVE  /\ encode_line(i) \in Seq(Word)
         /\ Len(encode_line(i)) = instruction_size(source[i].mnemonic)
         /\ Relative(i) =>
              /\ Offset(i) \in -128 .. 127
              /\ encode_line(i)[1] = RelativeWord(source[i].mnemonic, Offset(i))
<1> DEFINE mn == source[i].mnemonic
           opcodeWord == 256 * mn + 16 * source[i].d + source[i].s
<1>1. IsLine(source[i]) /\ mn \in Known
  BY LineIsTyped DEF AddressesAddUp, Placed
<1>2. mn \in TakesTarget => ~Unresolved(i) /\ Target(i) \in Int
  BY TargetIsInteger DEF Rejected
<1>3. Relative(i) => Offset(i) \in -128 .. 127
  BY <1>1, <1>2, KindsOfLine DEF Rejected, Relative, OffsetFits
<1>4. mn # NoMnemonic => opcodeWord \in Word
  BY <1>1, KindsOfLine, WordOfFields, ZenonT(40) DEF IsLine
<1>5. 0 \in Word
  BY DEF Word, WordSize
<1>6. CASE mn = NoMnemonic
  <2>1. encode_line(i) = <<>>
    BY <1>1, <1>6, KindsOfLine, Zenon DEF encode_line
  <2> QED
    BY <1>1, <1>6, <2>1, KindsOfLine, EmptySeq DEF Relative
<1>7. CASE mn \in Branches
  <2>1. encode_line(i) = <<RelativeWord(mn, Offset(i))>>
    BY <1>1, <1>7, KindsOfLine, ZenonT(40) DEF encode_line, RelativeWord
  <2>2. RelativeWord(mn, Offset(i)) \in Word
    BY <1>1, <1>3, <1>7, KindsOfLine, Displacement, ZenonT(40) DEF Relative
  <2>3. Relative(i) /\ instruction_size(mn) = 1
    BY <1>1, <1>7, KindsOfLine DEF Relative
  <2> HIDE DEF mn
  <2> QED
    BY <1>3, <2>1, <2>2, <2>3 DEF mn
<1>8. CASE mn = CALLA
  <2>1. encode_line(i) = <<RelativeWord(mn, Offset(i)), 0>>
    BY <1>1, <1>8, KindsOfLine, ZenonT(40) DEF encode_line, RelativeWord
  <2>2. RelativeWord(mn, Offset(i)) \in Word
    BY <1>1, <1>3, <1>8, KindsOfLine, Displacement, ZenonT(40) DEF Relative
  <2> QED
    BY <1>1, <1>3, <1>5, <1>8, <2>1, <2>2, KindsOfLine DEF Relative
<1>9. CASE mn \in Extended \ {CALLA}
  <2>1. encode_line(i) = <<opcodeWord, ExtensionWord(i)>>
    BY <1>1, <1>9, KindsOfLine, Zenon DEF encode_line
  <2>2. ExtensionWord(i) \in Word
    BY <1>1, <1>2, <1>9, KindsOfLine DEF ExtensionWord, Word, WordSize
  <2> QED
    BY <1>1, <1>4, <1>9, <2>1, <2>2, KindsOfLine DEF Relative
<1>10. CASE mn \in Defined \ TakesTarget
  <2>1. encode_line(i) = <<opcodeWord>>
    BY <1>1, <1>10, KindsOfLine, Zenon DEF encode_line
  <2> QED
    BY <1>1, <1>4, <1>10, <2>1, KindsOfLine DEF Relative
<1> QED
  BY <1>1, <1>6, <1>7, <1>8, <1>9, <1>10, KindsOfLine

-----------------------------------------------------------------------------
(* What the invariant says of the words and of the rejections.             *)
LEMMA InPlace ==
  ASSUME AsmInv
  PROVE  WordsWherePlaced
<1>1. \A i \in DOMAIN words : words[i] \in Word
  BY LenProperties, ElementOfSeq DEF AsmInv, WordsInPlace
<1> QED
  BY <1>1 DEF WordsWherePlaced, AsmInv, WordsInPlace

LEMMA TargetsReached ==
  ASSUME AsmInv
  PROVE  RelativeTargetsReached
<1> SUFFICES ASSUME NEW i \in 1 .. encoded, Relative(i)
             PROVE  Lands(i) = Target(i) % WordSize
  BY DEF RelativeTargetsReached
<1> DEFINE mn == source[i].mnemonic
           size == instruction_size(mn)
<1>1. Placed /\ i \in 1 .. Len(source) /\ encoded > 0
  BY LineIsTyped DEF AsmInv, PassesInOrder, WordsInPlace
<1>2. ~Rejected(i) /\ StandsInPlace(i)
  BY DEF AsmInv, WordsInPlace
<1>3. mn \in Known /\ IsLine(source[i])
  BY <1>1, LineIsTyped DEF AsmInv, AddressesAddUp, Placed
<1>4. /\ mn \in TakesTarget /\ mn \in 0 .. 255
      /\ size = (IF mn = CALLA THEN 2 ELSE 1)
  BY <1>3, KindsOfLine DEF Relative
<1>5. Target(i) \in Int /\ address[i] \in Nat
  BY <1>1, <1>2, <1>4, TargetIsInteger DEF AsmInv, Rejected
<1>6. /\ Offset(i) \in -128 .. 127
      /\ encode_line(i)[1] = RelativeWord(mn, Offset(i))
  BY <1>1, <1>2, EncodedLine DEF AsmInv
<1>7. words[address[i] + 1] = RelativeWord(mn, Offset(i))
  BY <1>2, <1>4, <1>6 DEF StandsInPlace
<1>8. Lands(i) = Plus(address[i] + size, SignExtend(Imm8(RelativeWord(mn, Offset(i)))))
  BY <1>7 DEF Lands, LandsBy
<1>9. address[i] + size \in Nat
  BY <1>4, <1>5
<1>10. Lands(i) = (address[i] + size + Offset(i)) % WordSize
  BY <1>4, <1>6, <1>8, <1>9, Displacement, ZenonT(40)
<1>11. address[i] + size + Offset(i) = Target(i)
  BY <1>4, <1>5 DEF Offset
<1> QED
  BY <1>10, <1>11

-----------------------------------------------------------------------------
(* The steps of the two passes.                                            *)
LEMMA LinesStay ==
  ASSUME UNCHANGED <<source, address>>
  PROVE  /\ \A i : (Rejected(i)' <=> Rejected(i)) /\ encode_line(i)' = encode_line(i)
         /\ (AddressesAddUp' <=> AddressesAddUp) /\ (Placed' <=> Placed)
<1>1. \A token, current : Candidates(token, current)' = Candidates(token, current)
  BY Zenon DEF Candidates, label_table
<1>2. \A i : Target(i)' = Target(i)
  BY <1>1 DEF Target, resolve_target
<1>3. \A i : Offset(i)' = Offset(i)
  BY <1>2 DEF Offset
<1>4. \A i : Rejected(i)' <=> Rejected(i)
  BY <1>1, <1>3 DEF Rejected, Relative, Unresolved, OffsetFits
<1>5. \A i : encode_line(i)' = encode_line(i)
  BY <1>2, <1>3, Zenon DEF encode_line, ExtensionWord
<1>6. (AddressesAddUp' <=> AddressesAddUp) /\ (Placed' <=> Placed)
  BY DEF AddressesAddUp, Placed
<1> QED
  BY <1>4, <1>5, <1>6

(* Steps after which what was placed and encoded is as before. *)
LEMMA NothingEmitted ==
  ASSUME AsmInv, UNCHANGED <<source, address, encoded, words>>
  PROVE  IsText(source)' /\ AddressesAddUp' /\ WordsInPlace'
<1>1. WordsInPlace'
  BY LinesStay DEF AsmInv, WordsInPlace, StandsInPlace
<1> QED
  BY <1>1, LinesStay DEF AsmInv

LEMMA PhaseStepKeeps ==
  ASSUME AsmInv, \/ PlaceFails \/ BuildLabelTable \/ EncodeFails \/ WriteHex
                 \/ phase = "written" /\ load_hex
                 \/ UNCHANGED asmVars
  PROVE  AsmInv'
<1>1. UNCHANGED <<source, address, encoded, words>>
  BY DEF PlaceFails, BuildLabelTable, EncodeFails, WriteHex, load_hex, asmVars
<1>2. Len(source) \in Nat /\ Len(address) \in 1 .. Len(source) + 1
  BY LenProperties DEF AsmInv, IsText, AddressesAddUp
<1>3. PassesInOrder'
  BY <1>1, <1>2 DEF AsmInv, PassesInOrder, Placed, PlaceFails, BuildLabelTable, EncodeFails,
     WriteHex, load_hex, asmVars
<1>4. ErrorIsRejection'
  <2>1. CASE EncodeFails
    BY <1>1, <2>1, LinesStay DEF ErrorIsRejection, EncodeFails
  <2>2. CASE PlaceFails
    BY <1>1, <1>2, <2>2 DEF ErrorIsRejection, PlaceFails, Placed
  <2>3. CASE UNCHANGED asmVars
    BY <1>1, <2>3, LinesStay DEF AsmInv, ErrorIsRejection, asmVars
  <2>4. CASE BuildLabelTable \/ WriteHex \/ load_hex
    BY <2>4 DEF ErrorIsRejection, BuildLabelTable, WriteHex, load_hex
  <2> QED
    BY <2>1, <2>2, <2>3, <2>4
<1> QED
  BY <1>1, <1>3, <1>4, NothingEmitted DEF AsmInv

LEMMA PlaceKeeps ==
  ASSUME AsmInv, Place
  PROVE  AsmInv'
<1> DEFINE i == Len(address)
           size == instruction_size(source[i].mnemonic)
<1>1. /\ phase = "place" /\ phase' = "place" /\ i <= Len(source)
      /\ source[i].mnemonic \in Known
      /\ address' = Append(address, address[i] + size)
      /\ UNCHANGED <<source, encoded, words>>
  BY DEF Place, Ends, Known
<1>2. /\ address \in Seq(Nat) /\ i \in 1 .. Len(source) + 1 /\ Len(source) \in Nat
      /\ address[i] \in Nat
  BY LenProperties, ElementOfSeq DEF AsmInv, AddressesAddUp, IsText
<1>3. size \in Nat
  BY <1>1, SizeOfLine
<1>4. /\ address' \in Seq(Nat) /\ Len(address') = i + 1
      /\ \A j \in 1 .. i : address'[j] = address[j]
      /\ address'[i + 1] = address[i] + size
  <2>1. address[i] + size \in Nat
    BY <1>2, <1>3
  <2> QED
    BY <1>1, <1>2, <2>1, AppendProperties
<1>5. AddressesAddUp'
  <2>1. ASSUME NEW j \in 1 .. i
        PROVE  /\ source[j].mnemonic \in Known
               /\ address'[j + 1] = address'[j] + instruction_size(source[j].mnemonic)
    <3>1. CASE j = i
      BY <1>1, <1>2, <1>4, <3>1
    <3>2. CASE j \in 1 .. i - 1
      BY <1>2, <1>4, <3>2 DEF AsmInv, AddressesAddUp
    <3> QED
      BY <1>2, <3>1, <3>2
  <2>2. address'[1] = 0
    BY <1>2, <1>4 DEF AsmInv, AddressesAddUp
  <2>3. Len(address') \in 1 .. Len(source) + 1
    BY <1>1, <1>2, <1>4
  <2> QED
    BY <1>1, <1>4, <2>1, <2>2, <2>3 DEF AddressesAddUp
<1>6. encoded = 0
  BY <1>1 DEF AsmInv, PassesInOrder
<1>7. WordsInPlace'
  BY <1>1, <1>2, <1>4, <1>6 DEF AsmInv, WordsInPlace
<1>8. PassesInOrder' /\ ErrorIsRejection'
  BY <1>1, <1>6 DEF AsmInv, PassesInOrder, ErrorIsRejection
<1> QED
  BY <1>1, <1>5, <1>7, <1>8 DEF AsmInv

LEMMA ConcatFacts ==
  ASSUME NEW S, NEW w \in Seq(S), NEW e \in Seq(S)
  PROVE  /\ w \o e \in Seq(S) /\ Len(w \o e) = Len(w) + Len(e)
         /\ \A k \in 1 .. Len(w) : (w \o e)[k] = w[k]
         /\ \A k \in 1 .. Len(e) : (w \o e)[Len(w) + k] = e[k]
<1>1. /\ w \o e \in Seq(S) /\ Len(w \o e) = Len(w) + Len(e)
      /\ \A k \in 1 .. Len(w) + Len(e) : (w \o e)[k] = IF k <= Len(w) THEN w[k] ELSE e[k - Len(w)]
      /\ Len(w) \in Nat /\ Len(e) \in Nat
  BY ConcatProperties, LenProperties
<1>2. \A k \in 1 .. Len(w) : (w \o e)[k] = w[k]
  BY <1>1
<1>3. ASSUME NEW k \in 1 .. Len(e)
      PROVE  (w \o e)[Len(w) + k] = e[k]
  <2>1. /\ Len(w) + k \in 1 .. Len(w) + Len(e) /\ ~ (Len(w) + k <= Len(w))
        /\ Len(w) + k - Len(w) = k
    BY <1>1
  <2> QED
    BY <1>1, <2>1
<1> QED
  BY <1>1, <1>2, <1>3

LEMMA EncodeKeeps ==
  ASSUME AsmInv, Encode
  PROVE  AsmInv'
<1>0. PICK i \in 1 .. Len(source) : i = encoded + 1
  BY LenProperties DEF Encode, AsmInv, WordsInPlace, IsText
<1> DEFINE size == instruction_size(source[i].mnemonic)
<1>1. /\ phase = "encode" /\ i <= Len(source) /\ ~Rejected(i)
      /\ words' = words \o encode_line(i)
      /\ encoded' = i
      /\ UNCHANGED <<source, phase, address>>
  BY <1>0 DEF Encode
<1>2. /\ i \in 1 .. Len(source) /\ encoded \in Nat /\ Len(source) \in Nat /\ Placed
      /\ words \in Seq(Word) /\ Len(words) = address[i]
  BY <1>0, <1>1, LenProperties DEF AsmInv, WordsInPlace, IsText, PassesInOrder
<1>3. /\ encode_line(i) \in Seq(Word)
      /\ Len(encode_line(i)) = size
  BY <1>1, <1>2, EncodedLine DEF AsmInv
<1>4. address[i + 1] = address[i] + size /\ size \in Nat /\ address[i] \in Nat
  BY <1>2, <1>3, LenProperties DEF AsmInv, AddressesAddUp, Placed
<1>5. /\ words' \in Seq(Word) /\ Len(words') = address[i + 1]
      /\ \A k \in 1 .. address[i] : words'[k] = words[k]
      /\ \A k \in 1 .. size : words'[address[i] + k] = encode_line(i)[k]
  <2>1. /\ words' \in Seq(Word) /\ Len(words') = Len(words) + Len(encode_line(i))
        /\ \A k \in 1 .. Len(words) : words'[k] = words[k]
        /\ \A k \in 1 .. Len(encode_line(i)) : words'[Len(words) + k] = encode_line(i)[k]
    <3>1. words \in Seq(Word) /\ encode_line(i) \in Seq(Word)
      BY <1>2, <1>3
    <3>2. words' = words \o encode_line(i)
      BY <1>1
    <3> QED
      BY <3>1, <3>2, ConcatFacts
  <2> QED
    BY <1>2, <1>3, <1>4, <2>1, Zenon
<1>6. ASSUME NEW j \in 1 .. encoded
      PROVE  StandsInPlace(j)' /\ ~Rejected(j)'
  <2>1. /\ StandsInPlace(j) /\ ~Rejected(j)
        /\ address[j] \in Nat /\ instruction_size(source[j].mnemonic) \in Nat
    <3>1. j \in 1 .. Len(source) /\ Len(address) = Len(source) + 1 /\ address \in Seq(Nat)
      BY <1>0, <1>2 DEF AsmInv, AddressesAddUp, Placed
    <3>2. address[j] \in Nat
      BY <1>2, <3>1, ElementOfSeq
    <3>3. source[j].mnemonic \in Known
      BY <1>2, <3>1 DEF AsmInv, AddressesAddUp
    <3> QED
      BY <3>2, <3>3, SizeOfLine DEF AsmInv, WordsInPlace
  <2>2. StandsInPlace(j)'
    <3> DEFINE sz == instruction_size(source[j].mnemonic)
    <3>1. /\ address[j] + sz <= address[i] /\ Len(encode_line(j)) = sz
          /\ \A k \in 1 .. sz : words[address[j] + k] = encode_line(j)[k]
      BY <1>2, <2>1 DEF StandsInPlace
    <3>2. \A k \in 1 .. sz : words'[address[j] + k] = encode_line(j)[k]
      <4>1. \A k \in 1 .. sz : address[j] + k \in 1 .. address[i]
        BY <1>4, <2>1, <3>1
      <4> QED
        BY <1>5, <3>1, <4>1
    <3>3. address[j] + sz <= Len(words')
      BY <1>4, <1>5, <2>1, <3>1
    <3>4. encode_line(j)' = encode_line(j) /\ UNCHANGED <<source, address>>
      BY <1>1, LinesStay
    <3> QED
      BY <3>1, <3>2, <3>3, <3>4 DEF StandsInPlace
  <2> QED
    BY <1>1, <2>1, <2>2, LinesStay
<1>7. StandsInPlace(i)' /\ ~Rejected(i)'
  <2>1. \A k \in 1 .. size : words'[address[i] + k] = encode_line(i)[k]
    BY <1>5
  <2> QED
    <3>1. encode_line(i)' = encode_line(i) /\ ~Rejected(i)' /\ UNCHANGED <<source, address>>
      BY <1>1, LinesStay
    <3>2. address[i] + size <= Len(words')
      BY <1>4, <1>5
    <3> QED
      BY <1>3, <2>1, <3>1, <3>2 DEF StandsInPlace
<1>8. WordsInPlace'
  <2>1. \A j \in 1 .. encoded' : j = i \/ j \in 1 .. encoded
    BY <1>0, <1>1, <1>2
  <2>2. \A j \in 1 .. encoded' : StandsInPlace(j)' /\ ~Rejected(j)'
    BY <1>6, <1>7, <2>1
  <2>3. encoded' \in 0 .. Len(source)' /\ Len(words') = address'[encoded' + 1]
    BY <1>0, <1>1, <1>2, <1>5
  <2> QED
    BY <1>5, <2>2, <2>3 DEF WordsInPlace
<1>9. PassesInOrder' /\ ErrorIsRejection'
  BY <1>1, <1>2, LinesStay DEF AsmInv, PassesInOrder, ErrorIsRejection
<1> QED
  BY <1>1, <1>8, <1>9, LinesStay DEF AsmInv

-----------------------------------------------------------------------------
(* What the generator emits is text.                                       *)
LEMMA TextOfLines ==
  ASSUME NEW S, NEW s \in Seq(S), \A l \in S : IsLine(l)
  PROVE  IsText(s)
<1>1. /\ Len(s) \in Nat /\ s \in [1 .. Len(s) -> S] /\ DOMAIN s = 1 .. Len(s)
  BY LenProperties
<1>2. s \in Seq(Range(s))
  BY <1>1 DEF Range
<1> QED
  BY <1>1, <1>2 DEF IsText

LEMMA TextConcat ==
  ASSUME NEW s, NEW t, IsText(s), IsText(t)
  PROVE  IsText(s \o t)
<1> DEFINE S == Range(s) \cup Range(t)
<1>1. s \in Seq(Range(s)) /\ t \in Seq(Range(t))
  BY DEF IsText
<1>2. s \in Seq(S) /\ t \in Seq(S)
  <2>1. Range(s) \subseteq S /\ Range(t) \subseteq S
    OBVIOUS
  <2> HIDE DEF S
  <2> QED
    BY <1>1, <2>1, SeqMonotonic
<1>3. s \o t \in Seq(S)
  <2> HIDE DEF S
  <2> QED
    BY <1>2, ConcatProperties
<1>4. \A l \in S : IsLine(l)
  BY DEF IsText, Range
<1> QED
  BY <1>3, <1>4, TextOfLines

LEMMA ShortTexts ==
  /\ IsText(<<>>)
  /\ \A a : IsLine(a) => IsText(<<a>>)
  /\ \A a, b : IsLine(a) /\ IsLine(b) => IsText(<<a, b>>)
  /\ \A a, b, c : IsLine(a) /\ IsLine(b) /\ IsLine(c) => IsText(<<a, b, c>>)
  /\ \A a, b, c, d : IsLine(a) /\ IsLine(b) /\ IsLine(c) /\ IsLine(d) => IsText(<<a, b, c, d>>)
<1>1. ASSUME NEW a, NEW b, NEW c, NEW d, IsLine(a), IsLine(b), IsLine(c), IsLine(d)
      PROVE  /\ IsText(<<>>) /\ IsText(<<a>>) /\ IsText(<<a, b>>) /\ IsText(<<a, b, c>>)
             /\ IsText(<<a, b, c, d>>)
  <2> DEFINE S == {a, b, c, d}
  <2>1. <<>> \in Seq(S) /\ <<a>> \in Seq(S) /\ <<a, b>> \in Seq(S) /\ <<a, b, c>> \in Seq(S)
        /\ <<a, b, c, d>> \in Seq(S)
    OBVIOUS
  <2>2. \A l \in S : IsLine(l)
    BY <1>1
  <2> HIDE DEF S
  <2> QED
    BY <2>1, <2>2, TextOfLines
<1>2. IsText(<<>>)
  BY EmptySeq, LenProperties DEF IsText
<1> QED
  BY <1>1, <1>2, Zenon

LEMMA EmittedLines ==
  /\ \A r \in Reg, imm \in Int : IsLine(Mvrd(r, imm))
  /\ \A mn \in Defined, d \in Reg, r \in Reg : IsLine(Op(mn, d, r))
  /\ \A mn \in Defined : \A label : IsLine(To(mn, label))
  /\ \A label : IsLine(Label(label))
  /\ \A label : IsLine(Line({label}, JR, 0, 0, Name(label)))
<1>1. Defined \subseteq 0 .. 255 /\ MVRD \in 0 .. 255 /\ JR \in 0 .. 255
  BY DEF Defined, RegisterOps, Branches, Extended,
     ADD, SUB, AND, CMP, XOR, TEST, OR, MVRR, DEC, INC, SHL, SHR, ADC, SBB, NOT, ASR,
     JR, JRS, JRNS, JRC, JRNC, JRZ, JRNZ, CLC, STC, RET, JMPA, MVRD, LDRR, STRR, ADDI, ANDI, CALLA
<1>2. 0 \in Reg
  BY DEF Reg
<1> QED
  BY <1>1, <1>2 DEF IsLine, IsToken, Mvrd, Op, To, Label, Plain, Line, Number, Name

LEMMA RegisterNumbers ==
  /\ \A r \in 0 .. 15 : r \in Reg
  /\ Drawn \subseteq Reg
  /\ {MVRD, STRR, LDRR, STC, CLC, ADC, SBB, ADD, SHL, SHR, CMP, SUB, DEC,
      JRZ, JRNZ, JRC, JRNC, JRS, JRNS, JMPA} \subseteq Defined
  /\ ArithOps \subseteq Defined /\ BranchOps \subseteq Defined /\ UNARY_OPS \subseteq Defined
  BY GeneratorAssumption DEF Reg, Drawn, REGISTER_POOL, UNARY_OPS, Defined, RegisterOps, Branches, Extended

LEMMA SetupIsText ==
  ASSUME NEW n \in LoopCounts, NEW imm \in Immediates
  PROVE  IsText(Setup(n, imm))
<1>1. \A r \in 0 .. 15, k \in Int : IsLine(Mvrd(r, k))
  BY EmittedLines, RegisterNumbers
<1>2. \A d \in 0 .. 15, r \in 0 .. 15 : IsLine(Op(STRR, d, r)) /\ IsLine(Op(LDRR, d, r))
  BY EmittedLines, RegisterNumbers
<1>3. n \in Int /\ \A r \in 0 .. 9 : Imm(r, imm) \in Int
  BY GeneratorAssumption DEF Imm, Word
<1>4. IsText(AddressSetup(n))
  BY <1>1, <1>3, ShortTexts DEF AddressSetup
<1>5. \A cond, lines : IsText(lines) => IsText(If(cond, lines))
  BY ShortTexts, EmittedLines DEF If
<1>6. IsText(TargetedSetup)
  <2>1. IsText(<<Mvrd(0, 0)>>) /\ IsText(<<Mvrd(9, \h8001)>>) /\ IsText(<<Mvrd(13, \hFF10)>>)
    BY <1>1, ShortTexts
  <2> QED
    BY <1>5, <2>1, TextConcat DEF TargetedSetup
<1>7. IsText(RegisterSetup(imm))
  <2> DEFINE first  == <<Mvrd(0, Imm(0, imm)), Mvrd(1, Imm(1, imm)), Op(STRR, 10, 1),
                         Mvrd(2, Imm(2, imm)), Op(STRR, 11, 2)>>
             second == [i \in 1 .. 7 |-> Mvrd(i + 2, Imm(i + 2, imm))]
             S == {Mvrd(0, Imm(0, imm)), Mvrd(1, Imm(1, imm)), Op(STRR, 10, 1),
                   Mvrd(2, Imm(2, imm)), Op(STRR, 11, 2)}
             T == {Mvrd(i + 2, Imm(i + 2, imm)) : i \in 1 .. 7}
  <2>1. \A l \in S : IsLine(l)
    BY <1>1, <1>2, <1>3
  <2>2. first \in Seq(S)
    OBVIOUS
  <2>3. \A l \in T : IsLine(l)
    BY <1>1, <1>3
  <2>4. second \in Seq(T)
    BY IsASeq
  <2>5. IsText(first) /\ IsText(second)
    <3> HIDE DEF first, second, S, T
    <3> QED
      BY <2>1, <2>2, <2>3, <2>4, TextOfLines
  <2> QED
    BY <2>5, TextConcat DEF RegisterSetup
<1>8. IsText(<<Mvrd(13, \hFF10), Op(STRR, 13, 3), Op(LDRR, 4, 13)>>) /\ IsText(<<Label(Loop)>>)
  BY <1>1, <1>2, EmittedLines, ShortTexts
<1> QED
  BY <1>4, <1>5, <1>6, <1>7, <1>8, TextConcat DEF Setup

LEMMA BlockIsText ==
  ASSUME NEW block \in ArithBlocks \cup UnaryBlocks \cup MemBlocks \cup FlagBranchBlocks
  PROVE  IsText(block)
<1>1. \A r \in 0 .. 15, k \in Int : IsLine(Mvrd(r, k))
  BY EmittedLines, RegisterNumbers
<1>2. \A mn \in Defined, d \in 0 .. 15, r \in 0 .. 15 : IsLine(Op(mn, d, r))
  BY EmittedLines, RegisterNumbers
<1>3. \A r \in Drawn : r \in 0 .. 15
  BY RegisterNumbers DEF Reg
<1>4. /\ \A p \in Pairs : p[1] \in 0 .. 15 /\ p[2] \in 0 .. 15
      /\ DistinctPairs \subseteq Pairs
  BY <1>3 DEF Pairs, DistinctPairs
<1>5. CASE block \in ArithBlocks
  <2>1. \A mn \in {ADC, SBB}, p \in Pairs : IsText(WithCarry(mn, p))
    <3>1. STC \in Defined /\ ADC \in Defined /\ SBB \in Defined /\ 0 \in 0 .. 15
      BY RegisterNumbers
    <3>2. IsLine(Op(STC, 0, 0))
      BY <1>2, <3>1
    <3>3. \A mn \in {ADC, SBB}, p \in Pairs : IsLine(Op(mn, p[1], p[2]))
      BY <1>2, <1>4, <3>1
    <3> QED
      BY <3>2, <3>3, ShortTexts DEF WithCarry
  <2>2. \A mn \in ArithOps, p \in Pairs : IsText(<<Op(mn, p[1], p[2])>>)
    BY <1>2, <1>4, RegisterNumbers, ShortTexts
  <2>3. IsText(<<Mvrd(0, \h7FFF), Mvrd(1, 1), Op(ADD, 0, 1)>>)
    BY <1>1, <1>2, RegisterNumbers, ShortTexts
  <2> QED
    <3> DEFINE sum == <<Mvrd(0, \h7FFF), Mvrd(1, 1), Op(ADD, 0, 1)>>
    <3>1. block \in {sum} \cup {WithCarry(ADC, p) : p \in Pairs}
                 \cup {WithCarry(SBB, p) : p \in Pairs} \cup UNION {Binary(mn) : mn \in ArithOps}
      <4>1. ArithBlocks \in {{sum}, {WithCarry(ADC, p) : p \in Pairs},
                            {WithCarry(SBB, p) : p \in Pairs}, UNION {Binary(mn) : mn \in ArithOps}}
        BY DEF ArithBlocks
      <4> HIDE DEF sum
      <4> QED
        BY <1>5, <4>1, Zenon
    <3>2. \A mn \in ArithOps : \A l \in Binary(mn) : IsText(l)
      BY <1>4, <2>2 DEF Binary
    <3>3. IsText(sum)
      BY <2>3
    <3> HIDE DEF sum
    <3> QED
      BY <2>1, <3>1, <3>2, <3>3
<1>6. CASE block \in UnaryBlocks
  BY <1>1, <1>2, <1>3, <1>6, RegisterNumbers, ShortTexts DEF UnaryBlocks
<1>7. CASE block \in MemBlocks
  BY <1>1, <1>2, <1>3, <1>7, RegisterNumbers, ShortTexts DEF MemBlocks
<1>8. CASE block \in FlagBranchBlocks
  <2>1. PICK condition \in Condition, mn \in {CLC, STC} : block = condition \o PassedOver(mn)
    BY <1>8 DEF FlagBranchBlocks
  <2>2. /\ \A k \in {JRZ, JRNZ, JRC, JRNC, JRS, JRNS} : IsLine(To(k, Skip))
        /\ \A k \in BranchOps : IsLine(To(k, Skip))
    BY EmittedLines, RegisterNumbers
  <2>3. /\ \A m \in {CMP, SUB}, d \in 0 .. 15, r \in 0 .. 15 : IsLine(Op(m, d, r))
        /\ \A m \in {STC, CLC} : IsLine(Op(m, 0, 0))
        /\ IsLine(Mvrd(0, 0)) /\ IsLine(Mvrd(0, 1)) /\ IsLine(Mvrd(1, 1))
    BY <1>1, <1>2, RegisterNumbers
  <2>4. /\ \A d \in Drawn : IsText(ComparedTo(<<d, d>>, JRZ))
        /\ \A p \in DistinctPairs : IsText(ComparedTo(p, JRNZ))
        /\ \A p \in DistinctPairs, k \in BranchOps : IsText(ComparedTo(p, k))
    BY <1>3, <1>4, <2>2, <2>3, ShortTexts DEF ComparedTo
  <2>5. /\ IsText(<<Op(STC, 0, 0), To(JRC, Skip)>>) /\ IsText(<<Op(CLC, 0, 0), To(JRNC, Skip)>>)
        /\ IsText(<<Mvrd(0, 0), Mvrd(1, 1), Op(SUB, 0, 1), To(JRS, Skip)>>)
        /\ IsText(<<Mvrd(0, 1), Mvrd(1, 1), Op(CMP, 0, 1), To(JRNS, Skip)>>)
    BY <2>2, <2>3, ShortTexts
  <2>6. IsText(condition)
    <3> DEFINE stc  == <<Op(STC, 0, 0), To(JRC, Skip)>>
               clc  == <<Op(CLC, 0, 0), To(JRNC, Skip)>>
               neg  == <<Mvrd(0, 0), Mvrd(1, 1), Op(SUB, 0, 1), To(JRS, Skip)>>
               zero == <<Mvrd(0, 1), Mvrd(1, 1), Op(CMP, 0, 1), To(JRNS, Skip)>>
               any  == {ComparedTo(p, k) : p \in DistinctPairs, k \in BranchOps}
    <3>1. Condition \in {{ComparedTo(<<d, d>>, JRZ) : d \in Drawn},
                        {ComparedTo(p, JRNZ) : p \in DistinctPairs}, {stc}, {clc}, {neg}, {zero}, any}
      BY DEF Condition
    <3>2. IsText(stc) /\ IsText(clc) /\ IsText(neg) /\ IsText(zero)
      BY <2>5
    <3>3. \A l \in any : IsText(l)
      BY <2>4
    <3> HIDE DEF stc, clc, neg, zero, any
    <3> QED
      BY <2>4, <3>1, <3>2, <3>3
  <2>7. IsText(PassedOver(mn))
    BY <2>3, EmittedLines, ShortTexts DEF PassedOver
  <2> QED
    BY <2>1, <2>6, <2>7, TextConcat
<1> QED
  BY <1>5, <1>6, <1>7, <1>8

LEMMA EndingIsText ==
  ASSUME NEW k \in Int
  PROVE  IsText(Ending(k))
<1> DEFINE S == {Op(DEC, 12, 0), To(JRNZ, Loop), Mvrd(13, k), To(JMPA, Exit), Mvrd(13, \hDEAD),
                 Label(Exit), Line({Halt}, JR, 0, 0, Name(Halt))}
<1>1. \A l \in S : IsLine(l)
  BY EmittedLines, RegisterNumbers
<1>2. Ending(k) \in Seq(S)
  BY DEF Ending
<1> HIDE DEF S
<1> QED
  BY <1>1, <1>2, TextOfLines

-----------------------------------------------------------------------------
(* Until the first pass begins, only the text matters.                     *)
LEMMA TextOnly ==
  ASSUME IsText(source), phase \in {"generate", "place"},
         address = << 0 >>, encoded = 0, words = <<>>
  PROVE  AsmInv
<1>1. Len(source) \in Nat
  BY LenProperties DEF IsText
<1>2. /\ <<0>> \in Seq(Nat) /\ Len(<<0>>) = 1 /\ <<0>>[1] = 0
      /\ <<>> \in Seq(Word) /\ Len(<<>>) = 0
  BY EmptySeq
<1>3. AddressesAddUp /\ WordsInPlace
  BY <1>1, <1>2 DEF AddressesAddUp, WordsInPlace
<1>4. PassesInOrder /\ ErrorIsRejection
  BY DEF PassesInOrder, ErrorIsRejection
<1> QED
  BY <1>3, <1>4 DEF AsmInv

LEMMA GeneratorKeeps ==
  ASSUME AsmInv, EmitSetup \/ EmitBlock \/ EmitEnd
  PROVE  AsmInv'
<1>1. /\ phase = "generate" /\ phase' \in {"generate", "place"}
      /\ UNCHANGED <<address, encoded, words>>
  BY DEF EmitSetup, EmitBlock, EmitEnd
<1>2. IsText(source)
  BY DEF AsmInv
<1>3. IsText(source')
  <2>1. CASE EmitSetup
    <3>1. PICK n \in LoopCounts, imm \in Immediates : source' = Setup(n, imm)
      BY <2>1 DEF EmitSetup
    <3> QED
      BY <3>1, SetupIsText
  <2>2. CASE EmitBlock
    BY <1>2, <2>2, BlockIsText, TextConcat DEF EmitBlock
  <2>3. CASE EmitEnd
    <3>1. PICK imm \in Immediates : source' = source \o Ending(imm[0])
      BY <2>3 DEF EmitEnd
    <3>2. imm[0] \in Int
      BY GeneratorAssumption DEF Word
    <3> QED
      BY <1>2, <3>1, <3>2, EndingIsText, TextConcat
  <2> QED
    BY <2>1, <2>2, <2>3
<1>4. address = <<0>> /\ encoded = 0 /\ words = <<>>
  <2>1. address = <<0>> /\ encoded = 0 /\ words \in Seq(Word) /\ Len(words) = address[1]
    BY <1>1 DEF AsmInv, PassesInOrder, WordsInPlace
  <2> QED
    BY <2>1, EmptySeq
<1>5. Len(source') \in Nat
  BY <1>3, LenProperties DEF IsText
<1>6. AddressesAddUp' /\ WordsInPlace'
  BY <1>1, <1>4, <1>5 DEF AsmInv, AddressesAddUp, WordsInPlace
<1>7. PassesInOrder' /\ ErrorIsRejection'
  BY <1>1, <1>4 DEF PassesInOrder, ErrorIsRejection
<1> QED
  BY <1>3, <1>6, <1>7 DEF AsmInv

-----------------------------------------------------------------------------
LEMMA AsmInvInit ==
  ASSUME RandomInit
  PROVE  AsmInv
<1>1. CASE GenInit
  <2>1. IsText(<<>>)
    BY ShortTexts
  <2> QED
    BY <1>1, <2>1, TextOnly DEF GenInit
<1>2. CASE Written
  BY <1>2, SourcesAssumption, TextOnly DEF Written, RunInit, AsmInit
<1> QED
  BY <1>1, <1>2 DEF RandomInit

LEMMA AsmInvStep ==
  ASSUME AsmInv, [RandomNext]_randomVars
  PROVE  AsmInv'
<1>1. CASE EmitSetup \/ EmitBlock \/ EmitEnd
  BY <1>1, GeneratorKeeps
<1>2. CASE Place
  BY <1>2, PlaceKeeps
<1>3. CASE Encode
  BY <1>3, EncodeKeeps
<1>4. CASE \/ PlaceFails \/ BuildLabelTable \/ EncodeFails \/ WriteHex
           \/ phase = "written" /\ load_hex
           \/ UNCHANGED asmVars
  BY <1>4, PhaseStepKeeps
<1>5. CASE Translate
  BY <1>2, <1>3, <1>4, <1>5 DEF Translate, RunNext, Assemble, Execute
<1>6. CASE UNCHANGED randomVars
  BY <1>4, <1>6 DEF randomVars, asmIsaVars
<1> QED
  BY <1>1, <1>5, <1>6 DEF RandomNext

(***************************************************************************)
(* The invariant of the two passes holds for every text that is written or *)
(* generated, and stays while its program runs.                            *)
(***************************************************************************)
THEOREM AssemblerInvariant == RandomSpec => []AsmInv
<1>1. RandomInit => AsmInv
  BY AsmInvInit
<1>2. AsmInv /\ [RandomNext]_randomVars => AsmInv'
  BY AsmInvStep
<1> QED
  BY <1>1, <1>2, PTL DEF RandomSpec

(***************************************************************************)
(* Words go where the first pass placed them, for every text: the two      *)
(* tables of sizes agree, and every word has sixteen bits.                 *)
(***************************************************************************)
THEOREM PlacementCorrect == RandomSpec => []WordsWherePlaced
  BY AssemblerInvariant, InPlace, PTL

(***************************************************************************)
(* The processor goes where the assembler aimed, for every branch and call *)
(* of every text.                                                          *)
(***************************************************************************)
THEOREM TargetsCorrect == RandomSpec => []RelativeTargetsReached
  BY AssemblerInvariant, TargetsReached, PTL

-----------------------------------------------------------------------------
(***************************************************************************)
(* The words that were assembled do what the text says, as long as they    *)
(* are not stored over.  A text whose jumps have numbers for targets, or   *)
(* which writes R15 other than by a call, means nothing line by line.      *)
(***************************************************************************)
Writers == (RegisterOps \ {CMP, TEST}) \cup {MVRD, LDRR, ADDI, ANDI}

Structured(lines) ==
  \A i \in DOMAIN lines :
    /\ lines[i].mnemonic \in Branches \cup {JMPA, CALLA} => lines[i].target.kind # "number"
    /\ lines[i].mnemonic \in Writers => lines[i].d # LinkRegister

(* The program is where it was loaded, and the memory has room for it.     *)
ProgramKept ==
  phase = "loaded" =>
    /\ Len(words) < WordSize /\ Len(words) <= MemDepth
    /\ \A a \in 1 .. Len(words) : mem[a - 1] = words[a]

(* The address of a line, or the one after the last. *)
StartsLine(a) == \E i \in 1 .. Len(source) + 1 : a = address[i]

TextInv ==
  /\ AsmInv
  /\ Structured(source)
  /\ DOMAIN regs = Reg
  /\ phase \in {"written", "loaded"} => encoded = Len(source)
  /\ phase # "loaded" => pc = 0 /\ regs[LinkRegister] = 0
  /\ phase = "loaded" => StartsLine(pc) /\ StartsLine(regs[LinkRegister])

LEMMA NumberInduction ==
  ASSUME NEW P \in SUBSET Nat, 0 \in P, \A n \in P : n + 1 \in P
  PROVE  P = Nat
<1> SUFFICES ASSUME P # Nat
             PROVE  FALSE
  OBVIOUS
<1>1. PICK m \in Nat \ P : \A y \in Nat \ P : m <= y
  BY LeastIsLeast
<1>2. m # 0 /\ m - 1 \in Nat /\ m - 1 \in P
  BY <1>1
<1> QED
  BY <1>1, <1>2

(* The lines of a text that has been placed. *)
Lines == 1 .. Len(source)
IsInstruction(i) == source[i].mnemonic # NoMnemonic
SizeOf(i) == instruction_size(source[i].mnemonic)

LEMMA PlacedLines ==
  ASSUME AsmInv, Placed
  PROVE  /\ Len(source) \in Nat /\ DOMAIN source = Lines
         /\ Len(address) = Len(source) + 1 /\ address[1] = 0
         /\ \A i \in 1 .. Len(source) + 1 : address[i] \in Nat
         /\ \A i \in Lines : /\ IsLine(source[i]) /\ source[i].mnemonic \in Known
                             /\ SizeOf(i) \in {0, 1, 2}
                             /\ SizeOf(i) = 0 <=> ~IsInstruction(i)
                             /\ address[i + 1] = address[i] + SizeOf(i)
<1>1. Len(source) \in Nat /\ DOMAIN source = Lines
  BY LenProperties DEF AsmInv, IsText, Lines
<1>2. Len(address) = Len(source) + 1 /\ address[1] = 0 /\ address \in Seq(Nat)
  BY DEF Placed, AsmInv, AddressesAddUp
<1>3. \A i \in 1 .. Len(source) + 1 : address[i] \in Nat
  BY <1>2, ElementOfSeq
<1>4. ASSUME NEW i \in Lines
      PROVE  /\ IsLine(source[i]) /\ source[i].mnemonic \in Known
             /\ SizeOf(i) \in {0, 1, 2}
             /\ SizeOf(i) = 0 <=> ~IsInstruction(i)
             /\ address[i + 1] = address[i] + SizeOf(i)
  <2>1. IsLine(source[i])
    BY <1>1 DEF AsmInv, IsText
  <2>2. source[i].mnemonic \in Known /\ address[i + 1] = address[i] + SizeOf(i)
    BY <1>1, <1>2 DEF AsmInv, AddressesAddUp, SizeOf, Lines
  <2>3. \A mn \in Known : /\ instruction_size(mn) \in {0, 1, 2}
                          /\ instruction_size(mn) = 0 <=> mn = NoMnemonic
    BY KindsOfLine, SizeOfLine
  <2> QED
    BY <2>1, <2>2, <2>3 DEF SizeOf, IsInstruction
<1> QED
  BY <1>1, <1>2, <1>3, <1>4

(* Addresses grow with the lines.                                          *)
LEMMA AddressesGrow ==
  ASSUME AsmInv, Placed, NEW i \in 1 .. Len(source) + 1, NEW j \in 1 .. Len(source) + 1, i <= j
  PROVE  /\ address[i] <= address[j]
         /\ i < j => address[i] + SizeOf(i) <= address[j]
<1>1. PICK P : P = {k \in Nat : \A l \in 1 .. Len(source) + 1 :
                                  l + k <= Len(source) + 1 => address[l] <= address[l + k]}
  OBVIOUS
<1>2. 0 \in P
  BY <1>1, PlacedLines
<1>3. ASSUME NEW k \in P
      PROVE  k + 1 \in P
  <2>1. k \in Nat
    BY <1>1
  <2>2. ASSUME NEW l \in 1 .. Len(source) + 1, l + (k + 1) <= Len(source) + 1
        PROVE  address[l] <= address[l + (k + 1)]
    <3>1. /\ l + k \in Lines /\ Len(source) \in Nat
          /\ address[l] \in Nat /\ address[l + k] \in Nat
      BY <2>1, <2>2, PlacedLines DEF Lines
    <3>2. address[l] <= address[l + k]
      BY <1>1, <2>1, <2>2, <3>1
    <3>3. address[(l + k) + 1] = address[l + k] + SizeOf(l + k) /\ SizeOf(l + k) \in {0, 1, 2}
      BY <3>1, PlacedLines
    <3>4. (l + k) + 1 = l + (k + 1)
      BY <2>1
    <3> QED
      BY <3>1, <3>2, <3>3, <3>4
  <2> QED
    BY <1>1, <2>1, <2>2
<1>4. P = Nat
  BY <1>1, <1>2, <1>3, NumberInduction
<1>5. \A l \in 1 .. Len(source) + 1, m \in 1 .. Len(source) + 1 : l <= m => address[l] <= address[m]
  <2> SUFFICES ASSUME NEW l \in 1 .. Len(source) + 1, NEW m \in 1 .. Len(source) + 1, l <= m
               PROVE  address[l] <= address[m]
    OBVIOUS
  <2>1. m - l \in P /\ l + (m - l) = m
    BY <1>4
  <2> QED
    BY <1>1, <2>1
<1>6. ASSUME i < j
      PROVE  address[i] + SizeOf(i) <= address[j]
  <2>1. i \in Lines /\ i + 1 \in 1 .. Len(source) + 1 /\ i + 1 <= j
    BY <1>6, PlacedLines DEF Lines
  <2> QED
    BY <1>5, <2>1, PlacedLines
<1> QED
  BY <1>5, <1>6

(* The first instruction from a line on, if there is one.                  *)
LEMMA FirstFrom ==
  ASSUME NEW lines, Len(lines) \in Nat, NEW i \in 1 .. Len(lines) + 1
  PROVE  /\ InstructionFrom(lines, i) \in i .. Len(lines) + 1
         /\ InstructionFrom(lines, i) <= Len(lines) =>
              lines[InstructionFrom(lines, i)].mnemonic # NoMnemonic
         /\ \A j \in i .. InstructionFrom(lines, i) - 1 : lines[j].mnemonic = NoMnemonic
<1>1. PICK T : T = {j \in i .. Len(lines) : lines[j].mnemonic # NoMnemonic} \cup {Len(lines) + 1}
  OBVIOUS
<1>2. T \in SUBSET Nat /\ T # {}
  BY <1>1
<1>3. Least(T) \in T /\ \A y \in T : Least(T) <= y
  BY <1>2, LeastIsLeast
<1>4. InstructionFrom(lines, i) = Least(T)
  BY <1>1 DEF InstructionFrom
<1>5. \A j \in i .. Least(T) - 1 : lines[j].mnemonic = NoMnemonic
  BY <1>1, <1>3
<1> QED
  BY <1>1, <1>3, <1>4, <1>5

(* Lines with only labels take no room.                                    *)
LEMMA FirstFromHere ==
  ASSUME AsmInv, Placed, NEW i \in 1 .. Len(source) + 1
  PROVE  address[InstructionFrom(source, i)] = address[i]
<1> DEFINE I == InstructionFrom(source, i)
<1>1. PICK P : P = {k \in Nat : i + k <= I => address[i + k] = address[i]}
  OBVIOUS
<1>2. /\ I \in i .. Len(source) + 1 /\ Len(source) \in Nat
      /\ \A j \in i .. I - 1 : ~IsInstruction(j)
  BY FirstFrom, PlacedLines DEF IsInstruction
<1> HIDE DEF I
<1>3. 0 \in P
  BY <1>1
<1>4. ASSUME NEW k \in P
      PROVE  k + 1 \in P
  <2>1. k \in Nat
    BY <1>1
  <2> SUFFICES ASSUME i + (k + 1) <= I
               PROVE  address[i + (k + 1)] = address[i]
    BY <1>1, <2>1
  <2>2. i + k \in i .. I - 1 /\ i + k \in Lines /\ (i + k) + 1 = i + (k + 1) /\ i + k <= I
    BY <1>2, <2>1 DEF Lines
  <2>3. SizeOf(i + k) = 0 /\ address[i + k] \in Nat /\ address[(i + k) + 1] = address[i + k] + SizeOf(i + k)
    BY <1>2, <2>2, PlacedLines DEF Lines
  <2>4. address[i + k] = address[i]
    BY <1>1, <2>1, <2>2
  <2> QED
    BY <2>2, <2>3, <2>4
<1>5. P = Nat
  BY <1>1, <1>3, <1>4, NumberInduction
<1>6. I - i \in P /\ i + (I - i) = I
  BY <1>2, <1>5
<1> QED
  BY <1>1, <1>2, <1>6 DEF I

(* So the line at the address of a line is the first instruction there.    *)
LEMMA LineAtAddress ==
  ASSUME AsmInv, Placed, NEW j \in 1 .. Len(source) + 1
  PROVE  LineAt(address[j]) = InstructionFrom(source, j)
<1> DEFINE I == InstructionFrom(source, j)
<1>1. /\ I \in j .. Len(source) + 1 /\ Len(source) \in Nat
      /\ I <= Len(source) => IsInstruction(I)
      /\ \A k \in j .. I - 1 : ~IsInstruction(k)
      /\ address[I] = address[j]
  BY FirstFrom, FirstFromHere, PlacedLines DEF IsInstruction
<1>2. /\ Ends(address) = address[Len(source) + 1]
      /\ \A i \in 1 .. Len(source) + 1 : address[i] \in Nat
      /\ DOMAIN source = Lines
  BY PlacedLines DEF Ends
<1> HIDE DEF I
<1>3. CASE I = Len(source) + 1
  <2>1. address[j] >= Ends(address)
    BY <1>1, <1>2, <1>3
  <2> QED
    BY <1>3, <2>1 DEF LineAt, I
<1>4. CASE I \in Lines
  <2>1. /\ SizeOf(I) \in {1, 2} /\ address[I] + SizeOf(I) <= Ends(address)
    <3>1. SizeOf(I) \in {0, 1, 2} /\ SizeOf(I) # 0
      BY <1>1, <1>4, PlacedLines DEF Lines
    <3>2. address[I] + SizeOf(I) <= address[Len(source) + 1]
      BY <1>1, <1>4, AddressesGrow DEF Lines
    <3> QED
      BY <1>2, <3>1, <3>2
  <2>2. ~ (address[j] >= Ends(address))
    BY <1>1, <1>2, <2>1
  <2> DEFINE there == {i \in DOMAIN source : address[i] = address[j] /\ source[i].mnemonic # NoMnemonic}
  <2>3. I \in there
    BY <1>1, <1>2, <1>4 DEF Lines, IsInstruction
  <2>4. ASSUME NEW i \in there
        PROVE  i = I
    <3>1. i \in Lines /\ IsInstruction(i) /\ address[i] = address[I]
      BY <1>1, <1>2 DEF IsInstruction
    <3>2. SizeOf(i) \in {1, 2}
      BY <3>1, PlacedLines
    <3>3. i < I => address[i] + SizeOf(i) <= address[I]
      BY <1>1, <1>4, <3>1, AddressesGrow DEF Lines
    <3>4. I < i => address[I] + SizeOf(I) <= address[i]
      BY <1>1, <1>4, <3>1, AddressesGrow DEF Lines
    <3>5. i \in Nat /\ I \in Nat /\ address[i] \in Nat /\ address[I] \in Nat
      BY <1>2, <1>4, <3>1 DEF Lines
    <3>6. ~(i < I) /\ ~(I < i)
      BY <2>1, <3>1, <3>2, <3>3, <3>4, <3>5
    <3> QED
      BY <3>5, <3>6
  <2>5. there = {I}
    BY <2>3, <2>4
  <2>6. Least({I}) = I
    BY <1>4 DEF Least, Lines
  <2>7. LineAt(address[j]) = Least(there)
    BY <2>2, <2>3, Zenon DEF LineAt
  <2> QED
    BY <2>5, <2>6, <2>7 DEF I
<1> QED
  BY <1>1, <1>3, <1>4 DEF Lines
-----------------------------------------------------------------------------
(* The words of an instruction and what the processor reads of them.       *)
FieldsWord(m, d, r) == 256 * m + 16 * d + r

LEMMA FieldsOfWord ==
  ASSUME NEW m \in 0 .. 255, NEW d \in Reg, NEW r \in Reg
  PROVE  Opcode(FieldsWord(m, d, r)) = m /\ DestReg(FieldsWord(m, d, r)) = d
<1>1. Opcode(256 * m + 16 * d + r) = m
  BY DEF Opcode, Reg
<1>2. (256 * m + 16 * d + r) \div 16 = 16 * m + d
  BY DEF Reg
<1>3. (16 * m + d) % 16 = d
  BY DEF Reg
<1> QED
  BY <1>1, <1>2, <1>3 DEF DestReg, FieldsWord

LEMMA OpcodeOfRelative ==
  ASSUME NEW m \in 0 .. 255, NEW offset \in Int
  PROVE  Opcode(RelativeWord(m, offset)) = m
<1>1. offset % 256 \in 0 .. 255
  OBVIOUS
<1>2. \A byte \in 0 .. 255 : (256 * m + byte) \div 256 = m
  OBVIOUS
<1> QED
  BY <1>1, <1>2 DEF Opcode, RelativeWord

LEMMA WordsOfInstruction ==
  ASSUME AsmInv, Placed, NEW i \in Lines, IsInstruction(i), ~Rejected(i)
  PROVE  /\ Opcode(encode_line(i)[1]) = source[i].mnemonic
         /\ source[i].mnemonic \notin Branches \cup {CALLA} =>
              DestReg(encode_line(i)[1]) = source[i].d
         /\ source[i].mnemonic \in Extended \ {CALLA} => encode_line(i)[2] = ExtensionWord(i)
<1> DEFINE mn == source[i].mnemonic
           d == source[i].d
           r == source[i].s
<1>1. mn \in Known /\ mn # NoMnemonic /\ mn \in 0 .. 255 /\ d \in Reg /\ r \in Reg
  BY PlacedLines, KindsOfLine DEF IsInstruction, IsLine
<1>2. /\ Opcode(FieldsWord(mn, d, r)) = mn /\ DestReg(FieldsWord(mn, d, r)) = d
      /\ \A offset \in Int : Opcode(RelativeWord(mn, offset)) = mn
  BY <1>1, FieldsOfWord, OpcodeOfRelative
<1>3. CASE mn \in Branches \cup {CALLA}
  <2>1. i \in 1 .. Len(source) /\ Relative(i)
    BY <1>3 DEF Lines, Relative
  <2>2. Offset(i) \in -128 .. 127 /\ encode_line(i)[1] = RelativeWord(mn, Offset(i))
    BY <2>1, EncodedLine DEF AsmInv
  <2>3. Opcode(encode_line(i)[1]) = mn
    BY <1>2, <2>2
  <2>4. mn \notin Extended \ {CALLA}
    BY <1>1, <1>3, KindsOfLine
  <2> QED
    BY <1>3, <2>3, <2>4
<1>4. CASE mn \in Extended \ {CALLA}
  <2>1. encode_line(i) = <<FieldsWord(mn, d, r), ExtensionWord(i)>>
    BY <1>1, <1>4, KindsOfLine, Zenon DEF encode_line, FieldsWord
  <2> QED
    BY <1>2, <2>1
<1>5. CASE mn \in Defined \ TakesTarget
  <2>1. encode_line(i) = <<FieldsWord(mn, d, r)>>
    BY <1>1, <1>5, KindsOfLine, Zenon DEF encode_line, FieldsWord
  <2>2. mn \notin Extended
    BY <1>1, <1>5, KindsOfLine
  <2> QED
    BY <1>2, <2>1, <2>2
<1> QED
  BY <1>1, <1>3, <1>4, <1>5, KindsOfLine

(* Nothing is written before every line was encoded.                       *)
Loaded == phase = "loaded" /\ encoded = Len(source) /\ AsmInv /\ ProgramKept

LEMMA LoadedLines ==
  ASSUME Loaded
  PROVE  /\ Placed /\ Len(words) = Ends(address) /\ Len(words) \in Nat
         /\ Len(words) < WordSize /\ Len(words) <= MemDepth
         /\ \A i \in Lines : ~Rejected(i) /\ StandsInPlace(i)
         /\ \A i \in 1 .. Len(source) + 1 : address[i] <= Len(words)
<1>1. Placed
  BY DEF Loaded, AsmInv, PassesInOrder
<1>2. Len(words) = Ends(address) /\ Len(words) \in Nat
  BY <1>1, PlacedLines DEF Loaded, AsmInv, WordsInPlace, Ends
<1>3. \A i \in Lines : ~Rejected(i) /\ StandsInPlace(i)
  BY DEF Loaded, AsmInv, WordsInPlace, Lines
<1>4. \A i \in 1 .. Len(source) + 1 : address[i] <= Len(words)
  BY <1>1, <1>2, PlacedLines, AddressesGrow DEF Loaded, Ends
<1> QED
  BY <1>1, <1>2, <1>3, <1>4 DEF Loaded, ProgramKept

LEMMA FetchedWord ==
  ASSUME Loaded, NEW a \in Nat, a < Len(words)
  PROVE  mem[IsaCell(a)] = words[a + 1] /\ Plus(a, 1) = a + 1 /\ a + 1 < WordSize
<1>1. Len(words) \in Nat /\ Len(words) < WordSize /\ Len(words) <= MemDepth
  BY LoadedLines
<1>2. a + 1 \in 1 .. Len(words) /\ (a + 1) - 1 = a
  BY <1>1
<1>3. mem[a] = words[a + 1]
  BY <1>2 DEF Loaded, ProgramKept
<1>4. ASSUME NEW n \in Nat, a < n
      PROVE  a % n = a
  BY <1>4
<1>5. IsaCell(a) = a
  BY <1>1, <1>4, MemoryAssumption DEF IsaCell
<1>6. Plus(a, 1) = a + 1 /\ a + 1 < WordSize
  BY <1>1 DEF Plus, WordSize
<1> QED
  BY <1>3, <1>5, <1>6

LEMMA Fetched ==
  ASSUME Loaded, NEW i \in Lines, IsInstruction(i), pc = address[i]
  PROVE  /\ op = source[i].mnemonic
         /\ source[i].mnemonic \notin Branches \cup {CALLA} => rd = source[i].d
         /\ source[i].mnemonic \in Extended \ {CALLA} => extension = ExtensionWord(i)
         /\ next = pc + 1 /\ ir = words[address[i] + 1]
         /\ SizeOf(i) = 2 => Plus(next, 1) = pc + 2
<1> DEFINE mn == source[i].mnemonic
<1>1. /\ ~Rejected(i) /\ StandsInPlace(i) /\ Placed /\ AsmInv
      /\ pc \in Nat /\ SizeOf(i) \in {1, 2} /\ pc + SizeOf(i) <= Len(words)
  <2>1. ~Rejected(i) /\ StandsInPlace(i) /\ Placed /\ AsmInv
    BY LoadedLines DEF Loaded
  <2>2. pc \in Nat /\ SizeOf(i) \in {0, 1, 2} /\ SizeOf(i) # 0
    BY <2>1, PlacedLines DEF Lines
  <2> QED
    BY <2>1, <2>2 DEF StandsInPlace, SizeOf
<1>2. Len(words) \in Nat
  BY LoadedLines
<1>3. pc < Len(words)
  BY <1>1, <1>2
<1>4. ir = words[pc + 1] /\ next = pc + 1
  BY <1>1, <1>3, FetchedWord DEF ir, next
<1>5. words[pc + 1] = encode_line(i)[1]
  BY <1>1 DEF StandsInPlace, SizeOf
<1>6. ASSUME SizeOf(i) = 2
      PROVE  extension = encode_line(i)[2] /\ Plus(next, 1) = pc + 2
  <2>1. pc + 1 \in Nat /\ pc + 1 < Len(words)
    BY <1>1, <1>2, <1>6
  <2>2. mem[IsaCell(pc + 1)] = words[(pc + 1) + 1] /\ Plus(pc + 1, 1) = (pc + 1) + 1
    BY <2>1, FetchedWord
  <2>3. words[pc + 2] = encode_line(i)[2]
    BY <1>1, <1>6 DEF StandsInPlace, SizeOf
  <2>4. (pc + 1) + 1 = pc + 2
    BY <1>1
  <2> QED
    BY <1>4, <2>2, <2>3, <2>4 DEF extension
<1>7. mn \in Extended \ {CALLA} => SizeOf(i) = 2
  BY <1>1, PlacedLines, KindsOfLine DEF SizeOf
<1> QED
  BY <1>1, <1>4, <1>5, <1>6, <1>7, WordsOfInstruction DEF op, rd

-----------------------------------------------------------------------------
(* The line that a label denotes is one line.                              *)
LEMMA FirstIsOne ==
  ASSUME NEW S \in SUBSET Nat, NEW J \in S, \A j \in S : J <= j
  PROVE  {k \in S : \A j \in S : k <= j} = {J}
<1>1. ASSUME NEW k \in S, \A j \in S : k <= j
      PROVE  k = J
  <2>1. k <= J /\ J <= k /\ k \in Nat /\ J \in Nat
    BY <1>1
  <2> QED
    BY <2>1
<1> QED
  BY <1>1

LEMMA LastIsOne ==
  ASSUME NEW S \in SUBSET Nat, NEW J \in S, \A j \in S : J >= j
  PROVE  {k \in S : \A j \in S : k >= j} = {J}
<1>1. ASSUME NEW k \in S, \A j \in S : k >= j
      PROVE  k = J
  <2>1. k >= J /\ J >= k /\ k \in Nat /\ J \in Nat
    BY <1>1
  <2> QED
    BY <2>1
<1> QED
  BY <1>1

(* A target is the address of the line that the token denotes there, and a *)
(* token without candidates denotes no line.                               *)
LEMMA TargetDenoted ==
  ASSUME AsmInv, Placed, NEW i \in Lines, IsInstruction(i),
         source[i].mnemonic \in TakesTarget, source[i].target.kind # "number"
  PROVE  /\ ~Unresolved(i) => \E J \in Lines : /\ Denoted(source, i, source[i].target) = {J}
                                              /\ Target(i) = address[J]
         /\ Unresolved(i) => Denoted(source, i, source[i].target) = {}
<1> DEFINE token == source[i].target
           bearing == Bearing(source, token.label)
<1>1. /\ token.kind \in {"forward", "backward", "name"}
      /\ Len(source) \in Nat /\ DOMAIN source = Lines /\ SizeOf(i) \in {1, 2}
      /\ \A j \in Lines : address[j] \in Nat
      /\ i \in 1 .. Len(source)
  BY PlacedLines DEF IsLine, IsToken, Lines
<1>2. bearing \subseteq Lines /\ Lines \subseteq Nat
  BY <1>1 DEF Bearing, Lines
<1>3. \A j, k \in Lines : /\ j <= k => address[j] <= address[k]
                          /\ j < k => address[j] + SizeOf(j) <= address[k]
  BY <1>1, AddressesGrow DEF Lines
<1>4. \A j \in Lines : j > i <=> address[j] > address[i]
  <2> SUFFICES ASSUME NEW j \in Lines
               PROVE  j > i <=> address[j] > address[i]
    OBVIOUS
  <2>1. CASE j > i
    BY <1>1, <1>3, <2>1 DEF Lines
  <2>2. CASE j <= i
    BY <1>1, <1>3, <2>2 DEF Lines
  <2> QED
    BY <1>1, <2>1, <2>2 DEF Lines
<1>5. label_table(token.label) = {address[j] : j \in bearing}
  BY DEF label_table
<1> HIDE DEF bearing
<1>6. ASSUME NEW S \in SUBSET Lines, S # {}, NEW C, C = {address[j] : j \in S}
      PROVE  /\ C # {}
             /\ \E J \in Lines : {k \in S : \A j \in S : k <= j} = {J} /\ Least(C) = address[J]
  <2>1. S \in SUBSET Nat
    BY <1>2
  <2>2. PICK J \in S : \A j \in S : J <= j
    BY <1>6, <2>1, LeastIsLeast
  <2>3. \A j \in S : address[J] <= address[j] /\ address[j] \in Nat
    BY <1>1, <1>3, <2>2
  <2>4. Least(C) = address[J]
    BY <1>6, <2>2, <2>3 DEF Least
  <2>5. {k \in S : \A j \in S : k <= j} = {J}
    BY <2>1, <2>2, FirstIsOne
  <2> QED
    BY <1>6, <2>2, <2>4, <2>5
<1>7. ASSUME NEW S \in SUBSET Lines, S # {}, S \subseteq 0 .. i, NEW C, C = {address[j] : j \in S}
      PROVE  /\ C # {}
             /\ \E J \in Lines : {k \in S : \A j \in S : k >= j} = {J} /\ Greatest(C) = address[J]
  <2>1. i \in Nat /\ S \in SUBSET Nat
    BY <1>1, <1>2
  <2>2. PICK J \in S : \A j \in S : J >= j
    BY <1>7, <2>1, GreatestIsGreatest
  <2>3. \A j \in S : address[J] >= address[j] /\ address[j] \in Nat
    BY <1>1, <1>3, <2>2
  <2>4. Greatest(C) = address[J]
    BY <1>7, <2>2, <2>3 DEF Greatest
  <2>5. {k \in S : \A j \in S : k >= j} = {J}
    BY <2>1, <2>2, LastIsOne
  <2> QED
    BY <1>7, <2>2, <2>4, <2>5
<1>8. CASE token.kind = "forward"
  <2>1. PICK ahead : ahead = {j \in bearing : j > i}
    OBVIOUS
  <2>2. Candidates(token, address[i]) = {address[j] : j \in ahead}
    <3>1. Candidates(token, address[i]) = {a \in label_table(token.label) : a > address[i]}
      BY <1>8, Zenon DEF Candidates
    <3> QED
      BY <1>2, <1>4, <1>5, <2>1, <3>1
  <2>3. Denoted(source, i, token) = {k \in ahead : \A j \in ahead : k <= j}
    BY <1>8, <2>1, Zenon DEF Denoted, bearing
  <2>4. Target(i) = Least(Candidates(token, address[i]))
    BY <1>8 DEF Target, resolve_target
  <2>5. ahead \in SUBSET Lines
    BY <1>2, <2>1
  <2>6. CASE ahead = {}
    BY <2>2, <2>3, <2>6 DEF Unresolved
  <2>7. CASE ahead # {}
    BY <1>6, <2>2, <2>3, <2>4, <2>5, <2>7 DEF Unresolved
  <2> QED
    BY <2>6, <2>7
<1>9. CASE token.kind = "backward"
  <2>1. PICK behind : behind = {j \in bearing : j <= i}
    OBVIOUS
  <2>2. Candidates(token, address[i]) = {address[j] : j \in behind}
    <3>1. Candidates(token, address[i]) = {a \in label_table(token.label) : a <= address[i]}
      BY <1>9, Zenon DEF Candidates
    <3>2. \A j \in Lines : j <= i <=> address[j] <= address[i]
      BY <1>1, <1>4 DEF Lines
    <3> QED
      BY <1>2, <1>5, <2>1, <3>1, <3>2
  <2>3. Denoted(source, i, token) = {k \in behind : \A j \in behind : k >= j}
    BY <1>9, <2>1, Zenon DEF Denoted, bearing
  <2>4. Target(i) = Greatest(Candidates(token, address[i]))
    BY <1>9 DEF Target, resolve_target
  <2>5. behind \in SUBSET Lines /\ behind \subseteq 0 .. i
    <3>1. i \in Nat /\ \A j \in Nat : j <= i => j \in 0 .. i
      BY <1>1
    <3> QED
      BY <1>2, <2>1, <3>1
  <2>6. CASE behind = {}
    BY <2>2, <2>3, <2>6 DEF Unresolved
  <2>7. CASE behind # {}
    BY <1>7, <2>2, <2>3, <2>4, <2>5, <2>7 DEF Unresolved
  <2> QED
    BY <2>6, <2>7
<1>10. CASE token.kind = "name"
  <2>1. Candidates(token, address[i]) = {address[j] : j \in bearing}
    BY <1>5, <1>10, Zenon DEF Candidates
  <2>2. Denoted(source, i, token) = {k \in bearing : \A j \in bearing : k <= j}
    BY <1>10, Zenon DEF Denoted, bearing
  <2>3. Target(i) = Least(Candidates(token, address[i]))
    BY <1>10 DEF Target, resolve_target
  <2>4. CASE bearing = {}
    BY <2>1, <2>2, <2>4 DEF Unresolved
  <2>5. CASE bearing # {}
    BY <1>2, <1>6, <2>1, <2>2, <2>3, <2>5 DEF Unresolved
  <2> QED
    BY <2>4, <2>5
<1> QED
  BY <1>1, <1>8, <1>9, <1>10

-----------------------------------------------------------------------------
(* Refusals: where the processor could go.                                 *)
LEMMA SameWord ==
  ASSUME NEW x \in Int, NEW y \in Int, x % WordSize = y % WordSize,
         x - y > -WordSize, x - y < WordSize
  PROVE  x = y
  BY DEF WordSize

(* An address that the plain difference does not reach is not reached by   *)
(* going round either, unless it is at the other end of the address space. *)
LEMMA OutOfReach ==
  ASSUME NEW n \in Nat, NEW a \in Int, NEW byte \in 0 .. 255,
         a - n \notin -128 .. 127, a - n > 127 - WordSize, a - n < WordSize - 128
  PROVE  Plus(n, SignExtend(byte)) # a % WordSize
<1>1. PICK off \in -128 .. 127 : off = IF byte < 128 THEN byte ELSE byte - 256
  OBVIOUS
<1>2. Plus(n, SignExtend(byte)) = (n + off) % WordSize
  <2>1. n + off \in Int /\ n + (off + WordSize) = (n + off) + WordSize
    BY <1>1 DEF WordSize
  <2>2. \A x \in Int : (x + WordSize) % WordSize = x % WordSize
    BY DEF WordSize
  <2>3. (n + (off + WordSize)) % WordSize = (n + off) % WordSize
    BY <2>1, <2>2, Zenon
  <2>4. SignExtend(byte) = off \/ SignExtend(byte) = off + WordSize
    BY <1>1 DEF SignExtend, WordSize
  <2> QED
    BY <2>3, <2>4, Zenon DEF Plus
<1>3. a - (n + off) > -WordSize /\ a - (n + off) < WordSize /\ a # n + off /\ n + off \in Int
  BY <1>1 DEF WordSize
<1>4. a % WordSize # (n + off) % WordSize
  BY <1>3, SameWord, Zenon
<1> QED
  BY <1>2, <1>4, Zenon

(* Two lines of a text are not that far apart.                             *)
LEMMA WithinText ==
  ASSUME NEW x \in Nat, NEW y \in Nat, NEW z \in Nat, x <= z, y <= z, 1 <= y, z <= WordSize - 128
  PROVE  x - y > 127 - WordSize /\ x - y < WordSize - 128
  BY DEF WordSize

LEMMA RejectedUnreachable ==
  ASSUME AsmInv
  PROVE  OnlyUnreachableRejected
<1>1. PICK i : i = encoded + 1
  OBVIOUS
<1> DEFINE mn == source[i].mnemonic
           token == source[i].target
           n == address[i] + instruction_size(mn)
<1> SUFFICES ASSUME phase = "error", Len(address) > Len(source), source[i].wellFormed
             PROVE  /\ mn \in TakesTarget
                    /\ \A a \in Meant(i) :
                         /\ Relative(i)
                         /\ \/ \A byte \in 0 .. 255 : LandsBy(i, byte) # a % WordSize
                            \/ token.kind = "number" /\ RoundTheTop(i, a)
                            \/ Ends(address) > WordSize - 128
  BY <1>1 DEF OnlyUnreachableRejected
<1>2. Placed /\ i \in Lines /\ Rejected(i)
  <2>1. Len(source) \in Nat
    BY LenProperties DEF AsmInv, IsText
  <2>2. Placed
    BY <2>1 DEF AsmInv, AddressesAddUp, Placed
  <2> QED
    BY <1>1, <2>1, <2>2 DEF AsmInv, ErrorIsRejection, WordsInPlace, Lines
<1>3. /\ Unresolved(i) \/ (Relative(i) /\ ~Unresolved(i) /\ ~OffsetFits(i))
      /\ mn \in Known /\ IsLine(source[i])
      /\ address[i] \in Nat /\ Len(source) \in Nat
  BY <1>2, PlacedLines DEF Rejected, Lines
<1>4. mn \in TakesTarget /\ mn # NoMnemonic
  <2>1. NoMnemonic \notin TakesTarget
    BY DEF NoMnemonic, TakesTarget, Branches, Extended,
       JR, JRS, JRNS, JRC, JRNC, JRZ, JRNZ, JMPA, MVRD, ADDI, ANDI, CALLA
  <2> QED
    BY <1>3, <2>1, KindsOfLine DEF Unresolved, Relative
<1>5. CASE Unresolved(i)
  <2>1. token.kind # "number"
    <3>1. token.kind = "number" => Candidates(token, address[i]) = {token.value}
      BY Zenon DEF Candidates
    <3> QED
      BY <1>5, <3>1 DEF Unresolved
  <2>2. Denoted(source, i, token) = {}
    BY <1>2, <1>4, <1>5, <2>1, TargetDenoted DEF IsInstruction
  <2>3. Meant(i) = {}
    BY <2>1, <2>2 DEF Meant
  <2> QED
    BY <1>4, <2>3
<1>6. CASE Relative(i) /\ ~Unresolved(i) /\ ~OffsetFits(i)
  <2>1. instruction_size(mn) = (IF mn = CALLA THEN 2 ELSE 1)
    BY <1>3, <1>6, KindsOfLine DEF Relative
  <2>2. Target(i) \in Int
    BY <1>2, <1>4, <1>6, TargetIsInteger DEF AsmInv, Lines
  <2>3. Meant(i) = {Target(i)}
    <3>1. CASE token.kind = "number"
      <4>1. token.value \in Int
        BY <1>3, <1>4, <3>1 DEF IsLine, IsToken
      <4>2. Candidates(token, address[i]) = {token.value}
        BY <3>1, Zenon DEF Candidates
      <4>3. Least({token.value}) = token.value
        BY <4>1 DEF Least
      <4> QED
        BY <3>1, <4>2, <4>3 DEF Meant, Target, resolve_target
    <3>2. CASE token.kind # "number"
      <4>1. PICK J \in Lines : Denoted(source, i, token) = {J} /\ Target(i) = address[J]
        BY <1>2, <1>4, <1>6, <3>2, TargetDenoted DEF IsInstruction
      <4> QED
        BY <3>2, <4>1 DEF Meant
    <3> QED
      BY <3>1, <3>2
  <2>4. n \in Nat /\ n >= 1 /\ Target(i) - n \notin -128 .. 127
    <3>1. Offset(i) = Target(i) - n
      BY <1>3, <2>1, <2>2 DEF Offset
    <3>2. n \in Nat /\ n >= 1
      BY <1>3, <2>1
    <3>3. Offset(i) \notin -128 .. 127
      BY <1>6 DEF OffsetFits
    <3> HIDE DEF n
    <3> QED
      BY <3>1, <3>2, <3>3
  <2>5. token.kind # "number" /\ Ends(address) <= WordSize - 128 => ~RoundTheTop(i, Target(i))
    <3> SUFFICES ASSUME token.kind # "number", Ends(address) <= WordSize - 128
                 PROVE  ~RoundTheTop(i, Target(i))
      OBVIOUS
    <3>1. PICK J \in Lines : Target(i) = address[J]
      BY <1>2, <1>4, <1>6, TargetDenoted DEF IsInstruction
    <3>2. Ends(address) = address[Len(source) + 1]
      BY <1>2 DEF Ends, Placed
    <3>3. /\ address[J] <= address[Len(source) + 1] /\ address[J] \in Nat
          /\ address[i] + SizeOf(i) <= address[Len(source) + 1]
          /\ address[Len(source) + 1] \in Nat
      <4>1. /\ J \in 1 .. Len(source) + 1 /\ i \in 1 .. Len(source) + 1
            /\ Len(source) + 1 \in 1 .. Len(source) + 1
            /\ J <= Len(source) + 1 /\ i < Len(source) + 1 /\ i <= Len(source) + 1
        BY <1>2, <1>3 DEF Lines
      <4>2. AsmInv /\ Placed
        BY <1>2
      <4> QED
        BY <4>1, <4>2, AddressesGrow, PlacedLines
    <3>4. n <= address[Len(source) + 1]
      BY <3>3 DEF SizeOf
    <3>5. Target(i) - n > 127 - WordSize /\ Target(i) - n < WordSize - 128
      <4> DEFINE x == address[J]
                 z == address[Len(source) + 1]
      <4>1. x \in Nat /\ z \in Nat /\ x <= z
        BY <3>3
      <4>2. z <= WordSize - 128
        BY <3>2
      <4>3. n \in Nat /\ 1 <= n /\ n <= z
        BY <2>4, <3>4
      <4>4. Target(i) = x
        BY <3>1
      <4> HIDE DEF n, x, z
      <4>5. x - n > 127 - WordSize /\ x - n < WordSize - 128
        BY <4>1, <4>2, <4>3, WithinText, Zenon
      <4> QED
        BY <4>4, <4>5
    <3>6. Target(i) - address[i] - instruction_size(mn) = Target(i) - n
      BY <1>3, <2>1, <2>2
    <3> HIDE DEF n
    <3>7. Target(i) - n \in Int /\ WordSize \in Int
      <4>1. n \in Nat
        BY <2>4
      <4>2. \A x \in Int, y \in Nat : x - y \in Int
        OBVIOUS
      <4>3. WordSize \in Int
        BY DEF WordSize
      <4> QED
        BY <2>2, <4>1, <4>2, <4>3, Zenon
    <3> QED
      BY <3>5, <3>6, <3>7 DEF RoundTheTop
  <2>6. ~RoundTheTop(i, Target(i)) =>
          \A byte \in 0 .. 255 : LandsBy(i, byte) # Target(i) % WordSize
    <3>1. Target(i) - address[i] - instruction_size(mn) = Target(i) - n
      BY <1>3, <2>1, <2>2
    <3>2. \A byte : LandsBy(i, byte) = Plus(n, SignExtend(byte))
      BY DEF LandsBy
    <3> HIDE DEF n
    <3>3. Target(i) - n \in Int /\ WordSize \in Int
      <4>1. n \in Nat
        BY <2>4
      <4>2. \A x \in Int, y \in Nat : x - y \in Int
        OBVIOUS
      <4>3. WordSize \in Int
        BY DEF WordSize
      <4> QED
        BY <2>2, <4>1, <4>2, <4>3, Zenon
    <3>4. ~RoundTheTop(i, Target(i)) =>
            Target(i) - n > 127 - WordSize /\ Target(i) - n < WordSize - 128
      BY <3>1, <3>3 DEF RoundTheTop
    <3>5. ~RoundTheTop(i, Target(i)) =>
            \A byte \in 0 .. 255 : Plus(n, SignExtend(byte)) # Target(i) % WordSize
      BY <2>2, <2>4, <3>4, OutOfReach
    <3> QED
      BY <3>2, <3>5, Zenon
  <2>7. Ends(address) \in Nat
    BY <1>2, <1>3, PlacedLines DEF Ends, Placed
  <2>8. Ends(address) <= WordSize - 128 \/ Ends(address) > WordSize - 128
    BY <2>7 DEF WordSize
  <2> HIDE DEF n
  <2> QED
    BY <1>4, <1>6, <2>3, <2>5, <2>6, <2>8
<1> QED
  BY <1>3, <1>5, <1>6

(***************************************************************************)
(* No text is refused that the processor could follow, for every text of   *)
(* up to 65408 words and labels on any of its lines (and for numbers that  *)
(* are not at the other end of the address space, as JR 0xFFFF at 0 is).   *)
(***************************************************************************)
THEOREM RejectionCorrect == RandomSpec => []OnlyUnreachableRejected
  BY AssemblerInvariant, RejectedUnreachable, PTL

-----------------------------------------------------------------------------
(* What an instruction does to the program counter and to R15.             *)
PlainOps == Defined \ (Branches \cup {JMPA, MVRD, ADDI, ANDI, CALLA, RET})

Goes ==
  /\ op \in PlainOps => pc' = next
  /\ op \in {MVRD, ADDI, ANDI} => pc' = Plus(next, 1)
  /\ op \in Branches => pc' \in {next, Plus(next, SignExtend(Imm8(ir)))}
  /\ op = JR => pc' = Plus(next, SignExtend(Imm8(ir)))
  /\ op = JMPA => pc' = extension
  /\ op = CALLA => pc' = Plus(Plus(next, 1), SignExtend(Imm8(ir)))
  /\ op = RET => pc' = regs[LinkRegister]

Links ==
  /\ DOMAIN regs' = Reg
  /\ regs'[LinkRegister] = IF op = CALLA THEN Plus(next, 1) ELSE regs[LinkRegister]

LEMMA ResultWritten ==
  ASSUME NEW result, NEW f, WriteResult(result, f), DOMAIN regs = Reg, rd # LinkRegister
  PROVE  pc' = next /\ DOMAIN regs' = Reg /\ regs'[LinkRegister] = regs[LinkRegister]
  BY DEF WriteResult, LinkRegister, Reg

LEMMA StepEffect ==
  ASSUME Step, DOMAIN regs = Reg, op \in Defined, op \in Writers => rd # LinkRegister
  PROVE  Goes /\ Links
<1> USE DEF ADD, SUB, AND, CMP, XOR, TEST, OR, MVRR, DEC, INC, SHL, SHR, ADC, SBB, NOT, ASR,
     JR, JRS, JRNS, JRC, JRNC, JRZ, JRNZ, CLC, STC, RET, JMPA, MVRD, LDRR, STRR, ADDI, ANDI, CALLA
<1>1. ASSUME NEW m \in (RegisterOps \ {CMP, TEST}) \cup {LDRR}, op = m,
             NEW result, NEW f, WriteResult(result, f)
      PROVE  Goes /\ Links
  <2>1. m \in Writers /\ m \in PlainOps
    BY DEF Writers, PlainOps, RegisterOps, Defined, Branches, Extended
  <2>2. m \notin Branches \cup {MVRD, ADDI, ANDI, JR, JMPA, CALLA, RET}
    BY DEF RegisterOps, Branches
  <2>3. pc' = next /\ DOMAIN regs' = Reg /\ regs'[LinkRegister] = regs[LinkRegister]
    BY <1>1, <2>1, ResultWritten
  <2> QED
    BY <1>1, <2>1, <2>2, <2>3 DEF Goes, Links
<1>2. CASE Arithmetic
  <2>1. \E m \in (RegisterOps \ {CMP, TEST}) \cup {LDRR} : op = m /\ \E result, f : WriteResult(result, f)
    BY <1>2 DEF Arithmetic, RegisterOps
  <2> QED
    BY <1>1, <2>1
<1>3. CASE Logic
  <2>1. \E m \in (RegisterOps \ {CMP, TEST}) \cup {LDRR} : op = m /\ \E result, f : WriteResult(result, f)
    BY <1>3 DEF Logic, RegisterOps
  <2> QED
    BY <1>1, <2>1
<1>4. CASE Shift
  <2>1. \E m \in (RegisterOps \ {CMP, TEST}) \cup {LDRR} : op = m /\ \E result, f : WriteResult(result, f)
    BY <1>4 DEF Shift, RegisterOps
  <2> QED
    BY <1>1, <2>1
<1>5. CASE Move \/ Load
  <2>1. \E m \in (RegisterOps \ {CMP, TEST}) \cup {LDRR} : op = m /\ \E result, f : WriteResult(result, f)
    BY <1>5 DEF Move, Load, RegisterOps
  <2> QED
    BY <1>1, <2>1
<1>6. ASSUME op \in PlainOps, pc' = next, regs' = regs
      PROVE  Goes /\ Links
  <2>1. op \notin Branches \cup {MVRD, ADDI, ANDI, JR, JMPA, CALLA, RET}
    BY <1>6 DEF PlainOps, Branches
  <2> QED
    BY <1>6, <2>1 DEF Goes, Links
<1>7. CASE Compare \/ SetCarry \/ Store
  <2>1. op \in PlainOps /\ pc' = next /\ regs' = regs
    BY <1>7 DEF Compare, SetCarry, Store, PlainOps, Defined, RegisterOps, Branches, Extended
  <2> QED
    BY <1>6, <2>1
<1>8. CASE Branch
  <2>1. op \notin PlainOps \cup {MVRD, ADDI, ANDI, JMPA, CALLA, RET}
    BY <1>8 DEF Branch, PlainOps, Branches
  <2>2. pc' \in {next, Plus(next, SignExtend(Imm8(ir)))}
    BY <1>8 DEF Branch
  <2>3. op = JR => pc' = Plus(next, SignExtend(Imm8(ir)))
    BY <1>8 DEF Branch, Take
  <2>4. regs' = regs
    BY <1>8 DEF Branch
  <2> QED
    BY <2>1, <2>2, <2>3, <2>4 DEF Goes, Links
<1>9. CASE Jump
  BY <1>9 DEF Jump, PlainOps, Goes, Links, Branches
<1>10. CASE Immediate
  <2>1. op \in {MVRD, ADDI, ANDI} /\ pc' = Plus(next, 1)
    BY <1>10 DEF Immediate
  <2>2. op \notin PlainOps \cup Branches \cup {JR, JMPA, CALLA, RET} /\ op \in Writers
    BY <2>1 DEF PlainOps, Branches, Writers
  <2>3. DOMAIN regs' = Reg /\ regs'[LinkRegister] = regs[LinkRegister]
    BY <1>10, <2>2 DEF Immediate, LinkRegister, Reg
  <2> QED
    BY <2>1, <2>2, <2>3 DEF Goes, Links
<1>11. CASE Call
  <2>1. op = CALLA /\ op \notin PlainOps \cup Branches \cup {JR, MVRD, ADDI, ANDI, JMPA, RET}
    BY <1>11 DEF Call, PlainOps, Branches
  <2>2. pc' = Plus(Plus(next, 1), SignExtend(Imm8(ir)))
        /\ regs' = [regs EXCEPT ![LinkRegister] = Plus(next, 1)]
    BY <1>11 DEF Call
  <2>3. DOMAIN regs' = Reg /\ regs'[LinkRegister] = Plus(next, 1)
    BY <2>2 DEF LinkRegister, Reg
  <2> QED
    BY <2>1, <2>2, <2>3 DEF Goes, Links
<1>12. CASE Return
  BY <1>12 DEF Return, PlainOps, Goes, Links, Branches
<1>13. CASE Undefined
  BY <1>13 DEF Undefined
<1> QED
  BY <1>2, <1>3, <1>4, <1>5, <1>7, <1>8, <1>9, <1>10, <1>11, <1>12, <1>13 DEF Step

-----------------------------------------------------------------------------
(* The kinds of instructions, by where they go.                            *)
LEMMA KindsOfInstruction ==
  ASSUME NEW mn \in Defined
  PROVE  /\ mn \in PlainOps => instruction_size(mn) = 1
                               /\ mn \notin Branches \cup {JMPA, CALLA, RET, MVRD, ADDI, ANDI}
         /\ mn \in {MVRD, ADDI, ANDI} => instruction_size(mn) = 2
                               /\ mn \notin Branches \cup {JMPA, CALLA, RET}
         /\ mn \in Branches => instruction_size(mn) = 1 /\ mn \notin {JMPA, CALLA, RET}
         /\ mn = JMPA => mn \in Extended \ {CALLA} /\ mn \notin Branches \cup {CALLA, RET}
         /\ mn = CALLA => instruction_size(mn) = 2 /\ mn \notin Branches \cup {JMPA, RET}
         /\ mn = RET => mn \notin Branches \cup {JMPA, CALLA}
         /\ mn \in Writers => mn \notin Branches \cup {CALLA}
         /\ mn \in Branches \cup {JMPA, CALLA} => mn \in TakesTarget
         /\ mn \in PlainOps \cup {MVRD, ADDI, ANDI} \cup Branches \cup {JMPA, CALLA, RET}
  BY DEF PlainOps, Writers, TakesTarget, instruction_size, NoMnemonic, Defined, RegisterOps, Branches, Extended,
     ADD, SUB, AND, CMP, XOR, TEST, OR, MVRR, DEC, INC, SHL, SHR, ADC, SBB, NOT, ASR,
     JR, JRS, JRNS, JRC, JRNC, JRZ, JRNZ, CLC, STC, RET, JMPA, MVRD, LDRR, STRR, ADDI, ANDI, CALLA

(* The instruction that is executed is the one of the current line.        *)
LEMMA CurrentInstruction ==
  ASSUME TextInv, ProgramKept, phase = "loaded", pc < Len(words)
  PROVE  /\ Loaded /\ Placed
         /\ CurrentLine \in Lines /\ IsInstruction(CurrentLine) /\ pc = address[CurrentLine]
<1>1. Loaded
  BY DEF TextInv, Loaded
<1>2. PICK j \in 1 .. Len(source) + 1 : pc = address[j]
  BY DEF TextInv, StartsLine
<1>3. Placed /\ AsmInv /\ Len(words) = Ends(address)
  BY <1>1, LoadedLines DEF Loaded
<1>4. CurrentLine = InstructionFrom(source, j)
  BY <1>2, <1>3, LineAtAddress DEF CurrentLine
<1>5. /\ CurrentLine \in j .. Len(source) + 1 /\ Len(source) \in Nat
      /\ CurrentLine <= Len(source) => IsInstruction(CurrentLine)
      /\ address[CurrentLine] = pc
  BY <1>2, <1>3, <1>4, FirstFrom, FirstFromHere, PlacedLines DEF IsInstruction
<1>6. CurrentLine # Len(source) + 1
  <2>1. address[Len(source) + 1] = Len(words) /\ Len(words) \in Nat
    BY <1>1, <1>3, PlacedLines DEF Ends
  <2> QED
    BY <1>5, <2>1
<1> QED
  BY <1>1, <1>3, <1>5, <1>6 DEF Lines

LEMMA SmallWord ==
  ASSUME NEW a, NEW n \in Nat, a \in Nat, a <= n, n < WordSize
  PROVE  a % WordSize = a
  BY DEF WordSize

(* Where a jump of the current line goes.                                  *)
LEMMA JumpDenoted ==
  ASSUME TextInv, Loaded, NEW i \in Lines, IsInstruction(i), i = CurrentLine,
         pc = address[i], source[i].mnemonic \in Branches \cup {JMPA, CALLA}
  PROVE  \E J \in Lines :
           /\ J \in Denoted(source, i, source[i].target)
           /\ source[i].mnemonic \in Branches => Plus(next, SignExtend(Imm8(ir))) = address[J]
           /\ source[i].mnemonic = CALLA =>
                Plus(Plus(next, 1), SignExtend(Imm8(ir))) = address[J]
           /\ source[i].mnemonic = JMPA => extension = address[J]
<1> DEFINE mn == source[i].mnemonic
<1>1. /\ Placed /\ AsmInv /\ ~Rejected(i) /\ mn \in Defined
      /\ Len(words) \in Nat /\ Len(words) < WordSize
  <2>1. mn \in Known
    BY LoadedLines, PlacedLines DEF Loaded
  <2> QED
    BY <2>1, LoadedLines DEF Loaded, Known, IsInstruction
<1>2. mn \in TakesTarget /\ ~Unresolved(i) /\ source[i].target.kind # "number"
  <2>1. i \in DOMAIN source
    BY <1>1, PlacedLines
  <2>2. mn \in TakesTarget
    BY <1>1, KindsOfInstruction
  <2> QED
    BY <1>1, <2>1, <2>2 DEF TextInv, Structured, Rejected
<1>3. PICK J \in Lines : J \in Denoted(source, i, source[i].target) /\ Target(i) = address[J]
  BY <1>1, <1>2, TargetDenoted
<1>4. Target(i) % WordSize = address[J]
  <2>1. address[J] \in Nat /\ address[J] <= Len(words)
    BY <1>1, LoadedLines, PlacedLines DEF Lines
  <2> QED
    BY <1>1, <1>3, <2>1, SmallWord
<1>5. CASE mn \in Branches \cup {CALLA}
  <2>1. Lands(i) = address[J]
    <3>1. i \in 1 .. encoded /\ Relative(i)
      BY <1>5 DEF Loaded, Lines, Relative
    <3> QED
      BY <1>1, <1>4, <3>1, TargetsReached DEF RelativeTargetsReached
  <2>2. next = pc + 1 /\ ir = words[address[i] + 1] /\ (SizeOf(i) = 2 => Plus(next, 1) = pc + 2)
    BY Fetched
  <2>3. Lands(i) = Plus(pc + SizeOf(i), SignExtend(Imm8(ir)))
    BY <2>2 DEF Lands, LandsBy, SizeOf
  <2>4. /\ mn \in Branches => SizeOf(i) = 1 /\ mn \notin {JMPA, CALLA}
        /\ mn = CALLA => SizeOf(i) = 2 /\ mn \notin Branches \cup {JMPA}
    BY <1>1, KindsOfInstruction DEF SizeOf
  <2> QED
    BY <1>3, <1>5, <2>1, <2>2, <2>3, <2>4
<1>6. CASE mn = JMPA
  <2>1. mn \in Extended \ {CALLA} /\ mn \notin Branches \cup {CALLA}
    BY <1>1, <1>6, KindsOfInstruction
  <2>2. extension = ExtensionWord(i)
    BY <2>1, Fetched
  <2> QED
    BY <1>3, <1>4, <2>1, <2>2 DEF ExtensionWord
<1> QED
  BY <1>5, <1>6

(* The line after: both as an address and as a line.                       *)
LEMMA LineFollows ==
  ASSUME Loaded, Placed, NEW i \in Lines, IsInstruction(i), pc = address[i]
  PROVE  /\ i + 1 \in 1 .. Len(source) + 1
         /\ SizeOf(i) = 1 => next = address[i + 1]
         /\ SizeOf(i) = 2 => Plus(next, 1) = address[i + 1]
<1>1. i + 1 \in 1 .. Len(source) + 1 /\ address[i + 1] = address[i] + SizeOf(i)
  BY PlacedLines DEF Loaded, Lines
<1>2. next = pc + 1 /\ (SizeOf(i) = 2 => Plus(next, 1) = pc + 2)
  BY Fetched
<1> QED
  BY <1>1, <1>2

LEMMA SameLines ==
  ASSUME UNCHANGED <<source, address>>
  PROVE  /\ \A a : LineAt(a)' = LineAt(a)
         /\ \A a : StartsLine(a)' <=> StartsLine(a)
  BY DEF LineAt, StartsLine, Ends

(* The text has the instructions of the assembler.                         *)
LEMMA TextNames ==
  /\ Text!Branches = Branches /\ Text!JR = JR /\ Text!JMPA = JMPA
  /\ Text!CALLA = CALLA /\ Text!RET = RET
  BY Zenon DEF Text!Branches, Branches, Text!JR, JR, Text!JRS, JRS, Text!JRNS, JRNS, Text!JRC, JRC,
     Text!JRNC, JRNC, Text!JRZ, JRZ, Text!JRNZ, JRNZ, Text!JMPA, JMPA, Text!CALLA, CALLA,
     Text!RET, RET

LEMMA TextDenotes ==
  \A lines, i, token : Text!Denoted(lines, i, token) = Denoted(lines, i, token)
  BY Zenon DEF Text!Denoted, Denoted, Text!Bearing, Bearing

LEMMA ExecuteImplements ==
  ASSUME TextInv, ProgramKept, Execute
  PROVE  /\ Text!TextStep
         /\ StartsLine(pc') /\ StartsLine(regs'[LinkRegister]) /\ DOMAIN regs' = Reg
<1>1. phase = "loaded" /\ pc < Len(words) /\ Step /\ UNCHANGED asmVars
  BY DEF Execute
<1>2. PICK i : i = CurrentLine
  OBVIOUS
<1> DEFINE mn == source[i].mnemonic
<1>3. /\ Loaded /\ Placed /\ AsmInv /\ Len(source) \in Nat
      /\ i \in Lines /\ IsInstruction(i) /\ pc = address[i] /\ mn \in Defined
  <2>1. Loaded /\ Placed /\ i \in Lines /\ IsInstruction(i) /\ pc = address[i]
    BY <1>1, <1>2, CurrentInstruction
  <2>2. AsmInv /\ mn \in Known /\ Len(source) \in Nat
    BY <2>1, PlacedLines DEF Loaded
  <2> QED
    BY <2>1, <2>2 DEF Known, IsInstruction
<1>4. op = mn /\ (mn \notin Branches \cup {CALLA} => rd = source[i].d)
  BY <1>3, Fetched
<1>5. Goes /\ Links
  <2>1. mn \in Writers => source[i].d # LinkRegister /\ mn \notin Branches \cup {CALLA}
    <3>1. i \in DOMAIN source
      BY <1>3, PlacedLines
    <3> QED
      BY <1>3, <3>1, KindsOfInstruction DEF TextInv, Structured
  <2> QED
    BY <1>1, <1>3, <1>4, <2>1, StepEffect DEF TextInv
<1>6. /\ i + 1 \in 1 .. Len(source) + 1
      /\ SizeOf(i) = 1 => next = address[i + 1]
      /\ SizeOf(i) = 2 => Plus(next, 1) = address[i + 1]
  BY <1>3, LineFollows
<1>7. /\ \A j \in 1 .. Len(source) + 1 : LineAt(address[j]) = InstructionFrom(source, j)
      /\ \A j \in 1 .. Len(source) + 1 : StartsLine(address[j])
  BY <1>3, LineAtAddress DEF StartsLine
<1>8. /\ CurrentLine' = LineAt(pc') /\ ReturnLine' = LineAt(regs'[LinkRegister])
      /\ ReturnLine = LineAt(regs[LinkRegister])
      /\ UNCHANGED <<source, phase>> /\ phase' = "loaded"
  <2>1. UNCHANGED <<source, address, phase>>
    BY <1>1 DEF asmVars
  <2> QED
    BY <1>1, <2>1, SameLines DEF CurrentLine, ReturnLine
<1>9. StartsLine(regs[LinkRegister])
  BY <1>1 DEF TextInv
<1>10. /\ Text!mnemonic = mn
       /\ Text!follower = LineAt(address[i + 1])
       /\ Text!targets = {InstructionFrom(source, j) : j \in Denoted(source, i, source[i].target)}
  <2>1. \A j : Text!InstructionFrom(source, j) = InstructionFrom(source, j)
    BY Zenon DEF Text!InstructionFrom, InstructionFrom, Text!Least, Least, Text!NoMnemonic, NoMnemonic
  <2> QED
    BY <1>2, <1>6, <1>7, <2>1, TextDenotes DEF Text!mnemonic, Text!follower, Text!targets
<1>11. CurrentLine <= Len(source)
  BY <1>2, <1>3 DEF Lines
<1>12. CASE mn \in PlainOps \cup {MVRD, ADDI, ANDI}
  <2>1. /\ mn \notin Branches \cup {JMPA, CALLA, RET}
        /\ SizeOf(i) = IF mn \in PlainOps THEN 1 ELSE 2
    BY <1>3, <1>12, KindsOfInstruction DEF SizeOf
  <2>2. pc' = address[i + 1]
    BY <1>4, <1>5, <1>6, <1>12, <2>1 DEF Goes
  <2>3. regs'[LinkRegister] = regs[LinkRegister] /\ DOMAIN regs' = Reg
    BY <1>4, <1>5, <2>1 DEF Links
  <2>4. CurrentLine' = Text!follower /\ ReturnLine' = ReturnLine
    BY <1>8, <1>10, <2>2, <2>3
  <2> QED
    BY <1>1, <1>6, <1>7, <1>8, <1>9, <1>10, <1>11, <2>1, <2>2, <2>3, <2>4, TextNames DEF Text!TextStep
<1>13. CASE mn \in Branches
  <2>1. mn \notin {JMPA, CALLA, RET} /\ SizeOf(i) = 1
    BY <1>3, <1>13, KindsOfInstruction DEF SizeOf
  <2>2. PICK J \in Lines : /\ J \in Denoted(source, i, source[i].target)
                           /\ Plus(next, SignExtend(Imm8(ir))) = address[J]
    BY <1>2, <1>3, <1>13, JumpDenoted
  <2>3. J \in 1 .. Len(source) + 1 /\ LineAt(address[J]) \in Text!targets
    BY <1>3, <1>7, <1>10, <2>2 DEF Lines
  <2>4. pc' \in {address[i + 1], address[J]} /\ (mn = JR => pc' = address[J])
    BY <1>4, <1>5, <1>6, <1>13, <2>1, <2>2 DEF Goes
  <2>5. regs'[LinkRegister] = regs[LinkRegister] /\ DOMAIN regs' = Reg
    BY <1>4, <1>5, <2>1 DEF Links
  <2>6. /\ CurrentLine' \in Text!targets \cup {Text!follower} /\ ReturnLine' = ReturnLine
        /\ mn = JR => CurrentLine' \in Text!targets
    BY <1>8, <1>10, <2>3, <2>4, <2>5
  <2> QED
    BY <1>1, <1>6, <1>7, <1>8, <1>9, <1>10, <1>11, <1>13, <2>1, <2>3, <2>4, <2>5, <2>6, TextNames DEF Text!TextStep
<1>14. CASE mn \in {JMPA, CALLA}
  <2>1. mn \notin Branches \cup {RET} /\ (mn = CALLA => SizeOf(i) = 2 /\ mn # JMPA)
    BY <1>3, <1>14, KindsOfInstruction DEF SizeOf
  <2>2. PICK J \in Lines : /\ J \in Denoted(source, i, source[i].target)
                           /\ mn = CALLA => Plus(Plus(next, 1), SignExtend(Imm8(ir))) = address[J]
                           /\ mn = JMPA => extension = address[J]
    BY <1>2, <1>3, <1>14, JumpDenoted
  <2>3. J \in 1 .. Len(source) + 1 /\ LineAt(address[J]) \in Text!targets
    BY <1>3, <1>7, <1>10, <2>2 DEF Lines
  <2>4. pc' = address[J]
    BY <1>4, <1>5, <1>14, <2>2 DEF Goes
  <2>5. /\ regs'[LinkRegister] = IF mn = CALLA THEN address[i + 1] ELSE regs[LinkRegister]
        /\ DOMAIN regs' = Reg
    BY <1>4, <1>5, <1>6, <2>1 DEF Links
  <2>6. /\ CurrentLine' \in Text!targets
        /\ ReturnLine' = IF mn = CALLA THEN Text!follower ELSE ReturnLine
    BY <1>8, <1>10, <2>3, <2>4, <2>5
  <2> QED
    BY <1>1, <1>6, <1>7, <1>8, <1>9, <1>10, <1>11, <1>14, <2>1, <2>3, <2>4, <2>5, <2>6, TextNames DEF Text!TextStep
<1>15. CASE mn = RET
  <2>1. mn \notin Branches \cup {JMPA, CALLA}
    BY <1>3, <1>15, KindsOfInstruction
  <2>2. pc' = regs[LinkRegister] /\ regs'[LinkRegister] = regs[LinkRegister] /\ DOMAIN regs' = Reg
    BY <1>4, <1>5, <1>15, <2>1 DEF Goes, Links
  <2>3. CurrentLine' = ReturnLine /\ ReturnLine' = ReturnLine
    BY <1>8, <2>2
  <2> QED
    BY <1>1, <1>8, <1>9, <1>10, <1>11, <1>15, <2>1, <2>2, <2>3, TextNames DEF Text!TextStep
<1> QED
  BY <1>3, <1>12, <1>13, <1>14, <1>15, KindsOfInstruction
-----------------------------------------------------------------------------
(* Lines of the generator between its first moves and its last: they store *)
(* where three registers point that they do not change, but for loading    *)
(* the third again, and jump to labels among themselves.                   *)
Inner == {"LOOP", "SKIP"}
Outer == {"EXIT", "HALT"}
Inward == Known \ {RET, CALLA, JMPA}
Free == 0 .. 9 \cup {12}
HighAddress == \hFF10
HighStores == Targeted({"mem_addr_high"})

MidLine(l) ==
  /\ IsLine(l)
  /\ l.mnemonic \in Inward
  /\ \A label \in l.labels : label[1] \in Inner
  /\ l.mnemonic \in Branches => l.target.kind = "name" /\ l.target.label[1] \in Inner
  /\ l.mnemonic \in Writers => l.d \in Free \/ l = Mvrd(13, HighAddress)
  /\ l.mnemonic = STRR => l.d \in {10, 11} \/ (l.d = 13 /\ HighStores)

(* At most n of them. *)
MidText(lines, n) ==
  /\ lines \in Seq(Range(lines))
  /\ Len(lines) <= n
  /\ \A i \in DOMAIN lines : MidLine(lines[i])

LEMMA MidOfLines ==
  ASSUME NEW S, NEW s \in Seq(S), \A l \in S : MidLine(l), NEW n, Len(s) <= n
  PROVE  MidText(s, n)
<1>1. /\ Len(s) \in Nat /\ s \in [1 .. Len(s) -> S] /\ DOMAIN s = 1 .. Len(s)
  BY LenProperties
<1>2. s \in Seq(Range(s))
  BY <1>1 DEF Range
<1> QED
  BY <1>1, <1>2 DEF MidText

LEMMA MidConcat ==
  ASSUME NEW s, NEW t, NEW m \in Nat, NEW n \in Nat, MidText(s, m), MidText(t, n)
  PROVE  MidText(s \o t, m + n)
<1> DEFINE S == Range(s) \cup Range(t)
<1>1. s \in Seq(Range(s)) /\ t \in Seq(Range(t)) /\ Len(s) <= m /\ Len(t) <= n
  BY DEF MidText
<1>2. s \in Seq(S) /\ t \in Seq(S)
  <2>1. Range(s) \subseteq S /\ Range(t) \subseteq S
    OBVIOUS
  <2> HIDE DEF S
  <2> QED
    BY <1>1, <2>1, SeqMonotonic
<1>3. s \o t \in Seq(S) /\ Len(s \o t) <= m + n
  <2> HIDE DEF S
  <2>1. s \o t \in Seq(S) /\ Len(s \o t) = Len(s) + Len(t) /\ Len(s) \in Nat /\ Len(t) \in Nat
    BY <1>2, ConcatProperties, LenProperties
  <2> QED
    BY <1>1, <2>1
<1>4. \A l \in S : MidLine(l)
  BY DEF MidText, Range
<1> QED
  BY <1>3, <1>4, MidOfLines

LEMMA MidMore ==
  ASSUME NEW s, NEW m \in Nat, NEW n \in Nat, m <= n, MidText(s, m)
  PROVE  MidText(s, n)
<1>1. Len(s) \in Nat
  BY LenProperties DEF MidText
<1> QED
  BY <1>1 DEF MidText

LEMMA ShortMids ==
  /\ MidText(<<>>, 0)
  /\ \A a : MidLine(a) => MidText(<<a>>, 1)
  /\ \A a, b : MidLine(a) /\ MidLine(b) => MidText(<<a, b>>, 2)
  /\ \A a, b, c : MidLine(a) /\ MidLine(b) /\ MidLine(c) => MidText(<<a, b, c>>, 3)
  /\ \A a, b, c, d : MidLine(a) /\ MidLine(b) /\ MidLine(c) /\ MidLine(d) =>
                       MidText(<<a, b, c, d>>, 4)
<1>1. ASSUME NEW a, NEW b, NEW c, NEW d, MidLine(a), MidLine(b), MidLine(c), MidLine(d)
      PROVE  /\ MidText(<<a>>, 1) /\ MidText(<<a, b>>, 2) /\ MidText(<<a, b, c>>, 3)
             /\ MidText(<<a, b, c, d>>, 4)
  <2> DEFINE S == {a, b, c, d}
  <2>1. /\ <<a>> \in Seq(S) /\ <<a, b>> \in Seq(S) /\ <<a, b, c>> \in Seq(S)
        /\ <<a, b, c, d>> \in Seq(S)
        /\ Len(<<a>>) <= 1 /\ Len(<<a, b>>) <= 2 /\ Len(<<a, b, c>>) <= 3
        /\ Len(<<a, b, c, d>>) <= 4
    OBVIOUS
  <2>2. \A l \in S : MidLine(l)
    BY <1>1
  <2> HIDE DEF S
  <2> QED
    BY <2>1, <2>2, MidOfLines
<1>2. MidText(<<>>, 0)
  BY EmptySeq, LenProperties DEF MidText
<1> QED
  BY <1>1, <1>2, Zenon

LEMMA FieldsOfLine ==
  ASSUME NEW labels, NEW mn, NEW d, NEW r, NEW token, NEW l, l = Line(labels, mn, d, r, token)
  PROVE  l.labels = labels /\ l.mnemonic = mn /\ l.d = d /\ l.target = token
  BY DEF Line

LEMMA MvrdLine ==
  ASSUME NEW r \in Reg, NEW imm \in Int, NEW l, l = Mvrd(r, imm)
  PROVE  /\ IsLine(l) /\ l.mnemonic = MVRD /\ l.labels = {} /\ l.d = r
         /\ l.target = Number(imm)
<1>1. IsLine(l)
  BY EmittedLines, Zenon
<1> QED
  BY <1>1, FieldsOfLine DEF Mvrd

LEMMA OpLine ==
  ASSUME NEW mn \in Defined, NEW d \in Reg, NEW r \in Reg, NEW l, l = Op(mn, d, r)
  PROVE  IsLine(l) /\ l.mnemonic = mn /\ l.labels = {} /\ l.d = d
<1>1. IsLine(l)
  BY EmittedLines, Zenon
<1> QED
  BY <1>1, FieldsOfLine DEF Op, Plain

LEMMA ToLine ==
  ASSUME NEW mn \in Defined, NEW label, NEW l, l = To(mn, label)
  PROVE  /\ IsLine(l) /\ l.mnemonic = mn /\ l.labels = {}
         /\ l.target.kind = "name" /\ l.target.label = label
<1>1. IsLine(l)
  BY EmittedLines, Zenon
<1>2. Name(label).kind = "name" /\ Name(label).label = label
  BY DEF Name
<1> QED
  BY <1>1, <1>2, FieldsOfLine DEF To

LEMMA LabelLine ==
  ASSUME NEW label, NEW l, l = Label(label)
  PROVE  IsLine(l) /\ l.mnemonic = NoMnemonic /\ l.labels = {label}
<1>1. IsLine(l)
  BY EmittedLines, Zenon
<1> QED
  BY <1>1, FieldsOfLine DEF Label, Plain

LEMMA MvrdKind == MVRD \in Inward /\ MVRD \notin Branches /\ MVRD # STRR
  BY DEF Inward, Known, NoMnemonic, Defined, RegisterOps, Branches, Extended, Writers,
     ADD, SUB, AND, CMP, XOR, TEST, OR, MVRR, DEC, INC, SHL, SHR, ADC, SBB, NOT, ASR,
     JR, JRS, JRNS, JRC, JRNC, JRZ, JRNZ, CLC, STC, RET, JMPA, MVRD, LDRR, STRR, ADDI, ANDI, CALLA

LEMMA PlainKind ==
  /\ \A mn \in RegisterOps \cup {LDRR, STC, CLC} :
       mn \in Inward /\ mn \in Defined /\ mn \notin Branches /\ mn # STRR
  /\ STC \notin Writers /\ CLC \notin Writers
  BY DEF Inward, Known, NoMnemonic, Defined, RegisterOps, Branches, Extended, Writers,
     ADD, SUB, AND, CMP, XOR, TEST, OR, MVRR, DEC, INC, SHL, SHR, ADC, SBB, NOT, ASR,
     JR, JRS, JRNS, JRC, JRNC, JRZ, JRNZ, CLC, STC, RET, JMPA, MVRD, LDRR, STRR, ADDI, ANDI, CALLA

LEMMA StoreKind == STRR \in Inward /\ STRR \in Defined /\ STRR \notin Branches /\ STRR \notin Writers
  BY DEF Inward, Known, NoMnemonic, Defined, RegisterOps, Branches, Extended, Writers,
     ADD, SUB, AND, CMP, XOR, TEST, OR, MVRR, DEC, INC, SHL, SHR, ADC, SBB, NOT, ASR,
     JR, JRS, JRNS, JRC, JRNC, JRZ, JRNZ, CLC, STC, RET, JMPA, MVRD, LDRR, STRR, ADDI, ANDI, CALLA

LEMMA BranchKind ==
  \A mn \in Branches : mn \in Inward /\ mn \in Defined /\ mn \notin Writers /\ mn # STRR
  BY DEF Inward, Known, NoMnemonic, Defined, RegisterOps, Branches, Extended, Writers,
     ADD, SUB, AND, CMP, XOR, TEST, OR, MVRR, DEC, INC, SHL, SHR, ADC, SBB, NOT, ASR,
     JR, JRS, JRNS, JRC, JRNC, JRZ, JRNZ, CLC, STC, RET, JMPA, MVRD, LDRR, STRR, ADDI, ANDI, CALLA

LEMMA LabelKind ==
  /\ NoMnemonic \in Inward /\ NoMnemonic \notin Branches
  /\ NoMnemonic \notin Writers /\ NoMnemonic # STRR
  BY DEF Inward, Known, NoMnemonic, Defined, RegisterOps, Branches, Extended, Writers,
     ADD, SUB, AND, CMP, XOR, TEST, OR, MVRR, DEC, INC, SHL, SHR, ADC, SBB, NOT, ASR,
     JR, JRS, JRNS, JRC, JRNC, JRZ, JRNZ, CLC, STC, RET, JMPA, MVRD, LDRR, STRR, ADDI, ANDI, CALLA

LEMMA MidLines ==
  /\ \A r \in Free, imm \in Int : MidLine(Mvrd(r, imm))
  /\ MidLine(Mvrd(13, HighAddress))
  /\ \A mn \in RegisterOps \cup {LDRR}, d \in Free, r \in 0 .. 15 : MidLine(Op(mn, d, r))
  /\ \A mn \in {STC, CLC} : MidLine(Op(mn, 0, 0))
  /\ \A d \in {10, 11, 13}, r \in 0 .. 15 : (d = 13 => HighStores) => MidLine(Op(STRR, d, r))
  /\ \A mn \in Branches : MidLine(To(mn, Skip)) /\ MidLine(To(mn, Loop))
  /\ MidLine(Label(Skip)) /\ MidLine(Label(Loop))
<1>1. /\ \A r \in 0 .. 15 : r \in Reg
      /\ \A r \in Free : r \in Reg
      /\ \A r \in {10, 11, 13} : r \in Reg
      /\ 0 \in Reg /\ 13 \in Reg /\ HighAddress \in Int
      /\ Skip[1] \in Inner /\ Loop[1] \in Inner
  BY DEF HighAddress, Free, Reg, Skip, Loop, Inner
<1>2. ASSUME NEW r \in Free, NEW imm \in Int, NEW l, l = Mvrd(r, imm)
      PROVE  MidLine(l)
  <2>1. r \in Reg
    BY <1>1
  <2>2. IsLine(l) /\ l.mnemonic = MVRD /\ l.labels = {} /\ l.d = r
    BY <1>2, <2>1, MvrdLine
  <2> QED
    BY <2>2, MvrdKind, Zenon DEF MidLine
<1>3. ASSUME NEW l, l = Mvrd(13, HighAddress)
      PROVE  MidLine(l)
  <2>1. IsLine(l) /\ l.mnemonic = MVRD /\ l.labels = {}
    BY <1>1, <1>3, MvrdLine
  <2> QED
    BY <1>3, <2>1, MvrdKind, Zenon DEF MidLine
<1>4. ASSUME NEW mn \in RegisterOps \cup {LDRR}, NEW d \in Free, NEW r \in 0 .. 15,
             NEW l, l = Op(mn, d, r)
      PROVE  MidLine(l)
  <2>1. mn \in Inward /\ mn \in Defined /\ mn \notin Branches /\ mn # STRR
    BY PlainKind
  <2>2. d \in Reg /\ r \in Reg
    BY <1>1
  <2>3. IsLine(l) /\ l.mnemonic = mn /\ l.labels = {} /\ l.d = d
    BY <1>4, <2>1, <2>2, OpLine
  <2> QED
    BY <2>1, <2>3, Zenon DEF MidLine
<1>5. ASSUME NEW mn \in {STC, CLC}, NEW l, l = Op(mn, 0, 0)
      PROVE  MidLine(l)
  <2>1. mn \in Inward /\ mn \in Defined /\ mn \notin Branches /\ mn # STRR /\ mn \notin Writers
    BY PlainKind
  <2>2. IsLine(l) /\ l.mnemonic = mn /\ l.labels = {}
    BY <1>1, <1>5, <2>1, OpLine
  <2> QED
    BY <2>1, <2>2, Zenon DEF MidLine
<1>6. ASSUME NEW d \in {10, 11, 13}, NEW r \in 0 .. 15, d = 13 => HighStores,
             NEW l, l = Op(STRR, d, r)
      PROVE  MidLine(l)
  <2>1. d \in Reg /\ r \in Reg
    BY <1>1
  <2>2. IsLine(l) /\ l.mnemonic = STRR /\ l.labels = {} /\ l.d = d
    BY <1>6, <2>1, StoreKind, OpLine
  <2>3. d \in {10, 11} \/ (d = 13 /\ HighStores)
    BY <1>6
  <2> QED
    BY <2>2, <2>3, StoreKind, Zenon DEF MidLine
<1>7. ASSUME NEW mn \in Branches, NEW label, label[1] \in Inner, NEW l, l = To(mn, label)
      PROVE  MidLine(l)
  <2>1. mn \in Inward /\ mn \in Defined /\ mn \notin Writers /\ mn # STRR
    BY BranchKind
  <2>2. /\ IsLine(l) /\ l.mnemonic = mn /\ l.labels = {}
        /\ l.target.kind = "name" /\ l.target.label = label
    BY <1>7, <2>1, ToLine
  <2> QED
    BY <1>7, <2>1, <2>2, Zenon DEF MidLine
<1>8. ASSUME NEW label, label[1] \in Inner, NEW l, l = Label(label)
      PROVE  MidLine(l)
  <2>1. IsLine(l) /\ l.mnemonic = NoMnemonic /\ l.labels = {label}
    BY <1>8, LabelLine
  <2> QED
    BY <1>8, <2>1, LabelKind DEF MidLine
<1> QED
  BY <1>1, <1>2, <1>3, <1>4, <1>5, <1>6, <1>7, <1>8

LEMMA MoreRegisters ==
  /\ \A r \in Drawn : r \in 0 .. 15 /\ r \in Free
  /\ \A p \in Pairs : p[1] \in Free /\ p[2] \in 0 .. 15
  /\ DistinctPairs \subseteq Pairs
  /\ \A r \in 0 .. 9 : r \in Free
  /\ 12 \in Free /\ 0 \in 0 .. 15 /\ 1 \in 0 .. 15 /\ 2 \in 0 .. 15 /\ 3 \in 0 .. 15 /\ 13 \in 0 .. 15
  BY DEF Drawn, REGISTER_POOL, Free, Pairs, DistinctPairs

LEMMA MoreKinds ==
  /\ ADC \in RegisterOps /\ SBB \in RegisterOps /\ ADD \in RegisterOps /\ SHL \in RegisterOps
  /\ SHR \in RegisterOps /\ CMP \in RegisterOps /\ SUB \in RegisterOps /\ DEC \in RegisterOps
  /\ ArithOps \subseteq RegisterOps /\ UNARY_OPS \subseteq RegisterOps
  /\ BranchOps \subseteq Branches
  /\ JRZ \in Branches /\ JRNZ \in Branches /\ JRC \in Branches /\ JRNC \in Branches
  /\ JRS \in Branches /\ JRNS \in Branches /\ JR \in Branches
  BY GeneratorAssumption DEF RegisterOps, UNARY_OPS, Branches

LEMMA MidBlocks ==
  ASSUME NEW block \in ArithBlocks \cup UnaryBlocks \cup MemBlocks \cup FlagBranchBlocks
  PROVE  MidText(block, 6)
<1>1. CASE block \in ArithBlocks
  <2>1. \A mn \in {ADC, SBB}, p \in Pairs : MidText(WithCarry(mn, p), 2)
    <3>1. MidLine(Op(STC, 0, 0))
      BY MidLines
    <3>2. \A mn \in {ADC, SBB}, p \in Pairs : MidLine(Op(mn, p[1], p[2]))
      BY MidLines, MoreRegisters, MoreKinds
    <3> QED
      BY <3>1, <3>2, ShortMids DEF WithCarry
  <2>2. \A mn \in ArithOps, p \in Pairs : MidText(<<Op(mn, p[1], p[2])>>, 1)
    <3>1. \A mn \in ArithOps, p \in Pairs : MidLine(Op(mn, p[1], p[2]))
      BY MidLines, MoreRegisters, MoreKinds
    <3> QED
      BY <3>1, ShortMids
  <2> DEFINE sum == <<Mvrd(0, \h7FFF), Mvrd(1, 1), Op(ADD, 0, 1)>>
  <2>3. MidText(sum, 3)
    <3>1. MidLine(Mvrd(0, \h7FFF)) /\ MidLine(Mvrd(1, 1)) /\ MidLine(Op(ADD, 0, 1))
      BY MidLines, MoreRegisters, MoreKinds
    <3> QED
      BY <3>1, ShortMids
  <2>4. block \in {sum} \cup {WithCarry(ADC, p) : p \in Pairs}
               \cup {WithCarry(SBB, p) : p \in Pairs} \cup UNION {Binary(mn) : mn \in ArithOps}
    <3>1. ArithBlocks \in {{sum}, {WithCarry(ADC, p) : p \in Pairs},
                          {WithCarry(SBB, p) : p \in Pairs}, UNION {Binary(mn) : mn \in ArithOps}}
      BY DEF ArithBlocks
    <3> HIDE DEF sum
    <3> QED
      BY <1>1, <3>1, Zenon
  <2>5. \A mn \in ArithOps : \A l \in Binary(mn) : MidText(l, 1)
    BY <2>2, MoreRegisters DEF Binary
  <2> HIDE DEF sum
  <2>6. MidText(block, 1) \/ MidText(block, 2) \/ MidText(block, 3)
    BY <2>1, <2>3, <2>4, <2>5
  <2> QED
    BY <2>6, MidMore
<1>2. CASE block \in UnaryBlocks
  <2>1. MidText(<<Mvrd(9, \h8001), Op(SHL, 9, 0)>>, 2) /\ MidText(<<Mvrd(8, 1), Op(SHR, 8, 0)>>, 2)
    <3>1. /\ MidLine(Mvrd(9, \h8001)) /\ MidLine(Op(SHL, 9, 0))
          /\ MidLine(Mvrd(8, 1)) /\ MidLine(Op(SHR, 8, 0))
      BY MidLines, MoreRegisters, MoreKinds
    <3> QED
      BY <3>1, ShortMids
  <2>2. \A mn \in UNARY_OPS, d \in Drawn : MidText(<<Op(mn, d, 0)>>, 1)
    <3>1. \A mn \in UNARY_OPS, d \in Drawn : MidLine(Op(mn, d, 0))
      BY MidLines, MoreRegisters, MoreKinds
    <3> QED
      BY <3>1, ShortMids
  <2>3. MidText(block, 1) \/ MidText(block, 2)
    BY <1>2, <2>1, <2>2 DEF UnaryBlocks
  <2> QED
    BY <2>3, MidMore
<1>3. CASE block \in MemBlocks
  <2> DEFINE regs13 == {10, 11} \cup (IF HighStores THEN {13} ELSE {})
  <2>1. ASSUME NEW d \in regs13, NEW r \in Drawn
        PROVE  MidText(<<Op(STRR, d, r)>>, 1) /\ MidText(<<Op(LDRR, r, d)>>, 1)
    <3>1. d \in {10, 11, 13} /\ (d = 13 => HighStores) /\ d \in 0 .. 15 /\ r \in 0 .. 15 /\ r \in Free
      BY MoreRegisters
    <3>2. MidLine(Op(STRR, d, r)) /\ MidLine(Op(LDRR, r, d))
      BY <3>1, MidLines
    <3> QED
      BY <3>2, ShortMids
  <2>2. \E d \in regs13, r \in Drawn : block \in {<<Op(STRR, d, r)>>, <<Op(LDRR, r, d)>>}
    BY <1>3 DEF MemBlocks, HighStores
  <2> HIDE DEF regs13
  <2>3. MidText(block, 1)
    BY <2>1, <2>2
  <2> QED
    BY <2>3, MidMore
<1>4. CASE block \in FlagBranchBlocks
  <2>1. PICK condition \in Condition, mn \in {CLC, STC} : block = condition \o PassedOver(mn)
    BY <1>4 DEF FlagBranchBlocks
  <2>2. /\ \A k \in {JRZ, JRNZ, JRC, JRNC, JRS, JRNS} : MidLine(To(k, Skip))
        /\ \A k \in BranchOps : MidLine(To(k, Skip))
    BY MidLines, MoreKinds
  <2>3. /\ \A m \in {CMP, SUB}, d \in Free, r \in 0 .. 15 : MidLine(Op(m, d, r))
        /\ \A m \in {STC, CLC} : MidLine(Op(m, 0, 0))
        /\ MidLine(Mvrd(0, 0)) /\ MidLine(Mvrd(0, 1)) /\ MidLine(Mvrd(1, 1))
        /\ MidLine(Op(CMP, 0, 1)) /\ MidLine(Op(SUB, 0, 1))
    BY MidLines, MoreRegisters, MoreKinds
  <2>4. /\ \A d \in Drawn : MidText(ComparedTo(<<d, d>>, JRZ), 2)
        /\ \A p \in DistinctPairs : MidText(ComparedTo(p, JRNZ), 2)
        /\ \A p \in DistinctPairs, k \in BranchOps : MidText(ComparedTo(p, k), 2)
    <3>1. /\ \A d \in Drawn : MidLine(Op(CMP, d, d))
          /\ \A p \in DistinctPairs : MidLine(Op(CMP, p[1], p[2]))
      BY <2>3, MoreRegisters
    <3> QED
      BY <2>2, <3>1, ShortMids DEF ComparedTo
  <2> DEFINE stc  == <<Op(STC, 0, 0), To(JRC, Skip)>>
             clc  == <<Op(CLC, 0, 0), To(JRNC, Skip)>>
             neg  == <<Mvrd(0, 0), Mvrd(1, 1), Op(SUB, 0, 1), To(JRS, Skip)>>
             zero == <<Mvrd(0, 1), Mvrd(1, 1), Op(CMP, 0, 1), To(JRNS, Skip)>>
             any  == {ComparedTo(p, k) : p \in DistinctPairs, k \in BranchOps}
  <2>5. MidText(stc, 2) /\ MidText(clc, 2) /\ MidText(neg, 4) /\ MidText(zero, 4)
    BY <2>2, <2>3, ShortMids
  <2>6. Condition \in {{ComparedTo(<<d, d>>, JRZ) : d \in Drawn},
                      {ComparedTo(p, JRNZ) : p \in DistinctPairs}, {stc}, {clc}, {neg}, {zero}, any}
    BY DEF Condition
  <2>7. \A l \in any : MidText(l, 2)
    BY <2>4
  <2> HIDE DEF stc, clc, neg, zero, any
  <2>8. MidText(condition, 2) \/ MidText(condition, 4)
    BY <2>4, <2>5, <2>6, <2>7
  <2>9. MidText(condition, 4)
    BY <2>8, MidMore
  <2>10. MidText(PassedOver(mn), 2)
    BY <2>3, MidLines, ShortMids DEF PassedOver
  <2> QED
    BY <2>1, <2>9, <2>10, MidConcat
<1> QED
  BY <1>1, <1>2, <1>3, <1>4

-----------------------------------------------------------------------------
(* The first moves, the ending, and the whole.                             *)
FirstMove(l) == l.mnemonic = MVRD /\ l.labels = {} /\ l.d \in Free \cup {13}

FirstMoves(lines, n) ==
  /\ lines \in Seq(Range(lines))
  /\ Len(lines) <= n
  /\ \A i \in DOMAIN lines : FirstMove(lines[i])

EndLine(l) ==
  /\ l.mnemonic \in {MVRD, JMPA, JR, NoMnemonic}
  /\ \A label \in l.labels : label[1] \in Outer
  /\ l.mnemonic \in {JMPA, JR} => l.target.kind = "name" /\ l.target.label[1] \in Outer
  /\ l.mnemonic = MVRD => l.d = 13

LowAddress  == \h100
NextAddress == \h101

Shaped(lines, a, b) ==
  /\ lines \in Seq(Range(lines))
  /\ a \in Nat /\ b \in Nat /\ 2 <= a /\ a <= b /\ b <= Len(lines)
  /\ lines[1] = Mvrd(10, LowAddress) /\ lines[2] = Mvrd(11, NextAddress)
  /\ \A i \in 3 .. a : FirstMove(lines[i])
  /\ HighStores => lines[a] = Mvrd(13, HighAddress)
  /\ \A i \in a + 1 .. b : MidLine(lines[i])
  /\ \A i \in b + 1 .. Len(lines) : EndLine(lines[i])

LEMMA Concatenation ==
  ASSUME NEW s, NEW t, s \in Seq(Range(s)), t \in Seq(Range(t))
  PROVE  /\ s \o t \in Seq(Range(s \o t))
         /\ Len(s) \in Nat /\ Len(t) \in Nat /\ Len(s \o t) = Len(s) + Len(t)
         /\ \A i \in 1 .. Len(s) : (s \o t)[i] = s[i]
         /\ \A i \in Len(s) + 1 .. Len(s) + Len(t) :
              i - Len(s) \in DOMAIN t /\ (s \o t)[i] = t[i - Len(s)]
<1> DEFINE S == Range(s) \cup Range(t)
<1>1. s \in Seq(S) /\ t \in Seq(S)
  <2>1. Range(s) \subseteq S /\ Range(t) \subseteq S
    OBVIOUS
  <2> HIDE DEF S
  <2> QED
    BY <2>1, SeqMonotonic
<1> HIDE DEF S
<1>2. /\ s \o t \in Seq(S) /\ Len(s) \in Nat /\ Len(t) \in Nat
      /\ Len(s \o t) = Len(s) + Len(t)
      /\ DOMAIN t = 1 .. Len(t)
  BY <1>1, ConcatProperties, LenProperties
<1>3. s \o t \in Seq(Range(s \o t))
  <2>1. PICK u : u = s \o t
    OBVIOUS
  <2>2. Len(u) \in Nat /\ u \in [1 .. Len(u) -> S] /\ DOMAIN u = 1 .. Len(u)
    BY <1>2, <2>1, LenProperties
  <2>3. u \in Seq(Range(u))
    BY <2>2 DEF Range
  <2> QED
    BY <2>1, <2>3
<1> QED
  BY <1>1, <1>2, <1>3

LEMMA ShapedMore ==
  ASSUME NEW s, NEW t, NEW a, NEW n \in Nat, Shaped(s, a, Len(s)), MidText(t, n)
  PROVE  Shaped(s \o t, a, Len(s \o t)) /\ Len(s \o t) <= Len(s) + n
<1>1. PICK u : u = s \o t
  OBVIOUS
<1>2. /\ u \in Seq(Range(u)) /\ Len(s) \in Nat /\ Len(t) \in Nat /\ Len(u) = Len(s) + Len(t)
      /\ \A i \in 1 .. Len(s) : u[i] = s[i]
      /\ \A i \in Len(s) + 1 .. Len(s) + Len(t) : i - Len(s) \in DOMAIN t /\ u[i] = t[i - Len(s)]
  BY <1>1, Concatenation DEF Shaped, MidText
<1>3. a \in Nat /\ 2 <= a /\ a <= Len(s) /\ Len(t) <= n
  BY DEF Shaped, MidText
<1>4. u[1] = Mvrd(10, LowAddress) /\ u[2] = Mvrd(11, NextAddress)
  <2>1. s[1] = Mvrd(10, LowAddress) /\ s[2] = Mvrd(11, NextAddress)
    BY DEF Shaped
  <2>2. 1 \in 1 .. Len(s) /\ 2 \in 1 .. Len(s)
    BY <1>2, <1>3
  <2> QED
    BY <1>2, <2>1, <2>2
<1>5. ASSUME NEW i \in 3 .. a
      PROVE  FirstMove(u[i])
  <2>1. FirstMove(s[i])
    BY DEF Shaped
  <2>2. i \in 1 .. Len(s)
    BY <1>2, <1>3
  <2> QED
    BY <1>2, <2>1, <2>2
<1>6. HighStores => u[a] = Mvrd(13, HighAddress)
  <2>1. HighStores => s[a] = Mvrd(13, HighAddress)
    BY DEF Shaped
  <2>2. a \in 1 .. Len(s)
    BY <1>2, <1>3
  <2> QED
    BY <1>2, <2>1, <2>2
<1>7. ASSUME NEW i \in a + 1 .. Len(u)
      PROVE  MidLine(u[i])
  <2>1. CASE i <= Len(s)
    <3>1. i \in 1 .. Len(s) /\ i \in a + 1 .. Len(s)
      BY <1>2, <1>3, <2>1
    <3> QED
      BY <1>2, <3>1 DEF Shaped
  <2>2. CASE i > Len(s)
    <3>1. i \in Len(s) + 1 .. Len(s) + Len(t)
      BY <1>2, <1>3, <2>2
    <3> QED
      BY <1>2, <3>1 DEF MidText
  <2> QED
    BY <1>2, <1>3, <2>1, <2>2
<1>8. \A i \in Len(u) + 1 .. Len(u) : EndLine(u[i])
  BY <1>2
<1>9. Len(u) \in Nat /\ a <= Len(u) /\ Len(u) <= Len(s) + n
  BY <1>2, <1>3
<1>10. Shaped(u, a, Len(u))
  BY <1>2, <1>3, <1>4, <1>5, <1>6, <1>7, <1>8, <1>9 DEF Shaped
<1> QED
  BY <1>1, <1>9, <1>10

LEMMA ShapedEnd ==
  ASSUME NEW s, NEW t, NEW a, NEW m \in Nat, Shaped(s, a, Len(s)),
         t \in Seq(Range(t)), m <= Len(t), \A i \in 1 .. m : MidLine(t[i]),
         \A i \in m + 1 .. Len(t) : EndLine(t[i])
  PROVE  Shaped(s \o t, a, Len(s) + m) /\ Len(s \o t) = Len(s) + Len(t)
<1>1. PICK u : u = s \o t
  OBVIOUS
<1>2. /\ u \in Seq(Range(u)) /\ Len(s) \in Nat /\ Len(t) \in Nat /\ Len(u) = Len(s) + Len(t)
      /\ \A i \in 1 .. Len(s) : u[i] = s[i]
      /\ \A i \in Len(s) + 1 .. Len(s) + Len(t) : i - Len(s) \in DOMAIN t /\ u[i] = t[i - Len(s)]
  BY <1>1, Concatenation DEF Shaped
<1>3. a \in Nat /\ 2 <= a /\ a <= Len(s)
  BY DEF Shaped
<1>4. u[1] = Mvrd(10, LowAddress) /\ u[2] = Mvrd(11, NextAddress)
  <2>1. s[1] = Mvrd(10, LowAddress) /\ s[2] = Mvrd(11, NextAddress)
    BY DEF Shaped
  <2>2. 1 \in 1 .. Len(s) /\ 2 \in 1 .. Len(s)
    BY <1>2, <1>3
  <2> QED
    BY <1>2, <2>1, <2>2
<1>5. ASSUME NEW i \in 3 .. a
      PROVE  FirstMove(u[i])
  <2>1. FirstMove(s[i])
    BY DEF Shaped
  <2>2. i \in 1 .. Len(s)
    BY <1>2, <1>3
  <2> QED
    BY <1>2, <2>1, <2>2
<1>6. HighStores => u[a] = Mvrd(13, HighAddress)
  <2>1. HighStores => s[a] = Mvrd(13, HighAddress)
    BY DEF Shaped
  <2>2. a \in 1 .. Len(s)
    BY <1>2, <1>3
  <2> QED
    BY <1>2, <2>1, <2>2
<1>7. ASSUME NEW i \in a + 1 .. Len(s) + m
      PROVE  MidLine(u[i])
  <2>1. CASE i \in 1 .. Len(s)
    <3>1. MidLine(s[i])
      BY <2>1 DEF Shaped
    <3> QED
      BY <1>2, <2>1, <3>1
  <2>2. CASE i \in Len(s) + 1 .. Len(s) + m
    <3>1. i \in Len(s) + 1 .. Len(s) + Len(t) /\ i - Len(s) \in 1 .. m
      BY <1>2, <2>2
    <3> QED
      BY <1>2, <3>1
  <2> QED
    BY <1>2, <1>3, <2>1, <2>2
<1>8. ASSUME NEW i \in (Len(s) + m) + 1 .. Len(u)
      PROVE  EndLine(u[i])
  <2>1. i \in Len(s) + 1 .. Len(s) + Len(t) /\ i - Len(s) \in m + 1 .. Len(t)
    BY <1>2
  <2> QED
    BY <1>2, <2>1
<1>9. Len(s) + m \in Nat /\ a <= Len(s) + m /\ Len(s) + m <= Len(u)
  BY <1>2, <1>3
<1>10. Shaped(u, a, Len(s) + m)
  BY <1>2, <1>3, <1>4, <1>5, <1>6, <1>7, <1>8, <1>9 DEF Shaped
<1> QED
  BY <1>1, <1>2, <1>10

LEMMA MovesConcat ==
  ASSUME NEW s, NEW t, NEW m \in Nat, NEW n \in Nat, FirstMoves(s, m), FirstMoves(t, n)
  PROVE  FirstMoves(s \o t, m + n)
<1>1. PICK u : u = s \o t
  OBVIOUS
<1>2. /\ u \in Seq(Range(u)) /\ Len(s) \in Nat /\ Len(t) \in Nat /\ Len(u) = Len(s) + Len(t)
      /\ \A i \in 1 .. Len(s) : u[i] = s[i]
      /\ \A i \in Len(s) + 1 .. Len(s) + Len(t) : i - Len(s) \in DOMAIN t /\ u[i] = t[i - Len(s)]
  BY <1>1, Concatenation DEF FirstMoves
<1>3. DOMAIN s = 1 .. Len(s) /\ DOMAIN u = 1 .. Len(u) /\ Len(s) <= m /\ Len(t) <= n
  BY <1>2, LenProperties DEF FirstMoves
<1>4. ASSUME NEW i \in DOMAIN u
      PROVE  FirstMove(u[i])
  <2>1. CASE i \in 1 .. Len(s)
    BY <1>2, <1>3, <2>1 DEF FirstMoves
  <2>2. CASE i \in Len(s) + 1 .. Len(s) + Len(t)
    BY <1>2, <2>2 DEF FirstMoves
  <2> QED
    BY <1>2, <1>3, <2>1, <2>2
<1>5. Len(u) <= m + n
  BY <1>2, <1>3
<1> QED
  BY <1>1, <1>2, <1>4, <1>5 DEF FirstMoves

LEMMA OneMove ==
  /\ FirstMoves(<<>>, 1)
  /\ \A r \in Free \cup {13} : \A imm : FirstMoves(<<Mvrd(r, imm)>>, 1)
<1>1. ASSUME NEW r \in Free \cup {13}, NEW imm, NEW l, l = Mvrd(r, imm)
      PROVE  FirstMoves(<<l>>, 1)
  <2>1. FirstMove(l)
    <3>1. l.mnemonic = MVRD /\ l.labels = {} /\ l.d = r
      BY <1>1, FieldsOfLine DEF Mvrd
    <3> QED
      BY <3>1 DEF FirstMove
  <2>2. PICK u : u = <<l>>
    OBVIOUS
  <2>3. u \in Seq({l}) /\ Len(u) = 1 /\ u[1] = l
    BY <2>2
  <2>4. DOMAIN u = 1 .. 1 /\ u \in [1 .. 1 -> {l}]
    BY <2>3, LenProperties
  <2>5. u \in Seq(Range(u))
    BY <2>3, <2>4 DEF Range
  <2> QED
    BY <2>1, <2>2, <2>3, <2>4, <2>5 DEF FirstMoves
<1>2. FirstMoves(<<>>, 1)
  BY EmptySeq, LenProperties DEF FirstMoves
<1> QED
  BY <1>1, <1>2

LEMMA FirstText ==
  ASSUME NEW n \in LoopCounts
  PROVE  LET first == AddressSetup(n) \o TargetedSetup
         IN  Shaped(first, Len(first), Len(first)) /\ Len(first) <= 6
<1> DEFINE A == AddressSetup(n)
           low  == If(Targeted({"mvrd_imm_zero", "test_zero", "cmp_zero"}), <<Mvrd(0, 0)>>)
           over == If(Targeted({"mvrd_imm_high", "add_overflow", "shl_sets_carry"}),
                      <<Mvrd(9, \h8001)>>)
           high == If(Targeted(MemoryBins), <<Mvrd(13, HighAddress)>>)
<1>1. FirstMoves(low, 1) /\ FirstMoves(over, 1) /\ FirstMoves(high, 1)
  <2>1. 0 \in Free \cup {13} /\ 9 \in Free \cup {13} /\ 13 \in Free \cup {13}
    BY DEF Free
  <2>2. ASSUME NEW condition, NEW r \in Free \cup {13}, NEW imm
        PROVE  FirstMoves(If(condition, <<Mvrd(r, imm)>>), 1)
    BY OneMove DEF If
  <2> QED
    BY <2>1, <2>2
<1>2. TargetedSetup = (low \o over) \o high
  BY DEF TargetedSetup, HighAddress
<1> DEFINE T == (low \o over) \o high
<1>3. FirstMoves(T, 3)
  <2> HIDE DEF low, over, high
  <2>1. FirstMoves(low \o over, 2)
    BY <1>1, MovesConcat
  <2> QED
    BY <1>1, <2>1, MovesConcat
<1>4. HighStores => Len(T) >= 1 /\ T[Len(T)] = Mvrd(13, HighAddress)
  <2> SUFFICES ASSUME HighStores
               PROVE  Len(T) >= 1 /\ T[Len(T)] = Mvrd(13, HighAddress)
    OBVIOUS
  <2>1. Targeted(MemoryBins)
    BY DEF HighStores, Targeted, MemoryBins
  <2>2. high = <<Mvrd(13, HighAddress)>>
    BY <2>1 DEF If
  <2> HIDE DEF low, over, high
  <2>3. PICK v : v = low \o over
    OBVIOUS
  <2>4. FirstMoves(v, 2)
    BY <1>1, <2>3, MovesConcat
  <2>5. /\ Len(v) \in Nat /\ Len(v \o high) = Len(v) + 1
        /\ (v \o high)[Len(v) + 1] = Mvrd(13, HighAddress)
    <3>1. v \in Seq(Range(v)) /\ high \in Seq(Range(high))
      BY <1>1, <2>4 DEF FirstMoves
    <3>2. Len(high) = 1 /\ high[1] = Mvrd(13, HighAddress)
      BY <2>2
    <3>3. /\ Len(v) \in Nat /\ Len(v \o high) = Len(v) + Len(high)
          /\ \A i \in Len(v) + 1 .. Len(v) + Len(high) : (v \o high)[i] = high[i - Len(v)]
      BY <3>1, Concatenation
    <3>4. Len(v) + 1 \in Len(v) + 1 .. Len(v) + Len(high) /\ (Len(v) + 1) - Len(v) = 1
      BY <3>2, <3>3
    <3> QED
      BY <3>2, <3>3, <3>4
  <2> QED
    BY <2>3, <2>5
<1>5. /\ A \in Seq(Range(A)) /\ Len(A) = 3
      /\ A[1] = Mvrd(10, LowAddress) /\ A[2] = Mvrd(11, NextAddress) /\ A[3] = Mvrd(12, n)
  <2>1. PICK k, l, m : k = Mvrd(10, LowAddress) /\ l = Mvrd(11, NextAddress) /\ m = Mvrd(12, n)
    OBVIOUS
  <2>2. A = <<k, l, m>>
    BY <2>1 DEF AddressSetup, LowAddress, NextAddress
  <2>3. PICK u : u = <<k, l, m>>
    OBVIOUS
  <2>4. u \in Seq({k, l, m}) /\ Len(u) = 3 /\ u[1] = k /\ u[2] = l /\ u[3] = m
    BY <2>3
  <2>5. u \in [1 .. 3 -> {k, l, m}] /\ DOMAIN u = 1 .. 3
    BY <2>4, LenProperties
  <2>6. u \in Seq(Range(u))
    BY <2>4, <2>5 DEF Range
  <2> QED
    BY <2>1, <2>2, <2>3, <2>4, <2>6
<1>6. FirstMove(A[3])
  <2>1. PICK l : l = Mvrd(12, n)
    OBVIOUS
  <2>2. l.mnemonic = MVRD /\ l.labels = {} /\ l.d = 12
    BY <2>1, FieldsOfLine DEF Mvrd
  <2> QED
    BY <1>5, <2>1, <2>2 DEF FirstMove, Free
<1> HIDE DEF A, T
<1>7. PICK u : u = A \o T
  OBVIOUS
<1>8. /\ u \in Seq(Range(u)) /\ Len(T) \in Nat /\ Len(T) <= 3 /\ Len(u) = 3 + Len(T)
      /\ \A i \in 1 .. 3 : u[i] = A[i]
      /\ \A i \in 4 .. 3 + Len(T) : i - 3 \in DOMAIN T /\ u[i] = T[i - 3]
  <2>1. T \in Seq(Range(T)) /\ Len(T) <= 3
    BY <1>3 DEF FirstMoves
  <2>2. /\ A \o T \in Seq(Range(A \o T)) /\ Len(T) \in Nat /\ Len(A \o T) = Len(A) + Len(T)
        /\ \A i \in 1 .. Len(A) : (A \o T)[i] = A[i]
        /\ \A i \in Len(A) + 1 .. Len(A) + Len(T) :
             i - Len(A) \in DOMAIN T /\ (A \o T)[i] = T[i - Len(A)]
    BY <1>5, <2>1, Concatenation
  <2> QED
    BY <1>5, <1>7, <2>1, <2>2
<1>9. \A i \in 3 .. Len(u) : FirstMove(u[i])
  BY <1>3, <1>6, <1>8 DEF FirstMoves
<1>10. HighStores => u[Len(u)] = Mvrd(13, HighAddress)
  BY <1>4, <1>8
<1>11. Shaped(u, Len(u), Len(u))
  BY <1>5, <1>8, <1>9, <1>10 DEF Shaped
<1> QED
  BY <1>2, <1>7, <1>8, <1>11 DEF A, T

LEMMA RegistersMid ==
  ASSUME NEW imm \in Immediates
  PROVE  MidText(RegisterSetup(imm), 12)
<1>1. \A r \in 0 .. 9 : Imm(r, imm) \in Int
  BY GeneratorAssumption DEF Imm, Word
<1>2. \A r \in 0 .. 9 : MidLine(Mvrd(r, Imm(r, imm)))
  BY <1>1, MidLines, MoreRegisters
<1>3. \A d \in {10, 11}, r \in 0 .. 15 : MidLine(Op(STRR, d, r))
  BY MidLines
<1> DEFINE first  == <<Mvrd(0, Imm(0, imm)), Mvrd(1, Imm(1, imm)), Op(STRR, 10, 1),
                       Mvrd(2, Imm(2, imm)), Op(STRR, 11, 2)>>
           second == [i \in 1 .. 7 |-> Mvrd(i + 2, Imm(i + 2, imm))]
           S == {Mvrd(0, Imm(0, imm)), Mvrd(1, Imm(1, imm)), Op(STRR, 10, 1),
                 Mvrd(2, Imm(2, imm)), Op(STRR, 11, 2)}
           T == {Mvrd(i + 2, Imm(i + 2, imm)) : i \in 1 .. 7}
<1>4. \A l \in S : MidLine(l)
  BY <1>2, <1>3
<1>5. first \in Seq(S) /\ Len(first) = 5
  OBVIOUS
<1>6. \A l \in T : MidLine(l)
  BY <1>2
<1>7. second \in Seq(T) /\ Len(second) = 7
  BY IsASeq
<1>8. RegisterSetup(imm) = first \o second
  BY DEF RegisterSetup
<1> HIDE DEF first, second, S, T
<1>9. Len(first) <= 5 /\ Len(second) <= 7
  BY <1>5, <1>7
<1>10. MidText(first, 5)
  BY <1>4, <1>5, <1>9, MidOfLines, Zenon
<1>11. MidText(second, 7)
  BY <1>6, <1>7, <1>9, MidOfLines, Zenon
<1> QED
  BY <1>8, <1>10, <1>11, MidConcat

LEMMA SetupShaped ==
  ASSUME NEW n \in LoopCounts, NEW imm \in Immediates
  PROVE  /\ \E a : Shaped(Setup(n, imm), a, Len(Setup(n, imm)))
         /\ Len(Setup(n, imm)) <= 22
<1> DEFINE first == AddressSetup(n) \o TargetedSetup
           high  == If(HighStores, <<Mvrd(13, HighAddress), Op(STRR, 13, 3), Op(LDRR, 4, 13)>>)
           a == Len(first)
<1>1. Shaped(first, a, Len(first)) /\ Len(first) <= 6
  BY FirstText
<1>2. MidText(RegisterSetup(imm), 12)
  BY RegistersMid
<1>3. MidText(high, 3)
  <2>1. CASE HighStores
    <3>1. MidLine(Mvrd(13, HighAddress)) /\ MidLine(Op(STRR, 13, 3)) /\ MidLine(Op(LDRR, 4, 13))
      <4>1. MidLine(Mvrd(13, HighAddress))
        BY MidLines
      <4>2. MidLine(Op(STRR, 13, 3))
        <5>1. 13 \in {10, 11, 13} /\ 3 \in 0 .. 15
          OBVIOUS
        <5> QED
          BY <2>1, <5>1, MidLines
      <4>3. MidLine(Op(LDRR, 4, 13))
        <5>1. 4 \in Free /\ 13 \in 0 .. 15 /\ LDRR \in RegisterOps \cup {LDRR}
          BY DEF Free
        <5> QED
          BY <5>1, MidLines
      <4> QED
        BY <4>1, <4>2, <4>3
    <3>2. MidText(<<Mvrd(13, HighAddress), Op(STRR, 13, 3), Op(LDRR, 4, 13)>>, 3)
      BY <3>1, ShortMids
    <3> QED
      BY <2>1, <3>2 DEF If
  <2>2. CASE ~HighStores
    BY <2>2, ShortMids, MidMore DEF If
  <2> QED
    BY <2>1, <2>2
<1>4. MidText(<<Label(Loop)>>, 1)
  BY MidLines, ShortMids
<1>5. Setup(n, imm) = ((first \o RegisterSetup(imm)) \o high) \o <<Label(Loop)>>
  BY DEF Setup, HighStores, HighAddress
<1> HIDE DEF first, high
<1>6. PICK u : u = first \o RegisterSetup(imm)
  OBVIOUS
<1>7. Shaped(u, a, Len(u)) /\ Len(u) <= Len(first) + 12
  BY <1>1, <1>2, <1>6, ShapedMore
<1>8. PICK v : v = u \o high
  OBVIOUS
<1>9. Shaped(v, a, Len(v)) /\ Len(v) <= Len(u) + 3
  BY <1>3, <1>7, <1>8, ShapedMore
<1>10. PICK w : w = v \o <<Label(Loop)>>
  OBVIOUS
<1>11. Shaped(w, a, Len(w)) /\ Len(w) <= Len(v) + 1
  BY <1>4, <1>9, <1>10, ShapedMore
<1>12. Len(first) \in Nat /\ Len(u) \in Nat /\ Len(v) \in Nat /\ Len(w) \in Nat
  BY <1>1, <1>7, <1>9, <1>11, LenProperties DEF Shaped
<1>13. Len(w) <= 22
  BY <1>1, <1>7, <1>9, <1>11, <1>12
<1> QED
  BY <1>5, <1>6, <1>8, <1>10, <1>11, <1>13

LEMMA EndingShaped ==
  ASSUME NEW s, NEW a, NEW k \in Int, Shaped(s, a, Len(s))
  PROVE  /\ Shaped(s \o Ending(k), a, Len(s) + 2)
         /\ Len(s \o Ending(k)) = Len(s) + 7
<1> DEFINE halt == Line({Halt}, JR, 0, 0, Name(Halt))
<1>1. PICK t : t = Ending(k)
  OBVIOUS
<1>2. /\ Len(t) = 7
      /\ t[1] = Op(DEC, 12, 0) /\ t[2] = To(JRNZ, Loop) /\ t[3] = Mvrd(13, k)
      /\ t[4] = To(JMPA, Exit) /\ t[5] = Mvrd(13, \hDEAD) /\ t[6] = Label(Exit) /\ t[7] = halt
  BY <1>1 DEF Ending
<1>3. t \in Seq(Range(t))
  <2> DEFINE S == {Op(DEC, 12, 0), To(JRNZ, Loop), Mvrd(13, k), To(JMPA, Exit), Mvrd(13, \hDEAD),
                   Label(Exit), halt}
  <2>1. t \in Seq(S)
    BY <1>1 DEF Ending
  <2> HIDE DEF S
  <2>2. t \in [1 .. Len(t) -> S] /\ DOMAIN t = 1 .. Len(t) /\ Len(t) \in Nat
    BY <2>1, LenProperties
  <2> QED
    BY <2>2 DEF Range
<1>4. MidLine(t[1]) /\ MidLine(t[2])
  BY <1>2, MidLines, MoreRegisters, MoreKinds
<1>5. Exit[1] \in Outer /\ Halt[1] \in Outer
  BY DEF Exit, Halt, Outer
<1>6. ASSUME NEW r, NEW l, l = Mvrd(13, r)
      PROVE  EndLine(l)
  <2>1. l.mnemonic = MVRD /\ l.labels = {} /\ l.d = 13
    BY <1>6, FieldsOfLine DEF Mvrd
  <2>2. MVRD # JMPA /\ MVRD # JR
    BY DEF MVRD, JMPA, JR
  <2> QED
    BY <2>1, <2>2 DEF EndLine
<1>7. EndLine(t[4])
  <2>1. PICK l, e : l = t[4] /\ e = Exit
    OBVIOUS
  <2>2. Name(e).kind = "name" /\ Name(e).label = e
    BY DEF Name
  <2>3. l.mnemonic = JMPA /\ l.labels = {} /\ l.target.kind = "name" /\ l.target.label = e
    BY <1>2, <2>1, <2>2, FieldsOfLine DEF To
  <2>4. JMPA # MVRD
    BY DEF MVRD, JMPA
  <2> QED
    BY <1>5, <2>1, <2>3, <2>4 DEF EndLine
<1>8. EndLine(t[6])
  <2>1. PICK l, e : l = t[6] /\ e = Exit
    OBVIOUS
  <2>2. l.mnemonic = NoMnemonic /\ l.labels = {e}
    BY <1>2, <2>1, LabelLine
  <2>3. NoMnemonic # MVRD /\ NoMnemonic # JMPA /\ NoMnemonic # JR
    BY DEF MVRD, JMPA, JR, NoMnemonic
  <2> QED
    BY <1>5, <2>1, <2>2, <2>3 DEF EndLine
<1>9. EndLine(t[7])
  <2>1. PICK l, e : l = t[7] /\ e = Halt
    OBVIOUS
  <2>2. Name(e).kind = "name" /\ Name(e).label = e
    BY DEF Name
  <2>3. l.mnemonic = JR /\ l.labels = {e} /\ l.target.kind = "name" /\ l.target.label = e
    BY <1>2, <2>1, <2>2, FieldsOfLine
  <2>4. JR # MVRD
    BY DEF MVRD, JR
  <2> QED
    BY <1>5, <2>1, <2>3, <2>4 DEF EndLine
<1>10. EndLine(t[3]) /\ EndLine(t[5])
  BY <1>2, <1>6
<1>11. /\ \A i \in 1 .. 2 : MidLine(t[i])
       /\ \A i \in 2 + 1 .. Len(t) : EndLine(t[i])
  <2>1. \A i \in 1 .. 2 : i = 1 \/ i = 2
    OBVIOUS
  <2>2. \A i \in 2 + 1 .. 7 : i = 3 \/ i = 4 \/ i = 5 \/ i = 6 \/ i = 7
    OBVIOUS
  <2> QED
    BY <1>2, <1>4, <1>7, <1>8, <1>9, <1>10, <2>1, <2>2
<1>12. 2 <= Len(t) /\ Len(s \o t) = Len(s) + Len(t) /\ Shaped(s \o t, a, Len(s) + 2)
  <2>1. 2 \in Nat /\ 2 <= Len(t)
    BY <1>2
  <2>2. PICK m \in Nat : m = 2
    OBVIOUS
  <2>3. /\ m <= Len(t) /\ \A i \in 1 .. m : MidLine(t[i])
        /\ \A i \in m + 1 .. Len(t) : EndLine(t[i])
    BY <1>11, <2>1, <2>2
  <2>4. Shaped(s \o t, a, Len(s) + m) /\ Len(s \o t) = Len(s) + Len(t)
    BY <1>3, <2>3, ShapedEnd, Zenon
  <2> QED
    BY <2>1, <2>2, <2>4
<1> QED
  BY <1>1, <1>2, <1>12
-----------------------------------------------------------------------------
GoodLine(l) ==
  /\ l.mnemonic \in Branches \cup {JMPA, CALLA} => l.target.kind # "number"
  /\ l.mnemonic \in Writers => l.d # LinkRegister

LEMMA GoodLines ==
  /\ \A l : l.mnemonic = MVRD /\ l.d \in Free \cup {10, 11, 13} => GoodLine(l)
  /\ \A l : MidLine(l) => GoodLine(l)
  /\ \A l : EndLine(l) => GoodLine(l)
<1>1. ASSUME NEW l, l.mnemonic = MVRD, l.d \in Free \cup {10, 11, 13}
      PROVE  GoodLine(l)
  <2>1. MVRD # JMPA /\ MVRD # CALLA
    BY DEF MVRD, JMPA, CALLA
  <2>2. l.d # LinkRegister
    BY <1>1 DEF Free, LinkRegister
  <2> QED
    BY <1>1, <2>1, <2>2, MvrdKind DEF GoodLine
<1>2. ASSUME NEW l, MidLine(l)
      PROVE  GoodLine(l)
  <2>1. l.mnemonic # JMPA /\ l.mnemonic # CALLA
    BY <1>2 DEF MidLine, Inward
  <2>2. l.mnemonic \in Writers => l.d \in Free \/ l.d = 13
    <3>1. ASSUME l = Mvrd(13, HighAddress)
          PROVE  l.d = 13
      BY <3>1, FieldsOfLine DEF Mvrd
    <3> QED
      BY <1>2, <3>1 DEF MidLine
  <2>3. l.mnemonic \in Branches => l.target.kind = "name"
    BY <1>2 DEF MidLine
  <2>4. \A d \in Free : d # LinkRegister
    BY DEF Free, LinkRegister
  <2>5. 13 # LinkRegister /\ "name" # "number"
    BY DEF LinkRegister
  <2> QED
    BY <2>1, <2>2, <2>3, <2>4, <2>5 DEF GoodLine
<1>3. ASSUME NEW l, EndLine(l)
      PROVE  GoodLine(l)
  <2>1. /\ MVRD \notin Branches /\ MVRD # JMPA /\ MVRD # CALLA
        /\ JMPA # CALLA /\ JR # CALLA /\ JMPA \notin Writers /\ JR \notin Writers
        /\ NoMnemonic # JMPA /\ NoMnemonic # CALLA /\ NoMnemonic \notin Branches
        /\ NoMnemonic \notin Writers
    BY DEF NoMnemonic, RegisterOps, Branches, Writers,
       ADD, SUB, AND, CMP, XOR, TEST, OR, MVRR, DEC, INC, SHL, SHR, ADC, SBB, NOT, ASR,
       JR, JRS, JRNS, JRC, JRNC, JRZ, JRNZ, CLC, STC, RET, JMPA, MVRD, LDRR, STRR, ADDI, ANDI, CALLA
  <2>2. 13 # LinkRegister /\ "name" # "number"
    BY DEF LinkRegister
  <2>3. /\ l.mnemonic \in {MVRD, JMPA, JR, NoMnemonic}
        /\ l.mnemonic \in {JMPA, JR} => l.target.kind = "name"
        /\ l.mnemonic = MVRD => l.d = 13
    BY <1>3 DEF EndLine
  <2> QED
    BY <2>1, <2>2, <2>3 DEF GoodLine
<1> QED
  BY <1>1, <1>2, <1>3

(* Every line of a generated text is one of these. *)
LEMMA ShapedLines ==
  ASSUME NEW lines, NEW a, NEW b, Shaped(lines, a, b)
  PROVE  /\ a \in Nat /\ b \in Nat /\ Len(lines) \in Nat /\ 2 <= a /\ a <= b /\ b <= Len(lines)
         /\ DOMAIN lines = 1 .. Len(lines)
         /\ lines[1].mnemonic = MVRD /\ lines[1].d = 10 /\ lines[1].labels = {}
         /\ lines[1].target = Number(LowAddress)
         /\ lines[2].mnemonic = MVRD /\ lines[2].d = 11 /\ lines[2].labels = {}
         /\ lines[2].target = Number(NextAddress)
         /\ \A i \in 3 .. a : FirstMove(lines[i])
         /\ HighStores => lines[a] = Mvrd(13, HighAddress)
         /\ \A i \in a + 1 .. b : MidLine(lines[i])
         /\ \A i \in b + 1 .. Len(lines) : EndLine(lines[i])
         /\ \A i \in 1 .. Len(lines) :
              i = 1 \/ i = 2 \/ i \in 3 .. a \/ i \in a + 1 .. b \/ i \in b + 1 .. Len(lines)
<1>1. Len(lines) \in Nat /\ DOMAIN lines = 1 .. Len(lines)
  BY LenProperties DEF Shaped
<1>2. a \in Nat /\ b \in Nat /\ 2 <= a /\ a <= b /\ b <= Len(lines)
  BY DEF Shaped
<1>3. /\ lines[1].mnemonic = MVRD /\ lines[1].d = 10 /\ lines[1].labels = {}
      /\ lines[1].target = Number(LowAddress)
  <2>1. lines[1] = Mvrd(10, LowAddress)
    BY DEF Shaped
  <2> QED
    BY <2>1, FieldsOfLine DEF Mvrd
<1>4. /\ lines[2].mnemonic = MVRD /\ lines[2].d = 11 /\ lines[2].labels = {}
      /\ lines[2].target = Number(NextAddress)
  <2>1. lines[2] = Mvrd(11, NextAddress)
    BY DEF Shaped
  <2> QED
    BY <2>1, FieldsOfLine DEF Mvrd
<1>5. /\ \A i \in 3 .. a : FirstMove(lines[i])
      /\ HighStores => lines[a] = Mvrd(13, HighAddress)
      /\ \A i \in a + 1 .. b : MidLine(lines[i])
      /\ \A i \in b + 1 .. Len(lines) : EndLine(lines[i])
  BY DEF Shaped
<1>6. \A i \in 1 .. Len(lines) :
        i = 1 \/ i = 2 \/ i \in 3 .. a \/ i \in a + 1 .. b \/ i \in b + 1 .. Len(lines)
  BY <1>1, <1>2
<1> QED
  BY <1>1, <1>2, <1>3, <1>4, <1>5, <1>6, Zenon

LEMMA ShapedStructured ==
  ASSUME NEW lines, NEW a, NEW b, Shaped(lines, a, b)
  PROVE  Structured(lines)
<1>1. /\ DOMAIN lines = 1 .. Len(lines)
      /\ lines[1].mnemonic = MVRD /\ lines[1].d = 10
      /\ lines[2].mnemonic = MVRD /\ lines[2].d = 11
      /\ \A i \in 3 .. a : FirstMove(lines[i])
      /\ \A i \in a + 1 .. b : MidLine(lines[i])
      /\ \A i \in b + 1 .. Len(lines) : EndLine(lines[i])
      /\ \A i \in 1 .. Len(lines) :
           i = 1 \/ i = 2 \/ i \in 3 .. a \/ i \in a + 1 .. b \/ i \in b + 1 .. Len(lines)
  BY ShapedLines
<1>2. GoodLine(lines[1]) /\ GoodLine(lines[2])
  BY <1>1, GoodLines
<1>3. \A i \in 3 .. a : GoodLine(lines[i])
  BY <1>1, GoodLines DEF FirstMove
<1>4. \A i \in a + 1 .. b : GoodLine(lines[i])
  BY <1>1, GoodLines
<1>5. \A i \in b + 1 .. Len(lines) : GoodLine(lines[i])
  BY <1>1, GoodLines
<1>6. \A i \in DOMAIN lines : GoodLine(lines[i])
  BY <1>1, <1>2, <1>3, <1>4, <1>5
<1> QED
  BY <1>6 DEF GoodLine, Structured
-----------------------------------------------------------------------------
(* How the text grows, and what holds until it runs.                       *)
OfGenerator ==
  /\ blocks = body_ops
  /\ \E a, b : Shaped(source, a, b)
  /\ Len(source) <= 29 + 6 * body_ops

GenInv ==
  /\ blocks \in 0 .. body_ops
  /\ phase = "generate" =>
       \/ source = <<>> /\ blocks = 0
       \/ (\E a : Shaped(source, a, Len(source))) /\ Len(source) <= 22 + 6 * blocks
  /\ phase # "generate" => (blocks = 0 /\ source \in Sources) \/ OfGenerator

AtStart ==
  /\ DOMAIN regs = Reg
  /\ DOMAIN mem = 0 .. MemDepth - 1
  /\ phase \in {"written", "loaded"} => encoded = Len(source)
  /\ phase # "loaded" => pc = 0 /\ regs[LinkRegister] = 0

Prepared == AsmInv /\ GenInv /\ AtStart

LEMMA SourceStructured ==
  ASSUME GenInv, \A s \in Sources : Structured(s)
  PROVE  Structured(source)
<1>1. Structured(<<>>)
  BY EmptySeq, LenProperties DEF Structured
<1> QED
  BY <1>1, ShapedStructured DEF GenInv, OfGenerator

LEMMA DomainsKept ==
  ASSUME Step
  PROVE  DOMAIN regs' = DOMAIN regs /\ DOMAIN mem' = DOMAIN mem
<1>1. ASSUME NEW result, NEW f, WriteResult(result, f)
      PROVE  DOMAIN regs' = DOMAIN regs /\ DOMAIN mem' = DOMAIN mem
  BY <1>1 DEF WriteResult
<1>2. CASE Arithmetic
  <2>1. \E result, f : WriteResult(result, f)
    BY <1>2 DEF Arithmetic
  <2> QED
    BY <1>1, <2>1
<1>3. CASE Logic
  <2>1. \E result, f : WriteResult(result, f)
    BY <1>3 DEF Logic
  <2> QED
    BY <1>1, <2>1
<1>4. CASE Shift
  <2>1. \E result, f : WriteResult(result, f)
    BY <1>4 DEF Shift
  <2> QED
    BY <1>1, <2>1
<1>5. CASE Move \/ Load
  <2>1. \E result, f : WriteResult(result, f)
    BY <1>5 DEF Move, Load
  <2> QED
    BY <1>1, <2>1
<1>6. CASE Compare \/ SetCarry \/ Branch \/ Jump \/ Return \/ Undefined
  BY <1>6 DEF Compare, SetCarry, Branch, Jump, Return, Undefined
<1>7. CASE Immediate
  BY <1>7 DEF Immediate
<1>8. CASE Store
  BY <1>8 DEF Store
<1>9. CASE Call
  BY <1>9 DEF Call
<1> QED
  BY <1>2, <1>3, <1>4, <1>5, <1>6, <1>7, <1>8, <1>9 DEF Step

LEMMA PreparedInit ==
  ASSUME RandomInit
  PROVE  Prepared
<1>1. AsmInv
  BY AsmInvInit
<1>2. GenInv
  BY GeneratorAssumption DEF RandomInit, GenInit, Written, RunInit, AsmInit, GenInv
<1>3. AtStart
  BY DEF RandomInit, GenInit, Written, RunInit, AsmInit, AtStart, Reg, LinkRegister
<1> QED
  BY <1>1, <1>2, <1>3 DEF Prepared

LEMMA GenInvStep ==
  ASSUME GenInv, AsmInv, [RandomNext]_randomVars
  PROVE  GenInv'
<1>1. CASE EmitSetup
  <2>1. /\ phase = "generate" /\ phase' = "generate" /\ blocks' = blocks /\ blocks \in 0 .. body_ops
        /\ targeted_bins' = targeted_bins
    BY <1>1 DEF EmitSetup, GenInv, HighStores, Targeted
  <2>2. PICK n \in LoopCounts, imm \in Immediates : source' = Setup(n, imm)
    BY <1>1 DEF EmitSetup
  <2>3. PICK t : t = Setup(n, imm)
    OBVIOUS
  <2>4. PICK a : Shaped(t, a, Len(t))
    BY <2>3, SetupShaped
  <2>5. Len(t) <= 22 /\ Len(t) \in Nat
    BY <2>3, <2>4, SetupShaped, ShapedLines
  <2>6. source' = t
    BY <2>2, <2>3
  <2>7. Shaped(source, a, Len(source))'
    BY <2>1, <2>4, <2>6 DEF Shaped, MidLine, HighStores, Targeted
  <2>8. Len(source') <= 22 + 6 * blocks' /\ blocks' \in 0 .. body_ops
    BY <2>1, <2>5, <2>6, GeneratorAssumption
  <2> QED
    BY <2>1, <2>7, <2>8 DEF GenInv
<1>2. CASE EmitBlock
  <2>1. /\ phase = "generate" /\ phase' = "generate" /\ source # <<>>
        /\ blocks < body_ops /\ blocks' = blocks + 1 /\ blocks \in 0 .. body_ops
        /\ targeted_bins' = targeted_bins
    BY <1>2 DEF EmitBlock, GenInv, HighStores, Targeted
  <2>2. PICK a : Shaped(source, a, Len(source))
    BY <2>1 DEF GenInv
  <2>3. Len(source) <= 22 + 6 * blocks /\ Len(source) \in Nat
    BY <2>1, <2>2, ShapedLines DEF GenInv
  <2>4. PICK lines \in ArithBlocks \cup UnaryBlocks \cup MemBlocks \cup FlagBranchBlocks :
          source' = source \o lines
    BY <1>2 DEF EmitBlock
  <2>5. PICK t : t = source \o lines
    OBVIOUS
  <2>6. Shaped(t, a, Len(t)) /\ Len(t) <= Len(source) + 6
    BY <2>2, <2>5, MidBlocks, ShapedMore
  <2>7. Len(t) \in Nat
    BY <2>6, ShapedLines
  <2>8. source' = t
    BY <2>4, <2>5
  <2>9. Shaped(source, a, Len(source))'
    BY <2>1, <2>6, <2>8 DEF Shaped, MidLine, HighStores, Targeted
  <2>10. Len(source') <= 22 + 6 * blocks' /\ blocks' \in 0 .. body_ops
    BY <2>1, <2>3, <2>6, <2>7, <2>8, GeneratorAssumption
  <2> QED
    BY <2>1, <2>9, <2>10 DEF GenInv
<1>3. CASE EmitEnd
  <2>1. /\ phase = "generate" /\ phase' = "place" /\ source # <<>>
        /\ blocks = body_ops /\ blocks' = blocks /\ blocks \in 0 .. body_ops
        /\ targeted_bins' = targeted_bins
    BY <1>3 DEF EmitEnd, GenInv, HighStores, Targeted
  <2>2. PICK a : Shaped(source, a, Len(source))
    BY <2>1 DEF GenInv
  <2>3. Len(source) <= 22 + 6 * body_ops /\ Len(source) \in Nat
    BY <2>1, <2>2, ShapedLines DEF GenInv
  <2>4. PICK imm \in Immediates : source' = source \o Ending(imm[0])
    BY <1>3 DEF EmitEnd
  <2>5. imm[0] \in Int
    BY GeneratorAssumption DEF Word
  <2>6. PICK t : t = source \o Ending(imm[0])
    OBVIOUS
  <2>7. PICK b : b = Len(source) + 2
    OBVIOUS
  <2>8. Shaped(t, a, b) /\ Len(t) = Len(source) + 7
    BY <2>2, <2>5, <2>6, <2>7, EndingShaped
  <2>9. source' = t
    BY <2>4, <2>6
  <2>11. Len(source') <= 29 + 6 * body_ops
    BY <2>3, <2>8, <2>9, GeneratorAssumption
  <2>12. OfGenerator'
    <3>1. Shaped(source, a, b)'
      BY <2>1, <2>8, <2>9 DEF Shaped, MidLine, HighStores, Targeted
    <3> QED
      BY <2>1, <2>11, <3>1 DEF OfGenerator
  <2> QED
    BY <2>1, <2>12 DEF GenInv
<1>4. CASE Translate
  <2>1. UNCHANGED <<source, blocks, targeted_bins>>
    BY <1>4 DEF Translate, RunNext, Assemble, Execute, load_hex, asmVars,
       Place, PlaceFails, BuildLabelTable, Encode, EncodeFails, WriteHex
  <2>2. phase # "generate" /\ phase' # "generate"
    BY <1>4 DEF Translate, RunNext, Assemble, Execute, load_hex, asmVars,
       Place, PlaceFails, BuildLabelTable, Encode, EncodeFails, WriteHex
  <2>3. OfGenerator' <=> OfGenerator
    BY <2>1 DEF OfGenerator, Shaped, MidLine, HighStores, Targeted
  <2> QED
    BY <2>1, <2>2, <2>3 DEF GenInv
<1>5. CASE UNCHANGED randomVars
  <2>1. UNCHANGED <<source, blocks, targeted_bins, phase>>
    BY <1>5 DEF randomVars, asmIsaVars, asmVars
  <2>2. OfGenerator' <=> OfGenerator
    BY <2>1 DEF OfGenerator, Shaped, MidLine, HighStores, Targeted
  <2>3. \A a : Shaped(source, a, Len(source))' <=> Shaped(source, a, Len(source))
    BY <2>1 DEF Shaped, MidLine, HighStores, Targeted
  <2> QED
    BY <2>1, <2>2, <2>3 DEF GenInv
<1> QED
  BY <1>1, <1>2, <1>3, <1>4, <1>5 DEF RandomNext

LEMMA AtStartStep ==
  ASSUME AtStart, AsmInv, [RandomNext]_randomVars
  PROVE  AtStart'
<1>1. CASE EmitSetup \/ EmitBlock \/ EmitEnd
  BY <1>1 DEF EmitSetup, EmitBlock, EmitEnd, AtStart, isaVars
<1>2. CASE Assemble /\ UNCHANGED isaVars
  BY <1>2 DEF Assemble, Place, PlaceFails, BuildLabelTable, Encode, EncodeFails, WriteHex,
     AtStart, isaVars
<1>3. CASE phase = "written" /\ load_hex
  BY <1>3 DEF load_hex, Machine, AtStart
<1>4. CASE Execute
  <2>1. UNCHANGED <<source, phase, encoded>> /\ phase = "loaded"
    BY <1>4 DEF Execute, asmVars
  <2>2. DOMAIN regs' = DOMAIN regs /\ DOMAIN mem' = DOMAIN mem
    BY <1>4, DomainsKept DEF Execute
  <2> QED
    BY <2>1, <2>2 DEF AtStart
<1>5. CASE UNCHANGED randomVars
  BY <1>5 DEF randomVars, asmIsaVars, asmVars, isaVars, AtStart
<1> QED
  BY <1>1, <1>2, <1>3, <1>4, <1>5 DEF RandomNext, Translate, RunNext

LEMMA PreparedInvariant == RandomSpec => []Prepared
<1>1. RandomInit => Prepared
  BY PreparedInit
<1>2. Prepared /\ [RandomNext]_randomVars => Prepared'
  BY AsmInvStep, GenInvStep, AtStartStep DEF Prepared
<1> QED
  BY <1>1, <1>2, PTL DEF RandomSpec
-----------------------------------------------------------------------------
(* The text of a program that keeps its words.                             *)
OnALine == phase = "loaded" => StartsLine(pc) /\ StartsLine(regs[LinkRegister])

LEMMA OnALineStep ==
  ASSUME Prepared, OnALine, ProgramKept, Structured(source), [RandomNext]_randomVars
  PROVE  OnALine'
<1>1. TextInv
  BY DEF TextInv, Prepared, AtStart, OnALine
<1>2. CASE Execute
  <2>1. StartsLine(pc') /\ StartsLine(regs'[LinkRegister])
    BY <1>1, <1>2, ExecuteImplements
  <2>2. UNCHANGED <<source, address>>
    BY <1>2 DEF Execute, asmVars
  <2>3. StartsLine(pc)' /\ StartsLine(regs[LinkRegister])'
    BY <2>1, <2>2 DEF StartsLine
  <2> QED
    BY <2>3 DEF OnALine
<1>3. CASE phase = "written" /\ load_hex
  <2>1. /\ encoded = Len(source) /\ pc' = 0 /\ regs'[LinkRegister] = 0
        /\ UNCHANGED <<source, address>> /\ AsmInv /\ Placed
    BY <1>3 DEF Prepared, AtStart, AsmInv, PassesInOrder, load_hex, Machine
  <2>2. Len(source) \in Nat /\ address[1] = 0
    BY <2>1, PlacedLines
  <2>3. \A a : StartsLine(a)' <=> StartsLine(a)
    BY <2>1, SameLines
  <2>4. StartsLine(0)
    BY <2>2 DEF StartsLine
  <2> QED
    BY <2>1, <2>3, <2>4 DEF OnALine
<1>4. CASE EmitSetup \/ EmitBlock \/ EmitEnd
  BY <1>4 DEF EmitSetup, EmitBlock, EmitEnd, OnALine
<1>5. CASE Assemble
  BY <1>5 DEF Assemble, Place, PlaceFails, BuildLabelTable, Encode, EncodeFails, WriteHex, OnALine
<1>6. CASE UNCHANGED randomVars
  <2>1. UNCHANGED <<source, address, phase, pc, regs>>
    BY <1>6 DEF randomVars, asmIsaVars, asmVars, isaVars
  <2>2. \A a : StartsLine(a)' <=> StartsLine(a)
    BY <2>1, SameLines
  <2> QED
    BY <2>1, <2>2 DEF OnALine
<1> QED
  BY <1>2, <1>3, <1>4, <1>5, <1>6 DEF RandomNext, Translate, RunNext

LEMMA FirstLineIsText == Text!InstructionFrom(source, 1) = FirstLine
  BY Zenon DEF Text!InstructionFrom, InstructionFrom, Text!Least, Least, Text!NoMnemonic, NoMnemonic,
     FirstLine

LEMMA NotRunning ==
  ASSUME phase # "loaded"
  PROVE  ~(phase = "loaded") /\ Text!FromTheTop
  BY FirstLineIsText DEF CurrentLine, ReturnLine, Text!FromTheTop

(* Every step is one of the text, or none. *)
LEMMA TextStepwise ==
  ASSUME Prepared, OnALine, ProgramKept, Structured(source), [RandomNext]_randomVars
  PROVE  [Text!Write \/ Text!Run \/ Text!TextStep]_(Text!textVars)
<1>1. TextInv
  BY DEF TextInv, Prepared, AtStart, OnALine
<1>2. CASE Execute
  BY <1>1, <1>2, ExecuteImplements
<1>3. CASE phase = "written" /\ load_hex
  <2>1. /\ encoded = Len(source) /\ pc' = 0 /\ regs'[LinkRegister] = 0
        /\ phase # "loaded" /\ phase' = "loaded"
        /\ UNCHANGED <<source, address>> /\ AsmInv /\ Placed
    BY <1>3 DEF Prepared, AtStart, AsmInv, PassesInOrder, load_hex, Machine
  <2>2. Len(source) \in Nat /\ address[1] = 0
    BY <2>1, PlacedLines
  <2>3. 1 \in 1 .. Len(source) + 1
    BY <2>2
  <2>4. LineAt(0) = FirstLine
    BY <2>1, <2>2, <2>3, LineAtAddress DEF FirstLine
  <2>5. \A a : LineAt(a)' = LineAt(a)
    BY <2>1, SameLines
  <2>6. CurrentLine = FirstLine /\ ReturnLine = FirstLine
    BY <2>1 DEF CurrentLine, ReturnLine
  <2>7. CurrentLine' = FirstLine /\ ReturnLine' = FirstLine
    BY <2>1, <2>4, <2>5 DEF CurrentLine, ReturnLine
  <2>8. Text!Run
    BY <2>1, <2>6, <2>7 DEF Text!Run
  <2> QED
    BY <2>8
<1>4. CASE phase # "loaded" /\ phase' # "loaded"
  <2>1. Text!FromTheTop
    BY <1>4, NotRunning
  <2>2. Text!FromTheTop'
    <3>1. (phase # "loaded" => Text!FromTheTop)'
      BY NotRunning, PTL
    <3> QED
      BY <1>4, <3>1
  <2>3. Text!Write
    BY <1>4, <2>1, <2>2 DEF Text!Write
  <2> QED
    BY <2>3
<1>5. CASE UNCHANGED randomVars
  <2>1. UNCHANGED <<source, address, phase, pc, regs>>
    BY <1>5 DEF randomVars, asmIsaVars, asmVars, isaVars
  <2>2. \A a : LineAt(a)' = LineAt(a)
    BY <2>1, SameLines
  <2>3. FirstLine' = FirstLine
    BY <2>1 DEF FirstLine
  <2>4. CurrentLine' = CurrentLine /\ ReturnLine' = ReturnLine
    BY <2>1, <2>2, <2>3 DEF CurrentLine, ReturnLine
  <2> QED
    BY <2>1, <2>4 DEF Text!textVars
<1>6. CASE EmitSetup \/ EmitBlock \/ EmitEnd \/ Assemble
  <2>1. phase # "loaded" /\ phase' # "loaded"
    BY <1>6 DEF EmitSetup, EmitBlock, EmitEnd, Assemble, Place, PlaceFails, BuildLabelTable,
       Encode, EncodeFails, WriteHex
  <2> QED
    BY <1>4, <2>1
<1> QED
  BY <1>2, <1>3, <1>5, <1>6 DEF RandomNext, Translate, RunNext

(* The words do what the text says, instruction for instruction, as long   *)
(* as they are where load_hex put them: whatever the labels, each branch,  *)
(* call and return goes to the line resolve_target means.  Texts whose     *)
(* jumps have numbers for targets are not spoken of.                       *)
THEOREM TextCorrect ==
  ASSUME \A s \in Sources : Structured(s)
  PROVE  RandomSpec /\ []ProgramKept => ImplementsText
<1>1. Prepared => Structured(source)
  BY SourceStructured DEF Prepared
<1>2. RandomInit => OnALine /\ Text!TextInit
  <2>1. RandomInit => phase # "loaded"
    BY DEF RandomInit, GenInit, Written, RunInit, AsmInit
  <2> QED
    BY <2>1, NotRunning DEF OnALine, Text!TextInit
<1>3. Prepared /\ ProgramKept /\ OnALine /\ [RandomNext]_randomVars => OnALine'
  BY <1>1, OnALineStep
<1>4. Prepared /\ ProgramKept /\ OnALine /\ [RandomNext]_randomVars
        => [Text!Write \/ Text!Run \/ Text!TextStep]_(Text!textVars)
  BY <1>1, TextStepwise
<1> QED
  BY <1>2, <1>3, <1>4, PreparedInvariant, PTL DEF RandomSpec, ImplementsText, Text!TextSpec
-----------------------------------------------------------------------------
(* A generated program is where it was loaded.                             *)
Effect ==
  /\ \A k \in Reg \ {LinkRegister} : k # rd \/ op \notin Writers => regs'[k] = regs[k]
  /\ op = MVRD => regs' = [regs EXCEPT ![rd] = extension]
  /\ op # STRR => mem' = mem
  /\ op = STRR => mem' = [mem EXCEPT ![IsaCell(regs[rd])] = regs[rs]]

LEMMA EffectOfStep ==
  ASSUME Step, op \in Defined, DOMAIN regs = Reg
  PROVE  Effect
<1> USE DEF ADD, SUB, AND, CMP, XOR, TEST, OR, MVRR, DEC, INC, SHL, SHR, ADC, SBB, NOT, ASR,
     JR, JRS, JRNS, JRC, JRNC, JRZ, JRNZ, CLC, STC, RET, JMPA, MVRD, LDRR, STRR, ADDI, ANDI, CALLA
<1>1. ASSUME NEW m \in (RegisterOps \ {CMP, TEST}) \cup {LDRR}, op = m,
             NEW result, NEW f, WriteResult(result, f)
      PROVE  Effect
  <2>1. op # MVRD /\ op # STRR
    BY <1>1 DEF RegisterOps
  <2>2. regs' = [regs EXCEPT ![rd] = result] /\ mem' = mem
    BY <1>1 DEF WriteResult
  <2>3. op \in Writers
    BY <1>1 DEF Writers
  <2>4. \A k \in Reg : k # rd => regs'[k] = regs[k]
    BY <2>2
  <2> QED
    BY <2>1, <2>2, <2>3, <2>4 DEF Effect
<1>2. CASE Arithmetic
  <2>1. \E m \in (RegisterOps \ {CMP, TEST}) \cup {LDRR} : op = m /\ \E result, f : WriteResult(result, f)
    BY <1>2 DEF Arithmetic, RegisterOps
  <2> QED
    BY <1>1, <2>1
<1>3. CASE Logic
  <2>1. \E m \in (RegisterOps \ {CMP, TEST}) \cup {LDRR} : op = m /\ \E result, f : WriteResult(result, f)
    BY <1>3 DEF Logic, RegisterOps
  <2> QED
    BY <1>1, <2>1
<1>4. CASE Shift
  <2>1. \E m \in (RegisterOps \ {CMP, TEST}) \cup {LDRR} : op = m /\ \E result, f : WriteResult(result, f)
    BY <1>4 DEF Shift, RegisterOps
  <2> QED
    BY <1>1, <2>1
<1>5. CASE Move \/ Load
  <2>1. \E m \in (RegisterOps \ {CMP, TEST}) \cup {LDRR} : op = m /\ \E result, f : WriteResult(result, f)
    BY <1>5 DEF Move, Load, RegisterOps
  <2> QED
    BY <1>1, <2>1
<1>6. CASE Compare \/ SetCarry \/ Branch \/ Jump \/ Return
  <2>1. op # MVRD /\ op # STRR /\ regs' = regs /\ mem' = mem
    BY <1>6 DEF Compare, SetCarry, Branch, Jump, Return, Branches
  <2> QED
    BY <2>1 DEF Effect
<1>7. CASE Undefined
  BY <1>7 DEF Undefined
<1>8. CASE Immediate
  <2>1. op # STRR /\ mem' = mem /\ op \in Writers
    BY <1>8 DEF Immediate, Writers
  <2>2. op = MVRD => regs' = [regs EXCEPT ![rd] = extension]
    BY <1>8 DEF Immediate
  <2>3. \E result : regs' = [regs EXCEPT ![rd] = result]
    BY <1>8 DEF Immediate
  <2>4. \A k \in Reg : k # rd => regs'[k] = regs[k]
    BY <2>3
  <2> QED
    BY <2>1, <2>2, <2>4 DEF Effect
<1>9. CASE Store
  BY <1>9 DEF Store, Effect
<1>10. CASE Call
  <2>1. op = CALLA /\ op # MVRD /\ op # STRR /\ mem' = mem
        /\ regs' = [regs EXCEPT ![LinkRegister] = Plus(next, 1)]
    BY <1>10 DEF Call
  <2>2. \A k \in Reg \ {LinkRegister} : regs'[k] = regs[k]
    BY <2>1
  <2> QED
    BY <2>1, <2>2 DEF Effect
<1> QED
  BY <1>2, <1>3, <1>4, <1>5, <1>6, <1>7, <1>8, <1>9, <1>10 DEF Step

(* The program is at most two words a line.                                *)
LEMMA WordsOfLines ==
  ASSUME AsmInv, Placed
  PROVE  address[Len(source) + 1] <= 2 * Len(source)
<1>1. PICK P : P = {k \in Nat : k <= Len(source) => address[k + 1] <= 2 * k}
  OBVIOUS
<1>2. Len(source) \in Nat /\ address[1] = 0
  BY PlacedLines
<1>3. 0 \in P
  BY <1>1, <1>2
<1>4. ASSUME NEW k \in P
      PROVE  k + 1 \in P
  <2>1. k \in Nat
    BY <1>1
  <2>2. ASSUME k + 1 <= Len(source)
        PROVE  address[(k + 1) + 1] <= 2 * (k + 1)
    <3>1. k + 1 \in Lines /\ k <= Len(source)
      BY <1>2, <2>1, <2>2 DEF Lines
    <3>2. /\ address[(k + 1) + 1] = address[k + 1] + SizeOf(k + 1) /\ SizeOf(k + 1) \in {0, 1, 2}
          /\ address[k + 1] \in Nat
      BY <1>2, <3>1, PlacedLines DEF Lines
    <3>3. address[k + 1] <= 2 * k
      BY <1>1, <2>1, <3>1
    <3> QED
      BY <2>1, <3>2, <3>3
  <2> QED
    BY <1>1, <2>1, <2>2
<1>5. P = Nat
  BY <1>1, <1>3, <1>4, NumberInduction
<1>6. \A k \in Nat : k <= Len(source) => address[k + 1] <= 2 * k
  BY <1>1, <1>5
<1>7. PICK n \in Nat : n = Len(source)
  BY <1>2
<1>8. n <= Len(source)
  BY <1>7
<1>9. address[n + 1] <= 2 * n
  BY <1>6, <1>8
<1> QED
  BY <1>7, <1>9

(* The addresses that are stored to are beyond the program.                *)
LEMMA RoomForProgram ==
  /\ body_ops \in Nat /\ body_ops > 0
  /\ \A a \in {LowAddress, NextAddress, HighAddress} : a % MemDepth >= 58 + 12 * body_ops
<1>1. \A n \in Nat : 2 * (29 + 6 * n) = 58 + 12 * n
  OBVIOUS
<1> QED
  BY <1>1, GeneratorAssumption, RoomAssumption DEF LowAddress, NextAddress, HighAddress

LEMMA LargeEnough ==
  58 + 12 * body_ops < WordSize /\ 58 + 12 * body_ops <= MemDepth
<1>1. body_ops \in Nat /\ MemDepth \in Nat \ {0}
  BY RoomForProgram, MemoryAssumption
<1>2. LowAddress % MemDepth >= 58 + 12 * body_ops /\ LowAddress \in Nat /\ LowAddress <= 256
  BY RoomForProgram DEF LowAddress
<1>3. ASSUME NEW x \in Nat, NEW n \in Nat \ {0}
      PROVE  x % n <= x /\ x % n < n /\ x % n \in Nat
  BY <1>3
<1>4. LowAddress % MemDepth <= LowAddress /\ LowAddress % MemDepth < MemDepth /\ LowAddress % MemDepth \in Nat
  BY <1>1, <1>2, <1>3
<1> QED
  BY <1>1, <1>2, <1>4 DEF WordSize

LEMMA GeneratedLength ==
  ASSUME Prepared, Generated, phase \in {"written", "loaded"}
  PROVE  /\ OfGenerator /\ Structured(source) /\ Placed /\ encoded = Len(source)
         /\ Len(words) \in Nat /\ Len(words) <= 58 + 12 * body_ops
         /\ Len(words) < WordSize /\ Len(words) <= MemDepth
<1>1. body_ops \in Nat /\ body_ops > 0 /\ 58 + 12 * body_ops < WordSize
      /\ 58 + 12 * body_ops <= MemDepth
  BY LargeEnough, RoomForProgram
<1>2. OfGenerator
  BY <1>1 DEF Prepared, GenInv, Generated
<1>3. Structured(source)
  BY <1>2, ShapedStructured DEF OfGenerator
<1>4. AsmInv /\ Placed /\ encoded = Len(source)
  BY DEF Prepared, AsmInv, PassesInOrder, AtStart
<1>5. Len(words) = address[Len(source) + 1] /\ Len(words) \in Nat /\ Len(source) \in Nat
  BY <1>4, PlacedLines, LenProperties DEF AsmInv, WordsInPlace
<1>6. Len(words) <= 58 + 12 * body_ops
  BY <1>1, <1>2, <1>4, <1>5, WordsOfLines DEF OfGenerator
<1> QED
  BY <1>1, <1>2, <1>3, <1>4, <1>5, <1>6, MemoryAssumption DEF WordSize

-----------------------------------------------------------------------------
(* What the registers that are stored through hold at each line.           *)
InRegisters(a, b) ==
  /\ CurrentLine # 1 => regs[10] = LowAddress
  /\ CurrentLine \notin {1, 2} => regs[11] = NextAddress
  /\ HighStores /\ CurrentLine \in a + 1 .. b => regs[13] = HighAddress

(* Where an instruction of the text is followed by another.                *)
LEMMA NextInstruction ==
  ASSUME NEW i \in 1 .. Len(source), Len(source) \in Nat
  PROVE  /\ InstructionFrom(source, i + 1) \in i + 1 .. Len(source) + 1
         /\ (i < Len(source) /\ source[i + 1].mnemonic = MVRD) => InstructionFrom(source, i + 1) = i + 1
<1>1. i + 1 \in 1 .. Len(source) + 1
  OBVIOUS
<1>2. /\ InstructionFrom(source, i + 1) \in i + 1 .. Len(source) + 1
      /\ \A j \in i + 1 .. InstructionFrom(source, i + 1) - 1 : source[j].mnemonic = NoMnemonic
  BY <1>1, FirstFrom
<1>3. MVRD # NoMnemonic
  BY DEF MVRD, NoMnemonic
<1>4. ASSUME i < Len(source), source[i + 1].mnemonic = MVRD
      PROVE  InstructionFrom(source, i + 1) = i + 1
  <2>1. i + 1 \notin i + 1 .. InstructionFrom(source, i + 1) - 1
    BY <1>2, <1>3, <1>4
  <2> QED
    BY <1>2, <2>1
<1> QED
  BY <1>2, <1>4

LEMMA WhereNext ==
  ASSUME TextInv, ProgramKept, Execute, NEW i, i = CurrentLine
  PROVE  /\ i \in 1 .. Len(source) /\ Len(source) \in Nat /\ IsInstruction(i)
         /\ source[i].mnemonic \in {MVRD, STRR} => CurrentLine' = InstructionFrom(source, i + 1)
         /\ source[i].mnemonic \in {JMPA, JR} =>
              \E J \in Denoted(source, i, source[i].target) : CurrentLine' = InstructionFrom(source, J)
<1>1. phase = "loaded" /\ pc < Len(words)
  BY DEF Execute
<1>2. i \in 1 .. Len(source) /\ Len(source) \in Nat /\ IsInstruction(i)
  BY <1>1, CurrentInstruction, PlacedLines DEF Lines, Loaded
<1>3. Text!TextStep
  BY ExecuteImplements
<1>4. /\ Text!mnemonic = source[i].mnemonic /\ Text!follower = InstructionFrom(source, i + 1)
      /\ Text!targets = {InstructionFrom(source, j) : j \in Denoted(source, i, source[i].target)}
  <2>1. \A j : Text!InstructionFrom(source, j) = InstructionFrom(source, j)
    BY Zenon DEF Text!InstructionFrom, InstructionFrom, Text!Least, Least, Text!NoMnemonic, NoMnemonic
  <2> QED
    BY <2>1, TextDenotes DEF Text!mnemonic, Text!follower, Text!targets
<1>5. ASSUME source[i].mnemonic \in {MVRD, STRR}
      PROVE  CurrentLine' = InstructionFrom(source, i + 1)
  <2>1. source[i].mnemonic \notin Branches \cup {JMPA, CALLA, RET} /\ JR \in Branches
    BY <1>5 DEF Branches, JR, JRS, JRNS, JRC, JRNC, JRZ, JRNZ, RET, JMPA, MVRD, STRR, CALLA
  <2> QED
    BY <1>3, <1>4, <2>1, TextNames DEF Text!TextStep
<1>6. ASSUME source[i].mnemonic \in {JMPA, JR}
      PROVE  \E J \in Denoted(source, i, source[i].target) : CurrentLine' = InstructionFrom(source, J)
  <2>1. source[i].mnemonic \notin (Branches \ {JR}) \cup {CALLA, RET} /\ JR \in Branches
    BY <1>6 DEF Branches, JR, JRS, JRNS, JRC, JRNC, JRZ, JRNZ, RET, JMPA, CALLA
  <2>2. CurrentLine' \in Text!targets
    BY <1>3, <1>4, <1>6, <2>1, TextNames DEF Text!TextStep
  <2> QED
    BY <1>4, <2>2
<1> QED
  BY <1>2, <1>5, <1>6

(* What a line of a generated text does to those registers and to memory.  *)
LEMMA EffectOfLine ==
  ASSUME TextInv, ProgramKept, Execute, NEW i, i = CurrentLine
  PROVE  /\ source[i].mnemonic \notin Branches \cup {CALLA} => rd = source[i].d
         /\ op = source[i].mnemonic
         /\ Effect
         /\ source[i].mnemonic = MVRD /\ source[i].target.kind = "number" =>
              regs'[source[i].d] = source[i].target.value % WordSize
<1>1. phase = "loaded" /\ pc < Len(words) /\ Step
  BY DEF Execute
<1>2. /\ Loaded /\ Placed /\ i \in Lines /\ IsInstruction(i) /\ pc = address[i]
  BY <1>1, CurrentInstruction
<1>3. /\ op = source[i].mnemonic
      /\ source[i].mnemonic \notin Branches \cup {CALLA} => rd = source[i].d
      /\ source[i].mnemonic \in Extended \ {CALLA} => extension = ExtensionWord(i)
  BY <1>2, Fetched
<1>4. source[i].mnemonic \in Defined /\ source[i].d \in Reg /\ DOMAIN regs = Reg
  <2>1. IsLine(source[i]) /\ source[i].mnemonic \in Known
    BY <1>2, PlacedLines DEF Loaded
  <2> QED
    BY <1>2, <2>1 DEF IsLine, Known, IsInstruction, TextInv
<1>5. Effect
  BY <1>1, <1>3, <1>4, EffectOfStep
<1>6. ASSUME source[i].mnemonic = MVRD, source[i].target.kind = "number"
      PROVE  regs'[source[i].d] = source[i].target.value % WordSize
  <2>1. MVRD \in Extended \ {CALLA} /\ MVRD \notin Branches \cup {CALLA} /\ MVRD \in TakesTarget
    BY DEF Extended, Branches, TakesTarget, MVRD, CALLA, JMPA, ADDI, ANDI,
           JR, JRS, JRNS, JRC, JRNC, JRZ, JRNZ
  <2>2. regs'[source[i].d] = ExtensionWord(i)
    BY <1>3, <1>4, <1>5, <1>6, <2>1 DEF Effect
  <2>3. source[i].target.value \in Int
    BY <1>2, <1>6, <2>1, PlacedLines DEF IsLine, IsToken, Loaded
  <2>4. Target(i) = source[i].target.value
    <3>1. PICK v \in Int : v = source[i].target.value
      BY <2>3
    <3>2. Candidates(source[i].target, address[i]) = {v}
      BY <1>6, <3>1, Zenon DEF Candidates
    <3>3. Least({v}) = v
      BY DEF Least
    <3> QED
      BY <1>6, <3>1, <3>2, <3>3 DEF Target, resolve_target
  <2> QED
    BY <2>2, <2>4 DEF ExtensionWord
<1> QED
  BY <1>3, <1>5, <1>6
-----------------------------------------------------------------------------
LEMMA SmallAddresses ==
  /\ LowAddress % WordSize = LowAddress
  /\ NextAddress % WordSize = NextAddress
  /\ HighAddress % WordSize = HighAddress
  /\ \A v \in Int : Number(v).kind = "number" /\ Number(v).value = v
  /\ LowAddress \in Int /\ NextAddress \in Int /\ HighAddress \in Int
  BY DEF LowAddress, NextAddress, HighAddress, WordSize, Number

(* Registers that a line does not name stay.                               *)
LEMMA OthersKept ==
  ASSUME TextInv, ProgramKept, Execute, NEW i, i = CurrentLine, NEW r \in 10 .. 13,
         source[i].mnemonic \in Writers => source[i].d # r
  PROVE  regs'[r] = regs[r]
<1>1. /\ source[i].mnemonic \notin Branches \cup {CALLA} => rd = source[i].d
      /\ op = source[i].mnemonic /\ Effect
  BY EffectOfLine
<1>2. \A mn \in Writers : mn \notin Branches \cup {CALLA}
  BY DEF Writers, RegisterOps, Branches, ADD, SUB, AND, CMP, XOR, TEST, OR, MVRR, DEC, INC,
     SHL, SHR, ADC, SBB, NOT, ASR, JR, JRS, JRNS, JRC, JRNC, JRZ, JRNZ, CLC, STC, RET, JMPA,
     MVRD, LDRR, STRR, ADDI, ANDI, CALLA
<1>3. r \in Reg \ {LinkRegister}
  BY DEF Reg, LinkRegister
<1>4. r # rd \/ op \notin Writers
  BY <1>1, <1>2
<1> QED
  BY <1>1, <1>3, <1>4 DEF Effect

LEMMA Loads ==
  ASSUME TextInv, ProgramKept, Execute, NEW i, i = CurrentLine, NEW r \in Reg, NEW v \in Int,
         v % WordSize = v, source[i].mnemonic = MVRD, source[i].d = r, source[i].target = Number(v)
  PROVE  regs'[r] = v
  BY EffectOfLine, SmallAddresses

(* A generated program stores only behind itself.                          *)
LEMMA StoresBehind ==
  ASSUME TextInv, ProgramKept, Execute, NEW a, NEW b, Shaped(source, a, b), InRegisters(a, b),
         Len(words) \in Nat, Len(words) <= 58 + 12 * body_ops,
         DOMAIN mem = 0 .. MemDepth - 1
  PROVE  \A k \in 1 .. Len(words) : mem'[k - 1] = mem[k - 1]
<1>1. PICK i : i = CurrentLine
  OBVIOUS
<1>2. /\ op = source[i].mnemonic /\ Effect
      /\ source[i].mnemonic \notin Branches \cup {CALLA} => rd = source[i].d
  BY <1>1, EffectOfLine
<1>3. SUFFICES ASSUME source[i].mnemonic = STRR
               PROVE  \A k \in 1 .. Len(words) : mem'[k - 1] = mem[k - 1]
  BY <1>2 DEF Effect
<1>4. /\ a \in Nat /\ 2 <= a
      /\ source[1].mnemonic = MVRD /\ source[2].mnemonic = MVRD
      /\ \A j \in 3 .. a : source[j].mnemonic = MVRD
      /\ \A j \in a + 1 .. b : MidLine(source[j])
      /\ \A j \in b + 1 .. Len(source) : source[j].mnemonic \in {MVRD, JMPA, JR, NoMnemonic}
      /\ \A j \in 1 .. Len(source) :
           j = 1 \/ j = 2 \/ j \in 3 .. a \/ j \in a + 1 .. b \/ j \in b + 1 .. Len(source)
  BY ShapedLines DEF FirstMove, EndLine
<1>5. i \in 1 .. Len(source)
  BY <1>1, WhereNext
<1>6. STRR \notin {MVRD, JMPA, JR, NoMnemonic} /\ STRR # CALLA
  BY DEF STRR, MVRD, JMPA, JR, NoMnemonic, CALLA
<1>7. i \in a + 1 .. b /\ MidLine(source[i])
  BY <1>3, <1>4, <1>5, <1>6
<1>8. source[i].d \in {10, 11} \/ (source[i].d = 13 /\ HighStores)
  BY <1>3, <1>7 DEF MidLine
<1>9. i # 1 /\ i # 2
  BY <1>4, <1>7
<1>10. regs[10] = LowAddress /\ regs[11] = NextAddress /\ (HighStores => regs[13] = HighAddress)
  BY <1>1, <1>7, <1>9 DEF InRegisters
<1>11. rd = source[i].d
  BY <1>2, <1>3, <1>6, StoreKind
<1>12. regs[rd] \in {LowAddress, NextAddress, HighAddress}
  BY <1>8, <1>10, <1>11
<1>13. PICK cell : cell = IsaCell(regs[rd])
  OBVIOUS
<1>14. cell >= 58 + 12 * body_ops /\ cell \in Nat
  <2>1. cell >= 58 + 12 * body_ops
    BY <1>12, <1>13, RoomForProgram DEF IsaCell
  <2>2. regs[rd] \in Int /\ MemDepth \in Nat \ {0}
    BY <1>12, SmallAddresses, MemoryAssumption
  <2>3. \A x \in Int, n \in Nat \ {0} : x % n \in Nat
    OBVIOUS
  <2> QED
    BY <1>13, <2>1, <2>2, <2>3 DEF IsaCell
<1>15. mem' = [mem EXCEPT ![cell] = regs[rs]]
  BY <1>2, <1>3, <1>13 DEF Effect
<1>16. body_ops \in Nat
  BY RoomForProgram
<1>17. \A k \in 1 .. Len(words) : k - 1 # cell
  BY <1>14, <1>16
<1> QED
  BY <1>15, <1>17

LEMMA RegistersStay ==
  ASSUME TextInv, ProgramKept, Execute, NEW a, NEW b, Shaped(source, a, b), InRegisters(a, b),
         UNCHANGED targeted_bins
  PROVE  InRegisters(a, b)'
<1>1. PICK i : i = CurrentLine
  OBVIOUS
<1>2. /\ i \in 1 .. Len(source) /\ Len(source) \in Nat /\ IsInstruction(i)
      /\ source[i].mnemonic = MVRD => CurrentLine' = InstructionFrom(source, i + 1)
      /\ source[i].mnemonic \in {JMPA, JR} =>
           \E J \in Denoted(source, i, source[i].target) : CurrentLine' = InstructionFrom(source, J)
  BY <1>1, WhereNext
<1>3. /\ InstructionFrom(source, i + 1) \in i + 1 .. Len(source) + 1
      /\ (i < Len(source) /\ source[i + 1].mnemonic = MVRD) => InstructionFrom(source, i + 1) = i + 1
  BY <1>2, NextInstruction
<1>4. /\ a \in Nat /\ b \in Nat /\ 2 <= a /\ a <= b /\ b <= Len(source)
      /\ DOMAIN source = 1 .. Len(source)
      /\ source[1].mnemonic = MVRD /\ source[1].d = 10 /\ source[1].labels = {}
      /\ source[1].target = Number(LowAddress)
      /\ source[2].mnemonic = MVRD /\ source[2].d = 11 /\ source[2].labels = {}
      /\ source[2].target = Number(NextAddress)
      /\ \A j \in 3 .. a : FirstMove(source[j])
      /\ HighStores => source[a] = Mvrd(13, HighAddress)
      /\ \A j \in a + 1 .. b : MidLine(source[j])
      /\ \A j \in b + 1 .. Len(source) : EndLine(source[j])
      /\ \A j \in 1 .. Len(source) :
           j = 1 \/ j = 2 \/ j \in 3 .. a \/ j \in a + 1 .. b \/ j \in b + 1 .. Len(source)
  BY ShapedLines
<1>5. HighStores' = HighStores
  BY DEF HighStores, Targeted
<1>6. /\ 10 \in Reg /\ 11 \in Reg /\ 13 \in Reg /\ MVRD \in Writers
      /\ 10 \notin Free \cup {13} /\ 11 \notin Free \cup {13} /\ 13 \notin Free
  BY DEF Reg, Free, MVRD, Writers
<1>7. \A l : l = Mvrd(13, HighAddress) =>
        l.mnemonic = MVRD /\ l.d = 13 /\ l.target = Number(HighAddress)
  BY FieldsOfLine DEF Mvrd
<1>8. SUFFICES /\ CurrentLine' # 1 => regs'[10] = LowAddress
               /\ CurrentLine' \notin {1, 2} => regs'[11] = NextAddress
               /\ HighStores /\ CurrentLine' \in a + 1 .. b => regs'[13] = HighAddress
  BY <1>5 DEF InRegisters
<1>9. CASE i = 1
  <2>1. regs'[10] = LowAddress
    BY <1>1, <1>4, <1>6, <1>9, Loads, SmallAddresses
  <2>2. CurrentLine' = 2
    BY <1>2, <1>3, <1>4, <1>9
  <2> QED
    BY <1>4, <2>1, <2>2
<1>10. CASE i = 2
  <2>1. regs'[11] = NextAddress
    BY <1>1, <1>4, <1>6, <1>10, Loads, SmallAddresses
  <2>2. regs'[10] = LowAddress
    <3>1. regs'[10] = regs[10]
      BY <1>1, <1>4, <1>10, OthersKept
    <3> QED
      BY <1>1, <1>10, <3>1 DEF InRegisters
  <2>3. HighStores => CurrentLine' = 3 /\ 3 <= a
    <3>1. ASSUME HighStores
          PROVE  3 <= a
      BY <1>4, <1>7, <3>1
    <3>2. ASSUME HighStores
          PROVE  source[3].mnemonic = MVRD
      BY <1>4, <3>1, <3>2 DEF FirstMove
    <3> QED
      BY <1>2, <1>3, <1>4, <1>10, <3>1, <3>2
  <2> QED
    BY <1>4, <2>1, <2>2, <2>3
<1>11. ASSUME i # 1, i # 2, source[i].mnemonic \in Writers => source[i].d \in Free \cup {13}
       PROVE  regs'[10] = LowAddress /\ regs'[11] = NextAddress
  <2>1. regs[10] = LowAddress /\ regs[11] = NextAddress
    BY <1>1, <1>11 DEF InRegisters
  <2>2. source[i].mnemonic \in Writers => source[i].d # 10 /\ source[i].d # 11
    BY <1>6, <1>11
  <2>3. regs'[10] = regs[10]
    BY <1>1, <2>2, OthersKept
  <2>4. regs'[11] = regs[11]
    BY <1>1, <2>2, OthersKept
  <2> QED
    BY <2>1, <2>3, <2>4
<1>12. ASSUME source[i] = Mvrd(13, HighAddress)
       PROVE  regs'[13] = HighAddress
  BY <1>1, <1>6, <1>7, <1>12, Loads, SmallAddresses
<1>13. CASE i \in 3 .. a
  <2>1. source[i].mnemonic = MVRD /\ source[i].d \in Free \cup {13}
    BY <1>4, <1>13 DEF FirstMove
  <2>2. regs'[10] = LowAddress /\ regs'[11] = NextAddress
    BY <1>11, <1>13, <2>1
  <2>3. ASSUME HighStores, CurrentLine' \in a + 1 .. b
        PROVE  regs'[13] = HighAddress
    <3>1. ASSUME i < a
          PROVE  FALSE
      <4>1. source[i + 1].mnemonic = MVRD
        BY <1>4, <1>13, <3>1 DEF FirstMove
      <4>2. CurrentLine' = i + 1
        BY <1>2, <1>3, <1>4, <2>1, <3>1, <4>1
      <4> QED
        BY <1>4, <1>13, <2>3, <3>1, <4>2
    <3>2. i = a
      BY <1>4, <1>13, <3>1
    <3> QED
      BY <1>4, <1>12, <2>3, <3>2
  <2> QED
    BY <2>2, <2>3
<1>14. CASE i \in a + 1 .. b
  <2>1. i # 1 /\ i # 2 /\ MidLine(source[i])
    BY <1>4, <1>14
  <2>2. source[i].mnemonic \in Writers => source[i].d \in Free \/ source[i] = Mvrd(13, HighAddress)
    BY <2>1 DEF MidLine
  <2>3. regs'[10] = LowAddress /\ regs'[11] = NextAddress
    BY <1>7, <1>11, <2>1, <2>2
  <2>4. ASSUME HighStores
        PROVE  regs'[13] = HighAddress
    <3>1. regs[13] = HighAddress
      BY <1>1, <1>14, <2>4 DEF InRegisters
    <3>2. ASSUME source[i] # Mvrd(13, HighAddress)
          PROVE  regs'[13] = regs[13]
      <4>1. source[i].mnemonic \in Writers => source[i].d # 13
        BY <1>6, <2>2, <3>2
      <4> QED
        BY <1>1, <4>1, OthersKept
    <3> QED
      BY <1>12, <3>1, <3>2
  <2> QED
    BY <2>3, <2>4
<1>15. CASE i \in b + 1 .. Len(source)
  <2>1. EndLine(source[i]) /\ i # 1 /\ i # 2 /\ source[i].mnemonic # NoMnemonic
    BY <1>2, <1>4, <1>15 DEF IsInstruction
  <2>2. source[i].mnemonic \in Writers => source[i].d = 13
    <3>1. JMPA \notin Writers /\ JR \notin Writers
      BY DEF JMPA, JR, Writers, RegisterOps, ADD, SUB, AND, CMP, XOR, TEST, OR, MVRR, DEC, INC,
         SHL, SHR, ADC, SBB, NOT, ASR, MVRD, LDRR, ADDI, ANDI
    <3> QED
      BY <2>1, <3>1 DEF EndLine
  <2>3. regs'[10] = LowAddress /\ regs'[11] = NextAddress
    BY <1>11, <2>1, <2>2
  <2>4. CurrentLine' \notin a + 1 .. b
    <3>1. CASE source[i].mnemonic = MVRD
      BY <1>2, <1>3, <1>4, <1>15, <3>1
    <3>2. CASE source[i].mnemonic \in {JMPA, JR}
      <4>1. PICK J \in Denoted(source, i, source[i].target) : CurrentLine' = InstructionFrom(source, J)
        BY <1>2, <3>2
      <4>2. source[i].target.kind = "name" /\ source[i].target.label[1] \in Outer
        BY <2>1, <3>2 DEF EndLine
      <4>3. J \in 1 .. Len(source) /\ source[i].target.label \in source[J].labels
        BY <1>4, <4>1, <4>2 DEF Denoted, Bearing
      <4>4. J \notin 1 .. b
        <5>1. "EXIT" \notin Inner /\ "HALT" \notin Inner
          BY DEF Inner
        <5>2. \A j \in a + 1 .. b : source[i].target.label \notin source[j].labels
          BY <1>4, <4>2, <5>1 DEF MidLine, Outer
        <5>3. \A j \in 3 .. a : source[j].labels = {}
          BY <1>4 DEF FirstMove
        <5> QED
          BY <1>4, <4>3, <5>2, <5>3
      <4>5. InstructionFrom(source, J) \in J .. Len(source) + 1
        BY <1>2, <4>3, FirstFrom
      <4> QED
        BY <1>4, <4>1, <4>3, <4>4, <4>5
    <3> QED
      BY <2>1, <3>1, <3>2 DEF EndLine
  <2> QED
    BY <2>3, <2>4
<1> QED
  BY <1>2, <1>4, <1>9, <1>10, <1>13, <1>14, <1>15
-----------------------------------------------------------------------------
(* A generated program runs as it was loaded.                              *)
LoadedInPlace ==
  phase = "loaded" =>
    /\ \A k \in 1 .. Len(words) : mem[k - 1] = words[k]
    /\ \E a, b : Shaped(source, a, b) /\ InRegisters(a, b)

IntactInv == Generated => OnALine /\ LoadedInPlace

LEMMA GeneratedText ==
  ASSUME Prepared, Generated, OnALine, LoadedInPlace, phase \in {"written", "loaded"}
  PROVE  TextInv /\ ProgramKept
<1>1. Structured(source) /\ Len(words) < WordSize /\ Len(words) <= MemDepth
  BY GeneratedLength
<1> QED
  BY <1>1 DEF TextInv, Prepared, AtStart, OnALine, LoadedInPlace, ProgramKept

LEMMA LoadedInPlaceStep ==
  ASSUME Prepared, Generated, OnALine, LoadedInPlace, Execute, UNCHANGED targeted_bins
  PROVE  LoadedInPlace'
<1>1. phase = "loaded" /\ UNCHANGED <<phase, source, address, encoded, words>>
  BY DEF Execute, asmVars
<1>2. TextInv /\ ProgramKept
  BY <1>1, GeneratedText
<1>3. PICK a, b : Shaped(source, a, b) /\ InRegisters(a, b)
  BY <1>1 DEF LoadedInPlace
<1>4. Len(words) \in Nat /\ Len(words) <= 58 + 12 * body_ops /\ DOMAIN mem = 0 .. MemDepth - 1
  BY <1>1, GeneratedLength DEF Prepared, AtStart
<1>5. \A k \in 1 .. Len(words) : mem'[k - 1] = mem[k - 1]
  BY <1>2, <1>3, <1>4, StoresBehind
<1>6. InRegisters(a, b)'
  BY <1>2, <1>3, RegistersStay
<1>7. Shaped(source, a, b)'
  BY <1>1, <1>3 DEF Shaped, MidLine, HighStores, Targeted
<1>8. \A k \in 1 .. Len(words') : mem'[k - 1] = words'[k]
  BY <1>1, <1>5 DEF LoadedInPlace
<1> QED
  BY <1>6, <1>7, <1>8 DEF LoadedInPlace

LEMMA LoadedInPlaceFirst ==
  ASSUME Prepared, Generated, phase = "written", load_hex, UNCHANGED targeted_bins
  PROVE  LoadedInPlace'
<1>1. /\ OfGenerator /\ Placed /\ AsmInv
      /\ Len(words) \in Nat /\ Len(words) <= MemDepth
      /\ DOMAIN mem = 0 .. MemDepth - 1 /\ pc' = 0
  BY GeneratedLength DEF Prepared, AtStart, load_hex, Machine
<1>2. PICK a, b : Shaped(source, a, b)
  BY <1>1 DEF OfGenerator
<1>3. UNCHANGED <<source, address, words>> /\ phase' = "loaded"
  BY DEF load_hex
<1>4. CurrentLine' = 1
  <2>1. /\ Len(source) \in Nat /\ 2 <= Len(source) /\ source[1].mnemonic = MVRD
        /\ 1 \in 1 .. Len(source) + 1
    BY <1>2, ShapedLines
  <2>2. InstructionFrom(source, 1) = 1
    <3>1. /\ InstructionFrom(source, 1) \in 1 .. Len(source) + 1
          /\ \A j \in 1 .. InstructionFrom(source, 1) - 1 : source[j].mnemonic = NoMnemonic
      BY <2>1, FirstFrom
    <3>2. 1 \notin 1 .. InstructionFrom(source, 1) - 1
      BY <2>1, <3>1 DEF MVRD, NoMnemonic
    <3> QED
      BY <3>1, <3>2
  <2>3. address[1] = 0
    BY <1>1, PlacedLines
  <2>4. LineAt(0) = 1
    BY <1>1, <2>1, <2>2, <2>3, LineAtAddress
  <2>5. \A x : LineAt(x)' = LineAt(x)
    BY <1>3, SameLines
  <2> QED
    BY <1>1, <1>3, <2>4, <2>5 DEF CurrentLine
<1>5. InRegisters(a, b)'
  BY <1>2, <1>4, ShapedLines DEF InRegisters
<1>6. Shaped(source, a, b)'
  BY <1>2, <1>3 DEF Shaped, MidLine, HighStores, Targeted
<1>7. ASSUME NEW k \in 1 .. Len(words)
      PROVE  mem'[k - 1] = words[k]
  <2>1. k - 1 \in DOMAIN mem /\ k - 1 < Len(words) /\ (k - 1) + 1 = k
    BY <1>1, <1>7, MemoryAssumption
  <2> QED
    BY <2>1 DEF load_hex
<1> QED
  BY <1>3, <1>5, <1>6, <1>7 DEF LoadedInPlace

LEMMA IntactInvStep ==
  ASSUME Prepared, IntactInv, [RandomNext]_randomVars
  PROVE  IntactInv'
<1>1. CASE UNCHANGED <<targeted_bins, blocks>> /\ (Execute \/ (phase = "written" /\ load_hex))
  <2> SUFFICES ASSUME Generated
               PROVE  OnALine' /\ LoadedInPlace'
    BY <1>1 DEF IntactInv, Generated
  <2>1. OnALine /\ LoadedInPlace
    BY DEF IntactInv
  <2>2. phase \in {"written", "loaded"}
    BY <1>1 DEF Execute
  <2>3. Structured(source) /\ ProgramKept
    BY <2>1, <2>2, GeneratedText DEF TextInv
  <2>4. OnALine'
    BY <2>1, <2>3, OnALineStep
  <2> QED
    BY <1>1, <2>1, <2>4, LoadedInPlaceStep, LoadedInPlaceFirst
<1>2. CASE EmitSetup \/ EmitBlock \/ EmitEnd \/ Assemble
  <2>1. phase' # "loaded"
    BY <1>2 DEF EmitSetup, EmitBlock, EmitEnd, Assemble, Place, PlaceFails, BuildLabelTable,
       Encode, EncodeFails, WriteHex
  <2> QED
    BY <2>1 DEF IntactInv, OnALine, LoadedInPlace
<1>3. CASE UNCHANGED randomVars
  <2>1. UNCHANGED <<source, address, words, phase, pc, regs, mem, targeted_bins, blocks>>
    BY <1>3 DEF randomVars, asmIsaVars, asmVars, isaVars
  <2>2. /\ \A x : LineAt(x)' = LineAt(x)
        /\ \A x : StartsLine(x)' <=> StartsLine(x)
    BY <2>1, SameLines
  <2>3. FirstLine' = FirstLine /\ CurrentLine' = CurrentLine
    BY <2>1, <2>2 DEF FirstLine, CurrentLine
  <2>4. \A a, b : (Shaped(source, a, b) /\ InRegisters(a, b))'
                   <=> (Shaped(source, a, b) /\ InRegisters(a, b))
    BY <2>1, <2>3 DEF Shaped, InRegisters, MidLine, HighStores, Targeted
  <2>5. OnALine' <=> OnALine
    BY <2>1, <2>2 DEF OnALine
  <2>6. LoadedInPlace' <=> LoadedInPlace
    BY <2>1, <2>4 DEF LoadedInPlace
  <2> QED
    BY <2>1, <2>5, <2>6 DEF IntactInv, Generated
<1> QED
  BY <1>1, <1>2, <1>3 DEF RandomNext, Translate, RunNext

LEMMA IntactInvariant == RandomSpec => []IntactInv
<1>1. RandomInit => IntactInv
  BY DEF RandomInit, GenInit, Written, RunInit, AsmInit, IntactInv, OnALine, LoadedInPlace
<1>2. Prepared /\ IntactInv /\ [RandomNext]_randomVars => IntactInv'
  BY IntactInvStep
<1> QED
  BY <1>1, <1>2, PreparedInvariant, PTL DEF RandomSpec

(* A generated program never stores into itself: what runs is what         *)
(* emit_random_program wrote, whatever was drawn and wherever it branches. *)
THEOREM IntactCorrect == RandomSpec => []ProgramStaysIntact
<1>1. IntactInv => ProgramStaysIntact
  BY DEF IntactInv, LoadedInPlace, ProgramStaysIntact
<1> QED
  BY <1>1, IntactInvariant, PTL

(* A program of the generator does what its text says, with nothing else   *)
(* assumed: every branch, call and return in it goes to the line its text  *)
(* names.                                                                  *)
THEOREM GeneratedTextCorrect ==
  ASSUME Sources = {}
  PROVE  RandomSpec => ImplementsText
<1>1. Prepared /\ IntactInv => ProgramKept
  <2> SUFFICES ASSUME Prepared, IntactInv, phase = "loaded"
               PROVE  ProgramKept
    BY DEF ProgramKept
  <2>1. Generated
    BY DEF Prepared, GenInv, OfGenerator, Generated
  <2> QED
    BY <2>1, GeneratedText DEF IntactInv
<1>2. RandomSpec /\ []ProgramKept => ImplementsText
  <2>1. \A s \in Sources : Structured(s)
    OBVIOUS
  <2> QED
    BY <2>1, TextCorrect
<1> QED
  BY <1>1, <1>2, PreparedInvariant, IntactInvariant, PTL
-----------------------------------------------------------------------------
(* What a generated program runs down.  Its opening falls through to LOOP; *)
(* a block falls through too, or jumps to the label at its own end, which  *)
(* no other line bears; and only the ending writes R12 once it is set.     *)
Straight(l) ==
  /\ l.wellFormed
  /\ l.labels = {}
  /\ l.mnemonic \in PlainOps \cup {MVRD}
  /\ l.mnemonic = MVRD => l.target.kind = "number"

Early(l)  == Straight(l) /\ (l.mnemonic \in Writers /\ l.d = 12 => l.mnemonic = MVRD)
Inside(l) == Straight(l) /\ (l.mnemonic \in Writers => l.d # 12)

EndOf(k) == Label(<<"SKIP", k>>)
Branching(l, k) == \E mn \in Branches : l = To(mn, <<"SKIP", k>>)

(* Line i of a block, the k-th from 0 on.                                  *)
BlockLine(t, i, k) ==
  \/ Inside(t[i])
  \/ i + 2 = Len(t) /\ Branching(t[i], k) /\ t[i + 2] = EndOf(k)
  \/ i = Len(t) /\ t[i] = EndOf(k)

BlockText(t, k) ==
  /\ t \in Seq(Range(t)) /\ Len(t) \in 1 .. 6
  /\ \A i \in 1 .. Len(t) : BlockLine(t, i, k)

(* Line i of the loop, which ends with line b and has n blocks.            *)
BodyLine(lines, b, n, i) ==
  \/ Inside(lines[i])
  \/ \E k \in 0 .. n - 1 : i + 2 <= b /\ Branching(lines[i], k) /\ lines[i + 2] = EndOf(k)
  \/ \E k \in 0 .. n - 1 : lines[i] = EndOf(k)

(* The opening ends with line m.                                           *)
LoopText(lines, m, b, n) ==
  /\ lines \in Seq(Range(lines)) /\ n \in Nat
  /\ m \in Nat /\ b \in Nat /\ 1 <= m /\ m <= b /\ b <= Len(lines) /\ b <= m + 6 * n
  /\ \A i \in 1 .. m - 1 : Early(lines[i])
  /\ lines[m] = Label(Loop)
  /\ \A i \in m + 1 .. b : BodyLine(lines, b, n, i)
  /\ \A i, j \in m + 1 .. b : \A k : lines[i] = EndOf(k) /\ lines[j] = EndOf(k) => i = j

(* The lines after the loop.                                               *)
Closed(lines, b) ==
  /\ Len(lines) = b + 7
  /\ lines[b + 1] = Op(DEC, 12, 0) /\ lines[b + 2] = To(JRNZ, Loop)
  /\ \E imm \in Int : lines[b + 3] = Mvrd(13, imm)
  /\ lines[b + 4] = To(JMPA, Exit) /\ lines[b + 5] = Mvrd(13, \hDEAD)
  /\ lines[b + 6] = Label(Exit) /\ lines[b + 7] = Line({Halt}, JR, 0, 0, Name(Halt))

LEMMA StraightLines ==
  /\ \A r, imm : Straight(Mvrd(r, imm)) /\ Mvrd(r, imm).d = r /\ Mvrd(r, imm).mnemonic = MVRD
  /\ \A mn \in PlainOps : \A d, r :
       Straight(Op(mn, d, r)) /\ Op(mn, d, r).d = d /\ Op(mn, d, r).mnemonic = mn
  /\ MVRD \notin PlainOps
<1>1. MVRD \notin PlainOps
  BY DEF PlainOps
<1>2. ASSUME NEW r, NEW imm, NEW l, l = Mvrd(r, imm)
      PROVE  Straight(l) /\ l.d = r /\ l.mnemonic = MVRD
  <2>1. /\ l.mnemonic = MVRD /\ l.labels = {} /\ l.d = r /\ l.target = Number(imm) /\ l.wellFormed
    BY <1>2 DEF Mvrd, Line
  <2>2. Number(imm).kind = "number"
    BY DEF Number
  <2> QED
    BY <2>1, <2>2 DEF Straight
<1>3. ASSUME NEW mn \in PlainOps, NEW d, NEW r, NEW l, l = Op(mn, d, r)
      PROVE  Straight(l) /\ l.d = d /\ l.mnemonic = mn
  <2>1. l.mnemonic = mn /\ l.labels = {} /\ l.d = d /\ l.wellFormed
    BY <1>3 DEF Op, Plain, Line
  <2> QED
    BY <1>1, <2>1 DEF Straight
<1> QED
  BY <1>1, <1>2, <1>3

LEMMA PlainRegisterOps ==
  \A mn \in RegisterOps \cup {LDRR, STRR, STC, CLC} : mn \in PlainOps
  BY DEF PlainOps, Defined, RegisterOps, Branches, Extended,
     ADD, SUB, AND, CMP, XOR, TEST, OR, MVRR, DEC, INC, SHL, SHR, ADC, SBB, NOT, ASR,
     JR, JRS, JRNS, JRC, JRNC, JRZ, JRNZ, CLC, STC, RET, JMPA, MVRD, LDRR, STRR, ADDI, ANDI, CALLA

LEMMA NoWriters == STRR \notin Writers /\ STC \notin Writers /\ CLC \notin Writers
  BY PlainKind, StoreKind

(* Lines of the opening and of the blocks.                                 *)
LEMMA EarlyLines ==
  /\ \A r, imm : Early(Mvrd(r, imm))
  /\ \A d, r : Early(Op(STRR, d, r))
  /\ \A r : Early(Op(LDRR, 4, r))
<1>1. STRR \in PlainOps /\ LDRR \in PlainOps
  BY PlainRegisterOps
<1> QED
  BY <1>1, StraightLines, NoWriters DEF Early

LEMMA InsideLines ==
  /\ \A r \in 0 .. 9 : \A imm : Inside(Mvrd(r, imm))
  /\ \A mn \in RegisterOps \cup {LDRR}, d \in 0 .. 9 : \A r :
       Inside(Op(mn, d, r))
  /\ \A d, r : Inside(Op(STRR, d, r))
  /\ \A mn \in {STC, CLC} : Inside(Op(mn, 0, 0))
<1>1. \A d \in 0 .. 9 : d # 12
  OBVIOUS
<1>2. \A r \in 0 .. 9 : \A imm : Inside(Mvrd(r, imm))
  BY <1>1, StraightLines DEF Inside
<1>3. ASSUME NEW mn \in RegisterOps \cup {LDRR}, NEW d \in 0 .. 9, NEW r
      PROVE  Inside(Op(mn, d, r))
  <2>1. mn \in PlainOps
    BY PlainRegisterOps
  <2> QED
    BY <1>1, <2>1, StraightLines DEF Inside
<1>4. \A mn \in {STRR, STC, CLC} : mn \in PlainOps /\ mn \notin Writers
  BY PlainRegisterOps, NoWriters
<1>5. \A mn \in {STRR, STC, CLC} : \A d, r : Inside(Op(mn, d, r))
  BY <1>4, StraightLines DEF Inside
<1> QED
  BY <1>2, <1>3, <1>5

(* The blocks that are emitted.                                            *)
LEMMA TupleTexts ==
  /\ \A a : <<a>> \in Seq(Range(<<a>>))
  /\ \A a, b : <<a, b>> \in Seq(Range(<<a, b>>))
  /\ \A a, b, c : <<a, b, c>> \in Seq(Range(<<a, b, c>>))
  /\ \A a, b, c, d : <<a, b, c, d>> \in Seq(Range(<<a, b, c, d>>))
<1>1. ASSUME NEW S, NEW s \in Seq(S)
      PROVE  s \in Seq(Range(s))
  <2>1. /\ Len(s) \in Nat /\ s \in [1 .. Len(s) -> S] /\ DOMAIN s = 1 .. Len(s)
    BY LenProperties
  <2> QED
    BY <2>1 DEF Range
<1>2. ASSUME NEW a, NEW b, NEW c, NEW d
      PROVE  /\ <<a>> \in Seq(Range(<<a>>)) /\ <<a, b>> \in Seq(Range(<<a, b>>))
             /\ <<a, b, c>> \in Seq(Range(<<a, b, c>>))
             /\ <<a, b, c, d>> \in Seq(Range(<<a, b, c, d>>))
  <2> DEFINE S == {a, b, c, d}
  <2>1. <<a>> \in Seq(S) /\ <<a, b>> \in Seq(S) /\ <<a, b, c>> \in Seq(S) /\ <<a, b, c, d>> \in Seq(S)
    OBVIOUS
  <2> HIDE DEF S
  <2> QED
    BY <1>1, <2>1
<1> QED
  BY <1>2, Zenon

LEMMA ShortBlocks ==
  ASSUME NEW k
  PROVE  /\ \A a : Inside(a) => BlockText(<<a>>, k)
         /\ \A a, b : Inside(a) /\ Inside(b) => BlockText(<<a, b>>, k)
         /\ \A a, b, c : Inside(a) /\ Inside(b) /\ Inside(c) => BlockText(<<a, b, c>>, k)
<1>1. ASSUME NEW t, t \in Seq(Range(t)), Len(t) \in 1 .. 6, \A i \in 1 .. Len(t) : Inside(t[i])
      PROVE  BlockText(t, k)
  BY <1>1 DEF BlockText, BlockLine
<1>2. ASSUME NEW a, Inside(a)
      PROVE  BlockText(<<a>>, k)
  <2>1. PICK u : u = <<a>>
    OBVIOUS
  <2>2. u \in Seq(Range(u)) /\ Len(u) = 1 /\ u[1] = a
    BY <2>1, TupleTexts
  <2>3. \A i \in 1 .. Len(u) : Inside(u[i])
    BY <1>2, <2>2
  <2>4. Len(u) \in 1 .. 6
    BY <2>2
  <2>5. BlockText(u, k)
    BY <1>1, <2>2, <2>3, <2>4
  <2> QED
    BY <2>1, <2>5, Zenon
<1>3. ASSUME NEW a, NEW b, Inside(a), Inside(b)
      PROVE  BlockText(<<a, b>>, k)
  <2>1. PICK u : u = <<a, b>>
    OBVIOUS
  <2>2. u \in Seq(Range(u)) /\ Len(u) = 2 /\ u[1] = a /\ u[2] = b
    BY <2>1, TupleTexts
  <2>3. \A i \in 1 .. Len(u) : Inside(u[i])
    BY <1>3, <2>2
  <2>4. Len(u) \in 1 .. 6
    BY <2>2
  <2>5. BlockText(u, k)
    BY <1>1, <2>2, <2>3, <2>4
  <2> QED
    BY <2>1, <2>5, Zenon
<1>4. ASSUME NEW a, NEW b, NEW c, Inside(a), Inside(b), Inside(c)
      PROVE  BlockText(<<a, b, c>>, k)
  <2>1. PICK u : u = <<a, b, c>>
    OBVIOUS
  <2>2. u \in Seq(Range(u)) /\ Len(u) = 3 /\ u[1] = a /\ u[2] = b /\ u[3] = c
    BY <2>1, TupleTexts
  <2>3. \A i \in 1 .. Len(u) : Inside(u[i])
    BY <1>4, <2>2
  <2>4. Len(u) \in 1 .. 6
    BY <2>2
  <2>5. BlockText(u, k)
    BY <1>1, <2>2, <2>3, <2>4
  <2> QED
    BY <2>1, <2>5, Zenon
<1> QED
  BY <1>2, <1>3, <1>4

(* A condition, the branch on it, what is passed over and the label.       *)
LEMMA FlagBlock ==
  ASSUME NEW k, NEW x, x \in Seq(Range(x)), Len(x) \in {2, 4}, Branching(x[Len(x)], k),
         \A i \in 1 .. Len(x) - 1 : Inside(x[i]), NEW c, Inside(c)
  PROVE  BlockText(x \o <<c, EndOf(k)>>, k)
<1>1. PICK u, y : y = <<c, EndOf(k)>> /\ u = x \o y
  OBVIOUS
<1>2. y \in Seq(Range(y)) /\ Len(y) = 2 /\ y[1] = c /\ y[2] = EndOf(k)
  BY <1>1, TupleTexts
<1>3. /\ u \in Seq(Range(u)) /\ Len(u) = Len(x) + 2
      /\ \A i \in 1 .. Len(x) : u[i] = x[i]
      /\ u[Len(x) + 1] = c /\ u[Len(x) + 2] = EndOf(k)
  <2>0. x \in Seq(Range(x)) /\ y \in Seq(Range(y))
    BY <1>2
  <2>1. /\ u \in Seq(Range(u)) /\ Len(u) = Len(x) + Len(y)
        /\ \A i \in 1 .. Len(x) : u[i] = x[i]
        /\ \A i \in Len(x) + 1 .. Len(x) + Len(y) : u[i] = y[i - Len(x)]
    BY <1>1, <2>0, Concatenation
  <2> QED
    BY <1>2, <2>1
<1>4. ASSUME NEW i \in 1 .. Len(u)
      PROVE  BlockLine(u, i, k)
  <2>1. CASE i \in 1 .. Len(x) - 1
    BY <1>3, <2>1 DEF BlockLine
  <2>2. CASE i = Len(x)
    BY <1>3, <2>2 DEF BlockLine
  <2>3. CASE i = Len(x) + 1
    BY <1>3, <2>3 DEF BlockLine
  <2>4. CASE i = Len(x) + 2
    BY <1>3, <2>4 DEF BlockLine
  <2> QED
    BY <1>3, <2>1, <2>2, <2>3, <2>4
<1>5. Len(u) \in 1 .. 6
  BY <1>3
<1>6. BlockText(u, k)
  BY <1>3, <1>4, <1>5 DEF BlockText
<1> QED
  BY <1>1, <1>6, Zenon

LEMMA EmittedBlocks ==
  ASSUME NEW block \in ArithBlocks \cup UnaryBlocks \cup MemBlocks \cup FlagBranchBlocks
  PROVE  BlockText(block, blocks)
<1>1. /\ \A r \in Drawn : r \in 0 .. 9
      /\ \A p \in Pairs : p[1] \in 0 .. 9
      /\ DistinctPairs \subseteq Pairs
  BY DEF Drawn, REGISTER_POOL, Pairs, DistinctPairs
<1>2. CASE block \in ArithBlocks
  <2>1. \A mn \in {ADC, SBB}, p \in Pairs : BlockText(WithCarry(mn, p), blocks)
    <3>1. Inside(Op(STC, 0, 0))
      BY InsideLines
    <3>2. \A mn \in {ADC, SBB}, p \in Pairs : Inside(Op(mn, p[1], p[2]))
      BY <1>1, InsideLines, MoreKinds
    <3> QED
      BY <3>1, <3>2, ShortBlocks DEF WithCarry
  <2>2. \A mn \in ArithOps, p \in Pairs : BlockText(<<Op(mn, p[1], p[2])>>, blocks)
    <3>1. \A mn \in ArithOps, p \in Pairs : Inside(Op(mn, p[1], p[2]))
      BY <1>1, InsideLines, MoreKinds
    <3> QED
      BY <3>1, ShortBlocks
  <2> DEFINE sum == <<Mvrd(0, \h7FFF), Mvrd(1, 1), Op(ADD, 0, 1)>>
  <2>3. BlockText(sum, blocks)
    <3>1. /\ Inside(Mvrd(0, \h7FFF)) /\ Inside(Mvrd(1, 1))
          /\ Inside(Op(ADD, 0, 1))
      BY InsideLines, MoreKinds
    <3> QED
      BY <3>1, ShortBlocks
  <2>4. block \in {sum} \cup {WithCarry(ADC, p) : p \in Pairs}
               \cup {WithCarry(SBB, p) : p \in Pairs} \cup UNION {Binary(mn) : mn \in ArithOps}
    <3>1. ArithBlocks \in {{sum}, {WithCarry(ADC, p) : p \in Pairs},
                          {WithCarry(SBB, p) : p \in Pairs}, UNION {Binary(mn) : mn \in ArithOps}}
      BY DEF ArithBlocks
    <3> HIDE DEF sum
    <3> QED
      BY <1>2, <3>1, Zenon
  <2>5. \A mn \in ArithOps : \A l \in Binary(mn) : BlockText(l, blocks)
    BY <1>1, <2>2 DEF Binary
  <2> HIDE DEF sum
  <2> QED
    BY <2>1, <2>3, <2>4, <2>5
<1>3. CASE block \in UnaryBlocks
  <2>1. /\ BlockText(<<Mvrd(9, \h8001), Op(SHL, 9, 0)>>, blocks)
        /\ BlockText(<<Mvrd(8, 1), Op(SHR, 8, 0)>>, blocks)
    <3>1. /\ Inside(Mvrd(9, \h8001)) /\ Inside(Op(SHL, 9, 0))
          /\ Inside(Mvrd(8, 1)) /\ Inside(Op(SHR, 8, 0))
      BY InsideLines, MoreKinds
    <3> QED
      BY <3>1, ShortBlocks
  <2>2. \A mn \in UNARY_OPS, d \in Drawn : BlockText(<<Op(mn, d, 0)>>, blocks)
    <3>1. \A mn \in UNARY_OPS, d \in Drawn : Inside(Op(mn, d, 0))
      BY <1>1, InsideLines, MoreKinds
    <3> QED
      BY <3>1, ShortBlocks
  <2> QED
    BY <1>3, <2>1, <2>2 DEF UnaryBlocks
<1>4. CASE block \in MemBlocks
  <2>1. ASSUME NEW d, NEW r \in Drawn
        PROVE  BlockText(<<Op(STRR, d, r)>>, blocks) /\ BlockText(<<Op(LDRR, r, d)>>, blocks)
    <3>1. Inside(Op(STRR, d, r)) /\ Inside(Op(LDRR, r, d))
      BY <1>1, InsideLines
    <3> QED
      BY <3>1, ShortBlocks
  <2>2. \E d : \E r \in Drawn : block \in {<<Op(STRR, d, r)>>, <<Op(LDRR, r, d)>>}
    BY <1>4 DEF MemBlocks
  <2> QED
    BY <2>1, <2>2
<1>5. CASE block \in FlagBranchBlocks
  <2>1. PICK condition \in Condition, mn \in {CLC, STC} : block = condition \o PassedOver(mn)
    BY <1>5 DEF FlagBranchBlocks
  <2> DEFINE Fits(x) == /\ x \in Seq(Range(x)) /\ Len(x) \in {2, 4} /\ Branching(x[Len(x)], blocks)
                        /\ \A i \in 1 .. Len(x) - 1 : Inside(x[i])
  <2>2. ASSUME NEW a, NEW jump \in Branches, Inside(a)
        PROVE  Fits(<<a, To(jump, Skip)>>)
    <3>1. PICK b, u : b = To(jump, Skip) /\ u = <<a, b>>
      OBVIOUS
    <3>2. Branching(b, blocks)
      BY <3>1 DEF Branching, Skip
    <3>3. u \in Seq(Range(u)) /\ Len(u) = 2 /\ u[1] = a /\ u[2] = b
      BY <3>1, TupleTexts
    <3>4. \A i \in 1 .. Len(u) - 1 : Inside(u[i])
      BY <2>2, <3>3
    <3>5. Fits(u)
      BY <3>2, <3>3, <3>4
    <3> QED
      BY <3>1, <3>5
  <2>3. ASSUME NEW a, NEW b, NEW c, NEW jump \in Branches, Inside(a), Inside(b), Inside(c)
        PROVE  Fits(<<a, b, c, To(jump, Skip)>>)
    <3>1. PICK d, u : d = To(jump, Skip) /\ u = <<a, b, c, d>>
      OBVIOUS
    <3>2. Branching(d, blocks)
      BY <3>1 DEF Branching, Skip
    <3>3. u \in Seq(Range(u)) /\ Len(u) = 4 /\ u[1] = a /\ u[2] = b /\ u[3] = c /\ u[4] = d
      BY <3>1, TupleTexts
    <3>4. \A i \in 1 .. Len(u) - 1 : Inside(u[i])
      BY <2>3, <3>3
    <3>5. Fits(u)
      BY <3>2, <3>3, <3>4
    <3> QED
      BY <3>1, <3>5
  <2> HIDE DEF Fits
  <2>4. /\ \A m \in {CMP, SUB}, d \in 0 .. 9 : \A r : Inside(Op(m, d, r))
        /\ \A m \in {STC, CLC} : Inside(Op(m, 0, 0))
        /\ Inside(Mvrd(0, 0)) /\ Inside(Mvrd(0, 1)) /\ Inside(Mvrd(1, 1))
    BY InsideLines, MoreKinds
  <2>5. /\ \A d \in Drawn : Fits(ComparedTo(<<d, d>>, JRZ))
        /\ \A p \in DistinctPairs : Fits(ComparedTo(p, JRNZ))
        /\ \A p \in DistinctPairs, jump \in BranchOps : Fits(ComparedTo(p, jump))
    <3>1. /\ \A d \in Drawn : Inside(Op(CMP, d, d))
          /\ \A p \in DistinctPairs : Inside(Op(CMP, p[1], p[2]))
      BY <1>1, <2>4
    <3> QED
      BY <2>2, <3>1, MoreKinds DEF ComparedTo
  <2> DEFINE stc  == <<Op(STC, 0, 0), To(JRC, Skip)>>
             clc  == <<Op(CLC, 0, 0), To(JRNC, Skip)>>
             neg  == <<Mvrd(0, 0), Mvrd(1, 1), Op(SUB, 0, 1), To(JRS, Skip)>>
             zero == <<Mvrd(0, 1), Mvrd(1, 1), Op(CMP, 0, 1), To(JRNS, Skip)>>
             any  == {ComparedTo(p, jump) : p \in DistinctPairs, jump \in BranchOps}
  <2>6. Fits(stc) /\ Fits(clc) /\ Fits(neg) /\ Fits(zero)
    BY <2>2, <2>3, <2>4, MoreKinds
  <2>7. Condition \in {{ComparedTo(<<d, d>>, JRZ) : d \in Drawn},
                      {ComparedTo(p, JRNZ) : p \in DistinctPairs}, {stc}, {clc}, {neg}, {zero}, any}
    BY DEF Condition
  <2>8. \A x \in any : Fits(x)
    BY <2>5
  <2> HIDE DEF stc, clc, neg, zero, any
  <2>9. Fits(condition)
    BY <2>1, <2>5, <2>6, <2>7, <2>8
  <2>10. PassedOver(mn) = <<Op(mn, 0, 0), EndOf(blocks)>>
    BY DEF PassedOver, EndOf, Skip
  <2>11. Inside(Op(mn, 0, 0))
    BY <2>1, <2>4
  <2>12. BlockText(condition \o <<Op(mn, 0, 0), EndOf(blocks)>>, blocks)
    BY <2>9, <2>11, FlagBlock DEF Fits
  <2> QED
    BY <2>1, <2>10, <2>12, Zenon
<1> QED
  BY <1>2, <1>3, <1>4, <1>5
-----------------------------------------------------------------------------
(* The opening.                                                            *)
Opening(lines) ==
  lines \in Seq(Range(lines)) /\ \A i \in 1 .. Len(lines) : Early(lines[i])

LEMMA OpeningOfLines ==
  ASSUME NEW S, NEW s \in Seq(S), \A l \in S : Early(l)
  PROVE  Opening(s)
<1>1. /\ Len(s) \in Nat /\ s \in [1 .. Len(s) -> S] /\ DOMAIN s = 1 .. Len(s)
  BY LenProperties
<1>2. s \in Seq(Range(s))
  BY <1>1 DEF Range
<1> QED
  BY <1>1, <1>2 DEF Opening

LEMMA OpeningConcat ==
  ASSUME NEW s, NEW t, Opening(s), Opening(t)
  PROVE  Opening(s \o t)
<1>1. PICK u : u = s \o t
  OBVIOUS
<1>2. /\ u \in Seq(Range(u)) /\ Len(s) \in Nat /\ Len(t) \in Nat /\ Len(u) = Len(s) + Len(t)
      /\ \A i \in 1 .. Len(s) : u[i] = s[i]
      /\ \A i \in Len(s) + 1 .. Len(s) + Len(t) : i - Len(s) \in DOMAIN t /\ u[i] = t[i - Len(s)]
  BY <1>1, Concatenation DEF Opening
<1>3. DOMAIN t = 1 .. Len(t)
  BY LenProperties DEF Opening
<1>4. ASSUME NEW i \in 1 .. Len(u)
      PROVE  Early(u[i])
  <2>1. CASE i \in 1 .. Len(s)
    BY <1>2, <2>1 DEF Opening
  <2>2. CASE i \in Len(s) + 1 .. Len(s) + Len(t)
    BY <1>2, <1>3, <2>2 DEF Opening
  <2> QED
    BY <1>2, <2>1, <2>2
<1> QED
  BY <1>1, <1>2, <1>4 DEF Opening

LEMMA ShortOpenings ==
  /\ Opening(<<>>)
  /\ \A r, imm : Opening(<<Mvrd(r, imm)>>)
  /\ \A a, b, c : Early(a) /\ Early(b) /\ Early(c) => Opening(<<a, b, c>>)
<1>1. Opening(<<>>)
  BY EmptySeq, LenProperties DEF Opening
<1>2. ASSUME NEW a, NEW b, NEW c, Early(a), Early(b), Early(c)
      PROVE  Opening(<<a>>) /\ Opening(<<a, b, c>>)
  <2> DEFINE S == {a, b, c}
  <2>1. <<a>> \in Seq(S) /\ <<a, b, c>> \in Seq(S)
    OBVIOUS
  <2>2. \A l \in S : Early(l)
    BY <1>2
  <2> HIDE DEF S
  <2> QED
    BY <2>1, <2>2, OpeningOfLines
<1>3. \A r, imm : Early(Mvrd(r, imm))
  BY EarlyLines
<1> QED
  BY <1>1, <1>2, <1>3, Zenon

LEMMA SetupOpens ==
  ASSUME NEW n \in LoopCounts, NEW imm \in Immediates
  PROVE  LET lines == Setup(n, imm) IN LoopText(lines, Len(lines), Len(lines), 0)
<1>1. /\ \A r, v : Early(Mvrd(r, v))
      /\ \A d, r : Early(Op(STRR, d, r))
      /\ \A r : Early(Op(LDRR, 4, r))
  BY EarlyLines
<1>2. Opening(AddressSetup(n))
  BY <1>1, ShortOpenings DEF AddressSetup
<1>3. Opening(TargetedSetup)
  <2> DEFINE low  == If(Targeted({"mvrd_imm_zero", "test_zero", "cmp_zero"}), <<Mvrd(0, 0)>>)
             over == If(Targeted({"mvrd_imm_high", "add_overflow", "shl_sets_carry"}),
                        <<Mvrd(9, \h8001)>>)
             high == If(Targeted(MemoryBins), <<Mvrd(13, \hFF10)>>)
  <2>0. \A x : Opening(x) => \A condition : Opening(If(condition, x))
    BY ShortOpenings DEF If
  <2>1. Opening(low) /\ Opening(over) /\ Opening(high)
    <3>1. /\ Opening(<<Mvrd(0, 0)>>) /\ Opening(<<Mvrd(9, \h8001)>>) /\ Opening(<<Mvrd(13, \hFF10)>>)
      BY ShortOpenings
    <3> QED
      BY <2>0, <3>1
  <2>2. TargetedSetup = (low \o over) \o high
    BY DEF TargetedSetup
  <2> HIDE DEF low, over, high
  <2>3. Opening((low \o over) \o high)
    BY <2>1, OpeningConcat, Zenon
  <2> QED
    BY <2>2, <2>3, Zenon
<1>4. Opening(RegisterSetup(imm))
  <2> DEFINE first  == <<Mvrd(0, Imm(0, imm)), Mvrd(1, Imm(1, imm)), Op(STRR, 10, 1),
                         Mvrd(2, Imm(2, imm)), Op(STRR, 11, 2)>>
             second == [i \in 1 .. 7 |-> Mvrd(i + 2, Imm(i + 2, imm))]
             S == {Mvrd(0, Imm(0, imm)), Mvrd(1, Imm(1, imm)), Op(STRR, 10, 1),
                   Mvrd(2, Imm(2, imm)), Op(STRR, 11, 2)}
             T == {Mvrd(i + 2, Imm(i + 2, imm)) : i \in 1 .. 7}
  <2>1. first \in Seq(S) /\ \A l \in S : Early(l)
    BY <1>1
  <2>2. second \in Seq(T)
    BY IsASeq
  <2>3. \A l \in T : Early(l)
    BY <1>1
  <2>4. RegisterSetup(imm) = first \o second
    BY DEF RegisterSetup
  <2> HIDE DEF first, second, S, T
  <2>5. Opening(first) /\ Opening(second)
    BY <2>1, <2>2, <2>3, OpeningOfLines, Zenon
  <2> QED
    BY <2>4, <2>5, OpeningConcat
<1> DEFINE high == If(Targeted({"mem_addr_high"}),
                      <<Mvrd(13, \hFF10), Op(STRR, 13, 3), Op(LDRR, 4, 13)>>)
<1>5. Opening(high)
  BY <1>1, ShortOpenings DEF If
<1>6. Setup(n, imm) = (((AddressSetup(n) \o TargetedSetup) \o RegisterSetup(imm)) \o high)
                        \o <<Label(Loop)>>
  BY DEF Setup
<1> HIDE DEF high
<1>7. PICK s : s = ((AddressSetup(n) \o TargetedSetup) \o RegisterSetup(imm)) \o high
  OBVIOUS
<1>8. Opening(s)
  BY <1>2, <1>3, <1>4, <1>5, <1>7, OpeningConcat, Zenon
<1>9. PICK t, u : t = <<Label(Loop)>> /\ u = s \o t
  OBVIOUS
<1>10. t \in Seq(Range(t)) /\ Len(t) = 1 /\ t[1] = Label(Loop)
  BY <1>9, TupleTexts
<1>11. /\ u \in Seq(Range(u)) /\ Len(s) \in Nat /\ Len(u) = Len(s) + 1
       /\ \A i \in 1 .. Len(s) : u[i] = s[i]
       /\ u[Len(s) + 1] = Label(Loop)
  <2>1. s \in Seq(Range(s))
    BY <1>8 DEF Opening
  <2>2. /\ u \in Seq(Range(u)) /\ Len(s) \in Nat /\ Len(u) = Len(s) + Len(t)
        /\ \A i \in 1 .. Len(s) : u[i] = s[i]
        /\ \A i \in Len(s) + 1 .. Len(s) + Len(t) : u[i] = t[i - Len(s)]
    BY <1>9, <1>10, <2>1, Concatenation
  <2> QED
    BY <1>10, <2>2
<1>12. \A i \in 1 .. Len(u) - 1 : Early(u[i])
  BY <1>8, <1>11 DEF Opening
<1>13. LoopText(u, Len(u), Len(u), 0)
  <2>1. PICK m : m = Len(u)
    OBVIOUS
  <2>2. m \in Nat /\ 1 <= m /\ m <= m + 6 * 0 /\ u[m] = Label(Loop)
    BY <1>11, <2>1
  <2>3. m + 1 .. m = {}
    BY <2>2
  <2> QED
    BY <1>11, <1>12, <2>1, <2>2, <2>3 DEF LoopText
<1> QED
  BY <1>6, <1>7, <1>9, <1>13

-----------------------------------------------------------------------------
(* The loop grows block by block and is closed.                            *)
LEMMA EndsOfBlocks ==
  /\ \A k : EndOf(k).labels = {<<"SKIP", k>>} /\ EndOf(k).mnemonic = NoMnemonic
  /\ \A k, l : EndOf(k) = EndOf(l) => k = l
  /\ \A l, k : Straight(l) => l # EndOf(k)
  /\ \A l, j, k : Branching(l, j) => l # EndOf(k)
<1>1. ASSUME NEW k, NEW e, e = EndOf(k)
      PROVE  e.labels = {<<"SKIP", k>>} /\ e.mnemonic = NoMnemonic
  BY <1>1, LabelLine DEF EndOf
<1>2. ASSUME NEW k, NEW l, EndOf(k) = EndOf(l)
      PROVE  k = l
  <2>1. {<<"SKIP", k>>} = {<<"SKIP", l>>}
    BY <1>1, <1>2
  <2>2. PICK x, y : x = <<"SKIP", k>> /\ y = <<"SKIP", l>>
    OBVIOUS
  <2>3. x = y
    BY <2>1, <2>2
  <2>4. x[2] = k /\ y[2] = l
    BY <2>2
  <2> QED
    BY <2>3, <2>4
<1>3. ASSUME NEW l, NEW j, Branching(l, j)
      PROVE  l.labels = {}
  <2>1. PICK mn \in Branches : l = To(mn, <<"SKIP", j>>)
    BY <1>3 DEF Branching
  <2> QED
    BY <2>1, BranchKind, ToLine
<1>4. \A k : {<<"SKIP", k>>} # {}
  OBVIOUS
<1> QED
  BY <1>1, <1>2, <1>3, <1>4 DEF Straight

LEMMA LoopPrefix ==
  ASSUME NEW s, NEW m, NEW b, NEW n, LoopText(s, m, b, n),
         NEW u, u \in Seq(Range(u)), b <= Len(u), \A i \in 1 .. b : u[i] = s[i]
  PROVE  LoopText(u, m, b, n)
<1>1. /\ n \in Nat /\ m \in Nat /\ b \in Nat /\ 1 <= m /\ m <= b /\ b <= m + 6 * n
      /\ \A i \in 1 .. m - 1 : Early(s[i])
      /\ s[m] = Label(Loop)
      /\ \A i \in m + 1 .. b : BodyLine(s, b, n, i)
      /\ \A i, j \in m + 1 .. b : \A k : s[i] = EndOf(k) /\ s[j] = EndOf(k) => i = j
  BY DEF LoopText
<1>2. \A i \in 1 .. m - 1 : Early(u[i])
  BY <1>1
<1>3. u[m] = Label(Loop)
  BY <1>1
<1>4. ASSUME NEW i \in m + 1 .. b
      PROVE  BodyLine(u, b, n, i)
  <2>1. BodyLine(s, b, n, i) /\ i \in 1 .. b /\ u[i] = s[i]
    BY <1>1
  <2>2. i + 2 <= b => u[i + 2] = s[i + 2]
    BY <1>1
  <2> QED
    BY <2>1, <2>2 DEF BodyLine
<1>5. \A i, j \in m + 1 .. b : \A k : u[i] = EndOf(k) /\ u[j] = EndOf(k) => i = j
  BY <1>1
<1> QED
  BY <1>1, <1>2, <1>3, <1>4, <1>5 DEF LoopText

LEMMA LoopMore ==
  ASSUME NEW s, NEW t, NEW m, NEW n, LoopText(s, m, Len(s), n), BlockText(t, n)
  PROVE  LoopText(s \o t, m, Len(s \o t), n + 1)
<1>1. PICK u : u = s \o t
  OBVIOUS
<1>2. PICK b, c : b = Len(s) /\ c = Len(u)
  OBVIOUS
<1>3. /\ n \in Nat /\ m \in Nat /\ b \in Nat /\ 1 <= m /\ m <= b /\ b <= m + 6 * n
      /\ \A i \in 1 .. m - 1 : Early(s[i])
      /\ s[m] = Label(Loop)
      /\ \A i \in m + 1 .. b : BodyLine(s, b, n, i)
      /\ \A i, j \in m + 1 .. b : \A k : s[i] = EndOf(k) /\ s[j] = EndOf(k) => i = j
  BY <1>2 DEF LoopText
<1>4. Len(t) \in 1 .. 6 /\ \A i \in 1 .. Len(t) : BlockLine(t, i, n)
  BY DEF BlockText
<1>5. /\ u \in Seq(Range(u)) /\ c = b + Len(t)
      /\ \A i \in 1 .. b : u[i] = s[i]
      /\ \A i \in b + 1 .. c : u[i] = t[i - b]
  BY <1>1, <1>2, Concatenation DEF LoopText, BlockText
<1>6. \A i \in 1 .. m - 1 : Early(u[i])
  BY <1>3, <1>5
<1>7. u[m] = Label(Loop)
  BY <1>3, <1>5
<1>0. c \in Nat /\ b < c /\ c <= b + 6 /\ Len(t) \in Nat
  <2>1. PICK x \in 1 .. 6 : x = Len(t)
    BY <1>4
  <2>2. c = b + x
    BY <1>5, <2>1
  <2>3. b \in Nat /\ x \in Nat /\ 1 <= x /\ x <= 6
    BY <1>3
  <2>4. c \in Nat /\ b < c /\ c <= b + 6
    BY <2>2, <2>3
  <2> QED
    BY <2>1, <2>3, <2>4
<1>8. ASSUME NEW i \in m + 1 .. b
      PROVE  BodyLine(u, c, n + 1, i)
  <2>1. BodyLine(s, b, n, i) /\ u[i] = s[i]
    BY <1>3, <1>5
  <2>2. i + 2 <= b => u[i + 2] = s[i + 2] /\ i + 2 <= c
    BY <1>3, <1>4, <1>5
  <2>3. \A k \in 0 .. n - 1 : k \in 0 .. (n + 1) - 1
    BY <1>3
  <2> QED
    BY <2>1, <2>2, <2>3 DEF BodyLine
<1>9. ASSUME NEW i \in b + 1 .. c
      PROVE  BodyLine(u, c, n + 1, i)
  <2>1. PICK j \in 1 .. Len(t) : j = i - b
    BY <1>3, <1>4, <1>5
  <2>2. BlockLine(t, j, n) /\ u[i] = t[j]
    BY <1>4, <1>5, <2>1
  <2>3. j + 2 = Len(t) => u[i + 2] = t[j + 2] /\ i + 2 <= c
    <3>1. ASSUME j + 2 = Len(t)
          PROVE  i + 2 \in b + 1 .. c /\ (i + 2) - b = j + 2
      <4>1. i = b + j /\ c = (b + j) + 2
        BY <1>0, <1>3, <1>5, <2>1, <3>1
      <4> QED
        BY <1>0, <1>3, <2>1, <4>1
    <3>2. ASSUME j + 2 = Len(t)
          PROVE  i + 2 <= c
      BY <1>0, <3>1, <3>2
    <3>3. \A x \in b + 1 .. c : u[x] = t[x - b]
      BY <1>5
    <3> QED
      BY <3>1, <3>2, <3>3
  <2>4. n \in 0 .. (n + 1) - 1
    BY <1>3
  <2> QED
    BY <2>2, <2>3, <2>4 DEF BlockLine, BodyLine
<1>10. \A i \in m + 1 .. c : BodyLine(u, c, n + 1, i)
  BY <1>3, <1>4, <1>5, <1>8, <1>9
<1>11. ASSUME NEW i \in m + 1 .. b, NEW k, u[i] = EndOf(k)
       PROVE  k # n
  <2>1. BodyLine(s, b, n, i) /\ s[i] = EndOf(k)
    BY <1>3, <1>5, <1>11
  <2>2. \E l \in 0 .. n - 1 : s[i] = EndOf(l)
    BY <2>1, EndsOfBlocks DEF BodyLine, Inside
  <2>3. k \in 0 .. n - 1
    BY <2>1, <2>2, EndsOfBlocks
  <2> QED
    BY <1>3, <2>3
<1>12. ASSUME NEW i \in b + 1 .. c, NEW k, u[i] = EndOf(k)
       PROVE  k = n /\ i = c
  <2>1. PICK j \in 1 .. Len(t) : j = i - b
    BY <1>3, <1>4, <1>5
  <2>2. BlockLine(t, j, n) /\ t[j] = EndOf(k)
    BY <1>4, <1>5, <1>12, <2>1
  <2>3. j = Len(t) /\ t[j] = EndOf(n)
    BY <2>2, EndsOfBlocks DEF BlockLine, Inside
  <2>4. k = n
    BY <2>2, <2>3, EndsOfBlocks
  <2> QED
    BY <1>3, <1>4, <1>5, <2>1, <2>3, <2>4
<1>13. ASSUME NEW i \in m + 1 .. c, NEW j \in m + 1 .. c, NEW k, u[i] = EndOf(k), u[j] = EndOf(k)
       PROVE  i = j
  <2>1. \A x \in m + 1 .. c : x \in m + 1 .. b \/ x \in b + 1 .. c
    BY <1>0, <1>3
  <2>2. CASE i \in m + 1 .. b /\ j \in m + 1 .. b
    BY <1>3, <1>5, <1>13, <2>2
  <2> QED
    BY <1>11, <1>12, <1>13, <2>1, <2>2
<1>14. c \in Nat /\ m <= c /\ c <= m + 6 * (n + 1) /\ n + 1 \in Nat
  BY <1>0, <1>3
<1>15. LoopText(u, m, c, n + 1)
  BY <1>2, <1>3, <1>5, <1>6, <1>7, <1>10, <1>13, <1>14 DEF LoopText
<1> QED
  BY <1>1, <1>2, <1>15

LEMMA LoopEnd ==
  ASSUME NEW s, NEW m, NEW n, LoopText(s, m, Len(s), n), NEW v \in Int
  PROVE  LET lines == s \o Ending(v)
         IN  LoopText(lines, m, Len(lines) - 7, n) /\ Closed(lines, Len(lines) - 7)
<1> DEFINE halt == Line({Halt}, JR, 0, 0, Name(Halt))
<1>1. PICK t, u, b : t = Ending(v) /\ u = s \o t /\ b = Len(s)
  OBVIOUS
<1>2. /\ Len(t) = 7
      /\ t[1] = Op(DEC, 12, 0) /\ t[2] = To(JRNZ, Loop) /\ t[3] = Mvrd(13, v)
      /\ t[4] = To(JMPA, Exit) /\ t[5] = Mvrd(13, \hDEAD) /\ t[6] = Label(Exit) /\ t[7] = halt
  BY <1>1 DEF Ending
<1>3. t \in Seq(Range(t))
  <2> DEFINE S == {Op(DEC, 12, 0), To(JRNZ, Loop), Mvrd(13, v), To(JMPA, Exit), Mvrd(13, \hDEAD),
                   Label(Exit), halt}
  <2>1. t \in Seq(S)
    BY <1>1 DEF Ending
  <2> HIDE DEF S
  <2>2. t \in [1 .. Len(t) -> S] /\ DOMAIN t = 1 .. Len(t) /\ Len(t) \in Nat
    BY <2>1, LenProperties
  <2> QED
    BY <2>2 DEF Range
<1> HIDE DEF halt
<1>4. /\ u \in Seq(Range(u)) /\ b \in Nat /\ Len(u) = b + 7
      /\ \A i \in 1 .. b : u[i] = s[i]
      /\ \A i \in b + 1 .. b + 7 : u[i] = t[i - b]
  <2>1. s \in Seq(Range(s))
    BY DEF LoopText
  <2>2. /\ u \in Seq(Range(u)) /\ Len(s) \in Nat /\ Len(u) = Len(s) + Len(t)
        /\ \A i \in 1 .. Len(s) : u[i] = s[i]
        /\ \A i \in Len(s) + 1 .. Len(s) + Len(t) : u[i] = t[i - Len(s)]
    BY <1>1, <1>3, <2>1, Concatenation
  <2> QED
    BY <1>1, <1>2, <2>2
<1>5. /\ u[b + 1] = t[1] /\ u[b + 2] = t[2] /\ u[b + 3] = t[3] /\ u[b + 4] = t[4]
      /\ u[b + 5] = t[5] /\ u[b + 6] = t[6] /\ u[b + 7] = t[7]
  <2>1. \A k \in 1 .. 7 : b + k \in b + 1 .. b + 7 /\ (b + k) - b = k
    BY <1>4
  <2>2. \A k \in 1 .. 7 : u[b + k] = t[k]
    BY <1>4, <2>1
  <2> QED
    BY <2>2
<1>6. Closed(u, b)
  BY <1>2, <1>4, <1>5 DEF Closed, halt
<1>7. LoopText(u, m, b, n)
  <2>1. b <= Len(u) /\ LoopText(s, m, b, n)
    BY <1>1, <1>4
  <2> QED
    BY <1>4, <2>1, LoopPrefix
<1>8. Len(u) - 7 = b
  BY <1>4
<1> QED
  BY <1>1, <1>6, <1>7, <1>8, Zenon

(* What the generator has emitted.                                         *)
LoopInv ==
  /\ phase = "generate" /\ source # <<>> => \E m : LoopText(source, m, Len(source), blocks)
  /\ phase # "generate" /\ Generated =>
       \E m : LoopText(source, m, Len(source) - 7, body_ops) /\ Closed(source, Len(source) - 7)

LEMMA LoopInvStep ==
  ASSUME LoopInv, GenInv, [RandomNext]_randomVars
  PROVE  LoopInv'
<1>1. CASE EmitSetup
  <2>1. phase' = "generate" /\ blocks' = 0
    BY <1>1 DEF EmitSetup, GenInv, Shaped
  <2>2. PICK n \in LoopCounts, imm \in Immediates : source' = Setup(n, imm)
    BY <1>1 DEF EmitSetup
  <2>3. PICK t : t = Setup(n, imm)
    OBVIOUS
  <2>4. LoopText(t, Len(t), Len(t), 0)
    BY <2>3, SetupOpens
  <2> QED
    BY <2>1, <2>2, <2>3, <2>4 DEF LoopInv
<1>2. CASE EmitBlock
  <2>1. /\ phase = "generate" /\ phase' = "generate" /\ source # <<>> /\ blocks' = blocks + 1
    BY <1>2 DEF EmitBlock
  <2>2. PICK m : LoopText(source, m, Len(source), blocks)
    BY <2>1 DEF LoopInv
  <2>3. PICK lines \in ArithBlocks \cup UnaryBlocks \cup MemBlocks \cup FlagBranchBlocks :
          source' = source \o lines
    BY <1>2 DEF EmitBlock
  <2>4. PICK t : t = source \o lines
    OBVIOUS
  <2>5. BlockText(lines, blocks)
    BY EmittedBlocks
  <2>6. LoopText(t, m, Len(t), blocks + 1)
    BY <2>2, <2>4, <2>5, LoopMore
  <2> QED
    BY <2>1, <2>3, <2>4, <2>6 DEF LoopInv
<1>3. CASE EmitEnd
  <2>1. /\ phase = "generate" /\ phase' = "place" /\ source # <<>> /\ blocks = body_ops /\ blocks' = blocks
    BY <1>3 DEF EmitEnd
  <2>2. PICK m : LoopText(source, m, Len(source), blocks)
    BY <2>1 DEF LoopInv
  <2>3. PICK imm \in Immediates : source' = source \o Ending(imm[0])
    BY <1>3 DEF EmitEnd
  <2>4. imm[0] \in Int
    BY GeneratorAssumption DEF Word
  <2>5. PICK t : t = source \o Ending(imm[0])
    OBVIOUS
  <2>6. LoopText(t, m, Len(t) - 7, blocks) /\ Closed(t, Len(t) - 7)
    BY <2>2, <2>4, <2>5, LoopEnd
  <2> QED
    BY <2>1, <2>3, <2>5, <2>6 DEF LoopInv
<1>4. CASE Translate
  <2>1. UNCHANGED <<source, blocks>>
    BY <1>4 DEF Translate, RunNext, Assemble, Execute, load_hex, asmVars,
       Place, PlaceFails, BuildLabelTable, Encode, EncodeFails, WriteHex
  <2>2. phase # "generate" /\ phase' # "generate"
    BY <1>4 DEF Translate, RunNext, Assemble, Execute, load_hex, asmVars,
       Place, PlaceFails, BuildLabelTable, Encode, EncodeFails, WriteHex
  <2> QED
    BY <2>1, <2>2 DEF LoopInv, Generated
<1>5. CASE UNCHANGED randomVars
  BY <1>5 DEF randomVars, asmIsaVars, asmVars, LoopInv, Generated
<1> QED
  BY <1>1, <1>2, <1>3, <1>4, <1>5 DEF RandomNext

LEMMA LoopInvariant == RandomSpec => []LoopInv
<1>1. RandomInit => LoopInv
  BY RoomForProgram DEF RandomInit, GenInit, Written, RunInit, AsmInit, LoopInv, Generated
<1>2. Prepared /\ LoopInv /\ [RandomNext]_randomVars => LoopInv'
  BY LoopInvStep DEF Prepared
<1> QED
  BY <1>1, <1>2, PreparedInvariant, PTL DEF RandomSpec

-----------------------------------------------------------------------------
(* Each label is borne by one line, so a name denotes that line.           *)
LoopedText(lines, m, b, n) == LoopText(lines, m, b, n) /\ Closed(lines, b)

LEMMA DistinctLabels ==
  /\ Loop # Exit /\ Loop # Halt /\ Exit # Halt
  /\ \A k : <<"SKIP", k>> \notin {Loop, Exit, Halt}
  /\ \A k, l : <<"SKIP", k>> = <<"SKIP", l>> => k = l
<1>1. ASSUME NEW a, NEW b, NEW k, NEW l, <<a, k>> = <<b, l>>
      PROVE  a = b /\ k = l
  <2>1. PICK x, y : x = <<a, k>> /\ y = <<b, l>>
    OBVIOUS
  <2>2. x[1] = a /\ x[2] = k /\ y[1] = b /\ y[2] = l /\ x = y
    BY <1>1, <2>1
  <2> QED
    BY <2>2
<1>2. /\ "LOOP" # "EXIT" /\ "LOOP" # "HALT" /\ "EXIT" # "HALT"
      /\ "SKIP" # "LOOP" /\ "SKIP" # "EXIT" /\ "SKIP" # "HALT"
  OBVIOUS
<1> QED
  BY <1>1, <1>2, ZenonT(40) DEF Loop, Exit, Halt

LEMMA LabelsOfLines ==
  ASSUME NEW lines, NEW m, NEW b, NEW n, LoopedText(lines, m, b, n), NEW i \in 1 .. Len(lines)
  PROVE  \/ lines[i].labels = {}
         \/ i = m /\ lines[i].labels = {Loop}
         \/ i \in m + 1 .. b /\ \E k : lines[i] = EndOf(k) /\ lines[i].labels = {<<"SKIP", k>>}
         \/ i = b + 6 /\ lines[i].labels = {Exit}
         \/ i = b + 7 /\ lines[i].labels = {Halt}
<1>1. /\ m \in Nat /\ b \in Nat /\ 1 <= m /\ m <= b /\ Len(lines) = b + 7
      /\ \A j \in 1 .. m - 1 : Early(lines[j])
      /\ lines[m] = Label(Loop)
      /\ \A j \in m + 1 .. b : BodyLine(lines, b, n, j)
  BY DEF LoopedText, LoopText, Closed
<1>2. CASE i \in 1 .. m - 1
  BY <1>1, <1>2 DEF Early, Straight
<1>3. CASE i = m
  BY <1>1, <1>3, LabelLine
<1>4. CASE i \in m + 1 .. b
  <2>1. CASE Inside(lines[i])
    BY <2>1 DEF Inside, Straight
  <2>2. ASSUME NEW k, Branching(lines[i], k)
        PROVE  lines[i].labels = {}
    BY <2>2, BranchKind, ToLine DEF Branching
  <2>3. ASSUME NEW k, lines[i] = EndOf(k)
        PROVE  lines[i].labels = {<<"SKIP", k>>}
    BY <2>3, EndsOfBlocks
  <2>4. BodyLine(lines, b, n, i)
    BY <1>1, <1>4
  <2> QED
    BY <1>4, <2>1, <2>2, <2>3, <2>4 DEF BodyLine
<1>5. CASE i = b + 1 \/ i = b + 3 \/ i = b + 5
  <2>1. DEC \in PlainOps
    BY PlainRegisterOps DEF RegisterOps
  <2>2. \/ lines[i] = Op(DEC, 12, 0)
        \/ \E imm : lines[i] = Mvrd(13, imm)
    BY <1>5 DEF LoopedText, Closed
  <2>3. Straight(lines[i])
    BY <2>1, <2>2, StraightLines
  <2> QED
    BY <2>3 DEF Straight
<1>6. CASE i = b + 2 \/ i = b + 4
  <2>1. \E mn \in Defined : \E label : lines[i] = To(mn, label)
    <3>1. JRNZ \in Defined /\ JMPA \in Defined
      BY DEF Defined, Branches, Extended
    <3> QED
      BY <1>6, <3>1 DEF LoopedText, Closed
  <2> QED
    BY <2>1, ToLine
<1>7. CASE i = b + 6
  BY <1>7, LabelLine DEF LoopedText, Closed
<1>8. CASE i = b + 7
  BY <1>8, FieldsOfLine DEF LoopedText, Closed
<1>9. \/ i \in 1 .. m - 1 \/ i = m \/ i \in m + 1 .. b
      \/ i = b + 1 \/ i = b + 2 \/ i = b + 3 \/ i = b + 4 \/ i = b + 5 \/ i = b + 6 \/ i = b + 7
  BY <1>1
<1> QED
  BY <1>2, <1>3, <1>4, <1>5, <1>6, <1>7, <1>8, <1>9

LEMMA BorneOnce ==
  ASSUME NEW lines, NEW m, NEW b, NEW n, LoopedText(lines, m, b, n)
  PROVE  /\ Bearing(lines, Loop) = {m}
         /\ Bearing(lines, Exit) = {b + 6} /\ Bearing(lines, Halt) = {b + 7}
         /\ \A j \in m + 1 .. b : \A k : lines[j] = EndOf(k) => Bearing(lines, <<"SKIP", k>>) = {j}
<1>1. /\ m \in Nat /\ b \in Nat /\ 1 <= m /\ m <= b /\ Len(lines) = b + 7
      /\ lines \in Seq(Range(lines)) /\ lines[m] = Label(Loop)
      /\ \A i, j \in m + 1 .. b : \A k : lines[i] = EndOf(k) /\ lines[j] = EndOf(k) => i = j
      /\ lines[b + 6] = Label(Exit) /\ lines[b + 7] = Line({Halt}, JR, 0, 0, Name(Halt))
  BY DEF LoopedText, LoopText, Closed
<1>2. DOMAIN lines = 1 .. b + 7
  BY <1>1, LenProperties
<1>3. lines[m].labels = {Loop} /\ lines[b + 6].labels = {Exit} /\ lines[b + 7].labels = {Halt}
  BY <1>1, LabelLine, FieldsOfLine
<1>4. \A i \in 1 .. b + 7 :
        \/ lines[i].labels = {}
        \/ i = m /\ lines[i].labels = {Loop}
        \/ i \in m + 1 .. b /\ \E k : lines[i] = EndOf(k) /\ lines[i].labels = {<<"SKIP", k>>}
        \/ i = b + 6 /\ lines[i].labels = {Exit}
        \/ i = b + 7 /\ lines[i].labels = {Halt}
  BY <1>1, LabelsOfLines
<1>5. m \in 1 .. b + 7 /\ b + 6 \in 1 .. b + 7 /\ b + 7 \in 1 .. b + 7
  BY <1>1
<1>6. Bearing(lines, Loop) = {m}
  BY <1>2, <1>3, <1>4, <1>5, DistinctLabels DEF Bearing
<1>7. Bearing(lines, Exit) = {b + 6}
  BY <1>2, <1>3, <1>4, <1>5, DistinctLabels DEF Bearing
<1>8. Bearing(lines, Halt) = {b + 7}
  BY <1>2, <1>3, <1>4, <1>5, DistinctLabels DEF Bearing
<1>9. ASSUME NEW j \in m + 1 .. b, NEW k, lines[j] = EndOf(k)
      PROVE  Bearing(lines, <<"SKIP", k>>) = {j}
  <2>1. j \in 1 .. b + 7 /\ lines[j].labels = {<<"SKIP", k>>}
    BY <1>1, <1>9, EndsOfBlocks
  <2>2. ASSUME NEW i \in 1 .. b + 7, <<"SKIP", k>> \in lines[i].labels
        PROVE  i = j
    <3>1. i \in m + 1 .. b /\ \E l : lines[i] = EndOf(l) /\ lines[i].labels = {<<"SKIP", l>>}
      BY <1>4, <2>2, DistinctLabels
    <3>2. lines[i] = EndOf(k)
      BY <2>2, <3>1, DistinctLabels
    <3> QED
      BY <1>1, <1>9, <3>1, <3>2
  <2> QED
    BY <1>2, <2>1, <2>2 DEF Bearing
<1> QED
  BY <1>6, <1>7, <1>8, <1>9

(* The jumps of a generated text: line i names line j.                     *)
Jumps(m, b, i, j) ==
  \/ i \in m + 1 .. b /\ j = i + 2 /\ j <= b /\ source[i].mnemonic \in Branches
  \/ i = b + 2 /\ j = m /\ source[i].mnemonic = JRNZ
  \/ i = b + 4 /\ j = b + 6 /\ source[i].mnemonic = JMPA
  \/ i = b + 7 /\ j = b + 7 /\ source[i].mnemonic = JR

Names(i, j) ==
  source[i].target.kind = "name" /\ Bearing(source, source[i].target.label) = {j}

LEMMA LinesOfText ==
  ASSUME NEW m, NEW b, NEW n, LoopedText(source, m, b, n), NEW i \in Lines
  PROVE  \/ Straight(source[i])
         \/ ~IsInstruction(i)
         \/ source[i].wellFormed /\ \E j \in Lines : Names(i, j) /\ Jumps(m, b, i, j)
<1>1. /\ m \in Nat /\ b \in Nat /\ 1 <= m /\ m <= b /\ Len(source) = b + 7
      /\ \A j \in 1 .. m - 1 : Early(source[j])
      /\ source[m] = Label(Loop)
      /\ \A j \in m + 1 .. b : BodyLine(source, b, n, j)
  BY DEF LoopedText, LoopText, Closed
<1>2. /\ Bearing(source, Loop) = {m} /\ Bearing(source, Exit) = {b + 6} /\ Bearing(source, Halt) = {b + 7}
      /\ \A j \in m + 1 .. b : \A k : source[j] = EndOf(k) => Bearing(source, <<"SKIP", k>>) = {j}
  BY BorneOnce
<1>3. Lines = 1 .. b + 7
  BY <1>1 DEF Lines
<1>4. ASSUME NEW mn \in Branches \cup {JMPA}, NEW label, source[i] = To(mn, label)
      PROVE  /\ source[i].mnemonic = mn /\ source[i].wellFormed
             /\ source[i].target.kind = "name" /\ source[i].target.label = label
  <2>1. mn \in Defined
    BY BranchKind DEF Defined, Extended
  <2>2. To(mn, label).wellFormed
    BY DEF To, Line
  <2> QED
    BY <1>4, <2>1, <2>2, ToLine
<1>5. ASSUME NEW label, source[i] = Label(label)
      PROVE  ~IsInstruction(i)
  BY <1>5, LabelLine DEF IsInstruction
<1>6. CASE i \in 1 .. m - 1
  BY <1>1, <1>6 DEF Early
<1>7. CASE i = m
  BY <1>1, <1>5, <1>7
<1>8. CASE i \in m + 1 .. b
  <2>1. ASSUME NEW k, i + 2 <= b, Branching(source[i], k), source[i + 2] = EndOf(k)
        PROVE  source[i].wellFormed /\ \E j \in Lines : Names(i, j) /\ Jumps(m, b, i, j)
    <3>1. PICK j : j = i + 2
      OBVIOUS
    <3>2. j \in m + 1 .. b /\ j \in Lines
      BY <1>1, <1>3, <1>8, <2>1, <3>1
    <3>3. Bearing(source, <<"SKIP", k>>) = {j}
      BY <1>2, <2>1, <3>1, <3>2
    <3>4. PICK mn \in Branches : source[i] = To(mn, <<"SKIP", k>>)
      BY <2>1 DEF Branching
    <3>5. source[i].mnemonic = mn /\ source[i].wellFormed /\ Names(i, j)
      BY <1>4, <3>3, <3>4 DEF Names
    <3> QED
      BY <1>8, <2>1, <3>1, <3>2, <3>5 DEF Jumps
  <2>2. BodyLine(source, b, n, i)
    BY <1>1, <1>8
  <2> QED
    BY <1>5, <2>1, <2>2 DEF BodyLine, Inside, EndOf
<1>9. CASE i = b + 1 \/ i = b + 3 \/ i = b + 5
  <2>1. DEC \in PlainOps
    BY PlainRegisterOps DEF RegisterOps
  <2>2. \/ source[i] = Op(DEC, 12, 0)
        \/ \E imm : source[i] = Mvrd(13, imm)
    BY <1>9 DEF LoopedText, Closed
  <2> QED
    BY <2>1, <2>2, StraightLines
<1>10. CASE i = b + 2
  <2>1. source[i] = To(JRNZ, Loop) /\ JRNZ \in Branches
    BY <1>10 DEF LoopedText, Closed, Branches
  <2>2. source[i].mnemonic = JRNZ /\ source[i].wellFormed /\ Names(i, m)
    BY <1>2, <1>4, <2>1 DEF Names
  <2> QED
    BY <1>1, <1>3, <1>10, <2>2 DEF Jumps
<1>11. CASE i = b + 4
  <2>1. source[i] = To(JMPA, Exit)
    BY <1>11 DEF LoopedText, Closed
  <2>2. source[i].mnemonic = JMPA /\ source[i].wellFormed /\ Names(i, b + 6)
    BY <1>2, <1>4, <2>1 DEF Names
  <2> QED
    BY <1>1, <1>3, <1>11, <2>2 DEF Jumps
<1>12. CASE i = b + 6
  BY <1>5, <1>12 DEF LoopedText, Closed
<1>13. CASE i = b + 7
  <2>1. source[i] = Line({Halt}, JR, 0, 0, Name(Halt))
    BY <1>13 DEF LoopedText, Closed
  <2>2. source[i].mnemonic = JR /\ source[i].target = Name(Halt) /\ source[i].wellFormed
    BY <2>1 DEF Line
  <2>3. Names(i, b + 7)
    BY <1>2, <2>2 DEF Names, Name
  <2> QED
    BY <1>1, <1>3, <1>13, <2>2, <2>3 DEF Jumps
<1>14. \/ i \in 1 .. m - 1 \/ i = m \/ i \in m + 1 .. b
       \/ i = b + 1 \/ i = b + 2 \/ i = b + 3 \/ i = b + 4 \/ i = b + 5 \/ i = b + 6 \/ i = b + 7
  BY <1>1, <1>3
<1> QED
  BY <1>6, <1>7, <1>8, <1>9, <1>10, <1>11, <1>12, <1>13, <1>14

LEMMA NamedTarget ==
  ASSUME NEW i, NEW j, Names(i, j)
  PROVE  /\ ~Unresolved(i)
         /\ address[j] \in Nat => Target(i) = address[j]
<1>1. source[i].target.kind = "name" /\ Bearing(source, source[i].target.label) = {j}
  BY DEF Names
<1>2. Candidates(source[i].target, address[i]) = label_table(source[i].target.label)
  BY <1>1, Zenon DEF Candidates
<1>3. label_table(source[i].target.label) = {address[j]}
  BY <1>1 DEF label_table
<1>4. ~Unresolved(i)
  BY <1>2, <1>3 DEF Unresolved
<1>5. ASSUME address[j] \in Nat
      PROVE  Target(i) = address[j]
  <2>1. Least({address[j]}) = address[j]
    BY <1>5 DEF Least
  <2> QED
    BY <1>1, <1>2, <1>3, <2>1 DEF Target, resolve_target
<1> QED
  BY <1>4, <1>5

(* Lines are at most two words apart.                                      *)
LEMMA AddressesApart ==
  ASSUME AsmInv, Placed, NEW i \in 1 .. Len(source) + 1, NEW j \in 1 .. Len(source) + 1, i <= j
  PROVE  address[j] <= address[i] + 2 * (j - i)
<1>1. PICK P : P = {k \in Nat : i + k <= Len(source) + 1 => address[i + k] <= address[i] + 2 * k}
  OBVIOUS
<1>2. Len(source) \in Nat /\ address[i] \in Nat
  BY PlacedLines
<1>3. 0 \in P
  BY <1>1, <1>2
<1>4. ASSUME NEW k \in P
      PROVE  k + 1 \in P
  <2>1. k \in Nat
    BY <1>1
  <2>2. ASSUME i + (k + 1) <= Len(source) + 1
        PROVE  address[i + (k + 1)] <= address[i] + 2 * (k + 1)
    <3>1. i + k \in Lines /\ i + k <= Len(source) + 1 /\ (i + k) + 1 = i + (k + 1)
      BY <1>2, <2>1, <2>2 DEF Lines
    <3>2. /\ address[(i + k) + 1] = address[i + k] + SizeOf(i + k) /\ SizeOf(i + k) \in {0, 1, 2}
          /\ address[i + k] \in Nat
      BY <1>2, <3>1, PlacedLines DEF Lines
    <3>3. address[i + k] <= address[i] + 2 * k
      BY <1>1, <2>1, <3>1
    <3> QED
      BY <1>2, <2>1, <3>1, <3>2, <3>3
  <2> QED
    BY <1>1, <2>1, <2>2
<1>5. P = Nat
  BY <1>1, <1>3, <1>4, NumberInduction
<1>6. PICK k \in Nat : k = j - i
  BY <1>2
<1>7. i + k = j /\ k \in P
  BY <1>2, <1>5, <1>6
<1> QED
  BY <1>1, <1>6, <1>7

(* Everything in a generated text can be encoded.                          *)
LEMMA NothingRejected ==
  ASSUME AsmInv, Placed, body_ops <= 10, NEW m, NEW b, LoopedText(source, m, b, body_ops), NEW i \in Lines
  PROVE  ~Rejected(i)
<1>1. /\ m \in Nat /\ b \in Nat /\ 1 <= m /\ m <= b /\ b <= m + 6 * body_ops
      /\ source[m] = Label(Loop) /\ source[b + 1] = Op(DEC, 12, 0)
      /\ Len(source) = b + 7 /\ body_ops \in Nat
  BY DEF LoopedText, LoopText, Closed
<1>2. /\ Lines = 1 .. b + 7
      /\ \A j \in 1 .. b + 8 : address[j] \in Nat
      /\ \A j \in Lines : /\ source[j].mnemonic \in Known
                          /\ address[j + 1] = address[j] + SizeOf(j)
                          /\ SizeOf(j) = 0 <=> ~IsInstruction(j)
  <2>1. (b + 7) + 1 = b + 8
    BY <1>1
  <2> QED
    BY <1>1, <2>1, PlacedLines DEF Lines
<1>3. CASE ~IsInstruction(i)
  <2>1. NoMnemonic \notin TakesTarget /\ NoMnemonic \notin Branches \cup {CALLA}
    BY LabelKind, KindsOfLine DEF TakesTarget, Known
  <2> QED
    BY <1>3, <2>1 DEF IsInstruction, Rejected, Unresolved, Relative
<1>4. CASE Straight(source[i])
  <2>1. \A mn \in PlainOps : mn \notin TakesTarget /\ mn \notin Branches \cup {CALLA}
    BY DEF PlainOps, TakesTarget, Extended
  <2>2. MVRD \notin Branches \cup {CALLA}
    BY MvrdKind DEF MVRD, CALLA
  <2>3. source[i].mnemonic = MVRD => Candidates(source[i].target, address[i]) = {source[i].target.value}
    BY <1>4, Zenon DEF Straight, Candidates
  <2> QED
    BY <1>4, <2>1, <2>2, <2>3 DEF Straight, Rejected, Unresolved, Relative
<1>5. ASSUME source[i].wellFormed, NEW j \in Lines, Names(i, j), Jumps(m, b, i, j)
      PROVE  ~Rejected(i)
  <2>0. i \in 1 .. b + 8 /\ j \in 1 .. b + 8 /\ b + 8 = Len(source) + 1
    <3>1. \A x \in 1 .. b + 7 : x \in 1 .. b + 8
      BY <1>1
    <3> QED
      BY <1>1, <1>2, <3>1
  <2>1. address[j] \in Nat /\ address[i] \in Nat
    BY <1>2, <2>0
  <2>2. ~Unresolved(i) /\ Target(i) = address[j]
    BY <1>5, <2>1, NamedTarget
  <2>3. ASSUME NEW d \in -127 .. 128, source[i].mnemonic \in Branches, address[j] = address[i] + d
        PROVE  OffsetFits(i)
    <3>1. source[i].mnemonic # CALLA
      BY <2>3 DEF Branches, CALLA, JR, JRS, JRNS, JRC, JRNC, JRZ, JRNZ
    <3>2. Offset(i) = address[j] - address[i] - 1
      BY <2>2, <3>1 DEF Offset
    <3> QED
      BY <2>1, <2>3, <3>2 DEF OffsetFits
  <2>4. CASE i \in m + 1 .. b /\ j = i + 2 /\ j <= b /\ source[i].mnemonic \in Branches
    <3>1. address[i] <= address[j] /\ address[j] <= address[i] + 2 * (j - i)
      <4>1. i <= j
        BY <1>1, <2>4
      <4> QED
        BY <2>0, <4>1, AddressesGrow, AddressesApart
    <3>2. PICK d : d = address[j] - address[i]
      OBVIOUS
    <3>3. d \in -127 .. 128 /\ address[j] = address[i] + d
      <4>1. j - i = 2
        BY <1>1, <2>4
      <4> QED
        BY <2>1, <3>1, <3>2, <4>1
    <3> QED
      BY <2>2, <2>3, <2>4, <3>3, <1>5 DEF Rejected
  <2>5. CASE i = b + 2 /\ j = m /\ source[i].mnemonic = JRNZ
    <3>1. address[m + 1] = address[m]
      <4>0. source[m].mnemonic = NoMnemonic
        BY <1>1, LabelLine
      <4>1. m \in Lines /\ ~IsInstruction(m)
        BY <1>1, <1>2, <4>0 DEF IsInstruction
      <4> QED
        BY <1>2, <2>1, <2>5, <4>1
    <3>2. address[b + 1] <= address[m + 1] + 2 * ((b + 1) - (m + 1)) /\ address[m + 1] <= address[b + 1]
      BY <1>1, AddressesApart, AddressesGrow
    <3>3. address[b + 2] = address[b + 1] + 1
      <4>1. source[b + 1].mnemonic = DEC /\ DEC \in PlainOps /\ DEC \in Defined
        <5>1. DEC \in PlainOps
          BY PlainRegisterOps DEF RegisterOps
        <5> QED
          BY <1>1, <5>1, StraightLines DEF PlainOps
      <4>2. SizeOf(b + 1) = 1
        BY <4>1, KindsOfInstruction DEF SizeOf
      <4>3. b + 1 \in Lines /\ (b + 1) + 1 = b + 2
        BY <1>1, <1>2
      <4> QED
        BY <1>2, <4>2, <4>3
    <3>4. PICK d : d = address[m] - address[b + 2]
      OBVIOUS
    <3>5. address[m] \in Nat /\ address[b + 1] \in Nat /\ address[b + 2] \in Nat
      BY <1>1, <1>2
    <3>6. d \in -127 .. 128 /\ address[j] = address[i] + d
      <4>1. (b + 1) - (m + 1) <= 60 /\ (b + 1) - (m + 1) \in Nat
        BY <1>1
      <4>2. PICK x \in Nat : x = (b + 1) - (m + 1)
        BY <4>1
      <4>3. d <= 0 /\ d >= -121 /\ d \in Int
        BY <3>1, <3>2, <3>3, <3>4, <3>5, <4>1, <4>2
      <4> QED
        BY <2>5, <3>4, <3>5, <4>3
    <3>7. source[i].mnemonic \in Branches
      BY <2>5 DEF Branches
    <3> QED
      BY <2>2, <2>3, <3>6, <3>7, <1>5 DEF Rejected
  <2>6. CASE i = b + 4 /\ j = b + 6 /\ source[i].mnemonic = JMPA
    <3>1. JMPA \notin Branches \cup {CALLA}
      BY DEF Branches, CALLA, JMPA, JR, JRS, JRNS, JRC, JRNC, JRZ, JRNZ
    <3> QED
      BY <1>5, <2>2, <2>6, <3>1 DEF Rejected, Relative
  <2>7. CASE i = b + 7 /\ j = b + 7 /\ source[i].mnemonic = JR
    <3>1. source[i].mnemonic \in Branches
      BY <2>7 DEF Branches
    <3>2. address[j] = address[i] + 0 /\ 0 \in -127 .. 128
      BY <2>1, <2>7
    <3>3. OffsetFits(i)
      BY <2>3, <3>1, <3>2
    <3> QED
      BY <2>2, <3>3, <1>5 DEF Rejected
  <2> QED
    BY <1>5, <2>4, <2>5, <2>6, <2>7 DEF Jumps
<1> QED
  BY <1>3, <1>4, <1>5, LinesOfText

(* The assembler accepts every program of the generator (its own            *)
(* description: bounded random assembly tests): whatever was drawn, each   *)
(* target is known and within reach, for up to the ten blocks that         *)
(* run_regression.sh asks for by default.                                  *)
THEOREM GeneratedAccepted ==
  ASSUME body_ops <= 10
  PROVE  RandomSpec => [](Generated => phase # "error")
<1> DEFINE Accepted == Generated => phase # "error"
<1>1. RandomInit => Accepted
  BY DEF RandomInit, GenInit, Written, RunInit, AsmInit
<1>2. ASSUME Prepared, LoopInv, Accepted, [RandomNext]_randomVars
      PROVE  Accepted'
  <2>1. CASE EmitSetup \/ EmitBlock \/ EmitEnd
    BY <2>1 DEF EmitSetup, EmitBlock, EmitEnd
  <2>2. CASE Translate /\ phase = "encode" /\ EncodeFails
    <3>1. SUFFICES ASSUME Generated
                   PROVE  FALSE
      BY <2>2 DEF Translate, Generated
    <3>2. PICK m : LoopText(source, m, Len(source) - 7, body_ops) /\ Closed(source, Len(source) - 7)
      BY <1>2, <2>2, <3>1 DEF LoopInv
    <3>3. AsmInv /\ Placed
      BY <1>2, <2>2 DEF Prepared, AsmInv, PassesInOrder
    <3>4. encoded + 1 \in Lines
      BY <2>2, <3>3, PlacedLines DEF EncodeFails, AsmInv, WordsInPlace, Lines
    <3>5. ~Rejected(encoded + 1)
      BY <3>2, <3>3, <3>4, NothingRejected DEF LoopedText
    <3> QED
      BY <2>2, <3>5 DEF EncodeFails
  <2>3. CASE Translate /\ PlaceFails
    <3>1. SUFFICES ASSUME Generated
                   PROVE  FALSE
      BY <2>3 DEF Translate, Generated
    <3>2. PICK m : LoopText(source, m, Len(source) - 7, body_ops) /\ Closed(source, Len(source) - 7)
      BY <1>2, <2>3, <3>1 DEF LoopInv, PlaceFails
    <3>3. PICK i : i = Len(address)
      OBVIOUS
    <3>4. i \in Lines
      BY <1>2, <2>3, <3>3 DEF Prepared, AsmInv, AddressesAddUp, PlaceFails, Lines
    <3>5. source[i].mnemonic \in Known
      <4>1. Straight(source[i]) => source[i].mnemonic \in Defined
        BY DEF Straight, PlainOps, Defined, Extended
      <4>2. \A j : Jumps(m, Len(source) - 7, i, j) => source[i].mnemonic \in Defined
        BY DEF Jumps, Defined, Extended, Branches
      <4> QED
        BY <3>2, <3>4, <4>1, <4>2, LinesOfText DEF LoopedText, IsInstruction, Known
    <3> QED
      BY <2>3, <3>3, <3>5 DEF PlaceFails, Known
  <2>4. CASE Translate /\ (Place \/ BuildLabelTable \/ Encode \/ WriteHex)
    BY <2>4 DEF Translate, Place, BuildLabelTable, Encode, WriteHex
  <2>5. CASE Translate /\ (Execute \/ load_hex)
    BY <2>5 DEF Translate, Execute, load_hex, asmVars
  <2>6. CASE UNCHANGED randomVars
    BY <1>2, <2>6 DEF randomVars, asmIsaVars, asmVars, Generated
  <2> QED
    BY <1>2, <2>1, <2>2, <2>3, <2>4, <2>5, <2>6 DEF RandomNext, Translate, RunNext, Assemble, EncodeFails
<1> QED
  BY <1>1, <1>2, PreparedInvariant, LoopInvariant, PTL DEF RandomSpec

-----------------------------------------------------------------------------
(* How long a generated program still runs.                                *)
LoopLine == CHOOSE i \in Lines : Loop \in source[i].labels
DecLine  == Len(source) - 6

(* Rounds of the loop that are left, for line i and r in R12.              *)
RoundsFrom(m, b, i, r) ==
  IF i < m THEN WordSize ELSE IF i <= b + 1 THEN (r - 1) % WordSize ELSE IF i = b + 2 THEN r ELSE 0

Rounds == RoundsFrom(LoopLine, DecLine - 1, CurrentLine, regs[12])

StepsLeft == Rounds * Len(source) + (Len(source) - CurrentLine)

AtHalt == pc = Len(words) - 1 /\ words[Len(words)] = \h40FF

CountInv ==
  /\ phase # "loaded" => regs[12] = 0
  /\ phase = "loaded" /\ Generated =>
       /\ CurrentLine \in Lines
       /\ regs[12] \in Word
       /\ CurrentLine = DecLine + 1 /\ regs[12] = 0 => flags.z = 1

LEMMA InstructionAhead ==
  ASSUME NEW m, NEW b, NEW n, LoopedText(source, m, b, n)
  PROVE  /\ \A i \in 1 .. b + 1 : InstructionFrom(source, i) \in i .. b + 1
         /\ InstructionFrom(source, m) \in m + 1 .. b + 1
         /\ InstructionFrom(source, b + 2) = b + 2
         /\ \A i \in b + 3 .. b + 7 : InstructionFrom(source, i) \in i .. b + 7
         /\ InstructionFrom(source, b + 3) = b + 3
<1>1. /\ m \in Nat /\ b \in Nat /\ 1 <= m /\ m <= b /\ Len(source) = b + 7
      /\ source[m] = Label(Loop) /\ source[b + 1] = Op(DEC, 12, 0) /\ source[b + 2] = To(JRNZ, Loop)
      /\ \E imm \in Int : source[b + 3] = Mvrd(13, imm)
      /\ source[b + 7] = Line({Halt}, JR, 0, 0, Name(Halt))
  BY DEF LoopedText, LoopText, Closed
<1>2. ~IsInstruction(m)
  BY <1>1, LabelLine DEF IsInstruction
<1>3. IsInstruction(b + 1) /\ IsInstruction(b + 2) /\ IsInstruction(b + 3) /\ IsInstruction(b + 7)
  <2>1. DEC # NoMnemonic /\ JRNZ # NoMnemonic /\ MVRD # NoMnemonic /\ JR # NoMnemonic
    BY DEF DEC, JRNZ, MVRD, JR, NoMnemonic
  <2>2. \A mn, d, r : Op(mn, d, r).mnemonic = mn
    BY FieldsOfLine DEF Op, Plain
  <2>3. \A mn, l : To(mn, l).mnemonic = mn
    BY FieldsOfLine DEF To
  <2>4. \A r, imm : Mvrd(r, imm).mnemonic = MVRD
    BY FieldsOfLine DEF Mvrd
  <2>5. source[b + 7].mnemonic = JR
    BY <1>1, FieldsOfLine
  <2> QED
    BY <1>1, <2>1, <2>2, <2>3, <2>4, <2>5 DEF IsInstruction
<1>4. ASSUME NEW i \in 1 .. b + 7, NEW j \in i .. b + 7, IsInstruction(j)
      PROVE  InstructionFrom(source, i) \in i .. j /\ IsInstruction(InstructionFrom(source, i))
  <2>1. Len(source) \in Nat /\ i \in 1 .. Len(source) + 1
    BY <1>1
  <2>2. /\ InstructionFrom(source, i) \in i .. (b + 7) + 1
        /\ InstructionFrom(source, i) <= b + 7 => IsInstruction(InstructionFrom(source, i))
        /\ \A k \in i .. InstructionFrom(source, i) - 1 : ~IsInstruction(k)
    BY <1>1, <2>1, FirstFrom DEF IsInstruction
  <2>3. j \notin i .. InstructionFrom(source, i) - 1
    BY <1>4, <2>2
  <2> QED
    BY <1>1, <2>2, <2>3
<1>5. \A i \in 1 .. b + 1 : InstructionFrom(source, i) \in i .. b + 1
  <2> SUFFICES ASSUME NEW i \in 1 .. b + 1
               PROVE  InstructionFrom(source, i) \in i .. b + 1
    OBVIOUS
  <2>1. i \in 1 .. b + 7 /\ b + 1 \in i .. b + 7
    BY <1>1
  <2> QED
    BY <1>3, <1>4, <2>1
<1>6. InstructionFrom(source, m) \in m + 1 .. b + 1
  <2>1. m \in 1 .. b + 7 /\ b + 1 \in m .. b + 7
    BY <1>1
  <2>2. InstructionFrom(source, m) \in m .. b + 1 /\ InstructionFrom(source, m) # m
    BY <1>2, <1>3, <1>4, <2>1
  <2> QED
    BY <1>1, <2>2
<1>7. \A j \in {b + 2, b + 3} : InstructionFrom(source, j) = j
  <2> SUFFICES ASSUME NEW j \in {b + 2, b + 3}
               PROVE  InstructionFrom(source, j) = j
    OBVIOUS
  <2>1. j \in 1 .. b + 7 /\ j \in j .. b + 7 /\ IsInstruction(j) /\ j \in Nat
    BY <1>1, <1>3
  <2>2. InstructionFrom(source, j) \in j .. j
    BY <1>4, <2>1
  <2> QED
    BY <2>1, <2>2
<1>8. \A i \in b + 3 .. b + 7 : InstructionFrom(source, i) \in i .. b + 7
  <2> SUFFICES ASSUME NEW i \in b + 3 .. b + 7
               PROVE  InstructionFrom(source, i) \in i .. b + 7
    OBVIOUS
  <2>1. i \in 1 .. b + 7 /\ b + 7 \in i .. b + 7
    BY <1>1
  <2> QED
    BY <1>3, <1>4, <2>1
<1> QED
  BY <1>5, <1>6, <1>7, <1>8

(* Where a line of such a text leads.                                      *)
LEMMA WhereTo ==
  ASSUME TextInv, ProgramKept, Execute, NEW i, i = CurrentLine
  PROVE  /\ Straight(source[i]) => CurrentLine' = InstructionFrom(source, i + 1)
         /\ \A j \in Nat : Names(i, j) /\ source[i].mnemonic \in {JR, JMPA} =>
                     CurrentLine' = InstructionFrom(source, j)
         /\ \A j \in Nat : Names(i, j) /\ source[i].mnemonic \in Branches =>
                     CurrentLine' \in {InstructionFrom(source, i + 1), InstructionFrom(source, j)}
<1>1. Text!TextStep
  BY ExecuteImplements
<1>2. /\ Text!mnemonic = source[i].mnemonic /\ Text!follower = InstructionFrom(source, i + 1)
      /\ Text!targets = {InstructionFrom(source, j) : j \in Denoted(source, i, source[i].target)}
  <2>1. \A j : Text!InstructionFrom(source, j) = InstructionFrom(source, j)
    BY Zenon DEF Text!InstructionFrom, InstructionFrom, Text!Least, Least, Text!NoMnemonic, NoMnemonic
  <2> QED
    BY <2>1, TextDenotes DEF Text!mnemonic, Text!follower, Text!targets
<1>3. ASSUME NEW j \in Nat, Names(i, j)
      PROVE  Text!targets = {InstructionFrom(source, j)}
  <2>1. Bearing(source, source[i].target.label) = {j} /\ source[i].target.kind = "name"
    BY <1>3, Zenon DEF Names, Bearing
  <2>2. Denoted(source, i, source[i].target) = {x \in {j} : \A y \in {j} : x <= y}
    BY <2>1, Zenon DEF Denoted
  <2>3. {x \in {j} : \A y \in {j} : x <= y} = {j}
    OBVIOUS
  <2> QED
    BY <1>2, <2>2, <2>3
<1>4. ASSUME Straight(source[i])
      PROVE  CurrentLine' = InstructionFrom(source, i + 1)
  <2>1. MVRD \notin Branches \cup {JMPA, CALLA, RET} /\ JR \in Branches
    BY DEF Branches, JR, JRS, JRNS, JRC, JRNC, JRZ, JRNZ, RET, JMPA, MVRD, CALLA
  <2>2. source[i].mnemonic \notin Branches \cup {JR, JMPA, CALLA, RET}
    BY <1>4, <2>1 DEF Straight, PlainOps
  <2> QED
    BY <1>1, <1>2, <2>2, TextNames DEF Text!TextStep
<1>5. ASSUME NEW j \in Nat, Names(i, j), source[i].mnemonic \in {JR, JMPA}
      PROVE  CurrentLine' = InstructionFrom(source, j)
  <2>1. source[i].mnemonic \notin (Branches \ {JR}) \cup {CALLA, RET} /\ JR \in Branches
    BY <1>5 DEF Branches, JR, JRS, JRNS, JRC, JRNC, JRZ, JRNZ, RET, JMPA, CALLA
  <2>2. CurrentLine' \in Text!targets
    BY <1>1, <1>2, <1>5, <2>1, TextNames DEF Text!TextStep
  <2> QED
    BY <1>3, <1>5, <2>2
<1>6. ASSUME NEW j \in Nat, Names(i, j), source[i].mnemonic \in Branches
      PROVE  CurrentLine' \in {InstructionFrom(source, i + 1), InstructionFrom(source, j)}
  <2>1. source[i].mnemonic \notin {JMPA, CALLA, RET}
    BY <1>6 DEF Branches, JR, JRS, JRNS, JRC, JRNC, JRZ, JRNZ, RET, JMPA, CALLA
  <2>2. CurrentLine' \in Text!targets \cup {Text!follower}
    BY <1>1, <1>2, <1>6, <2>1, TextNames DEF Text!TextStep
  <2> QED
    BY <1>2, <1>3, <1>6, <2>2
<1> QED
  BY <1>4, <1>5, <1>6

(* The branch at the end of the loop falls through at zero.                *)
LEMMA LoopLeft ==
  ASSUME TextInv, ProgramKept, Execute, NEW i, i = CurrentLine,
         source[i].mnemonic = JRNZ, flags.z = 1
  PROVE  CurrentLine' = InstructionFrom(source, i + 1)
<1>1. phase = "loaded" /\ pc < Len(words) /\ Step /\ UNCHANGED asmVars
  BY DEF Execute
<1>2. /\ Loaded /\ Placed /\ AsmInv /\ i \in Lines /\ IsInstruction(i) /\ pc = address[i]
  BY <1>1, CurrentInstruction DEF Loaded
<1>3. op = JRNZ
  BY <1>2, Fetched
<1>4. Branch
  BY <1>1, <1>3 DEF Step, Arithmetic, Logic, Shift, Move, Compare, SetCarry, Jump, Immediate, Load,
     Store, Call, Return, Undefined, Defined, Branches,
     ADD, SUB, AND, CMP, XOR, TEST, OR, MVRR, DEC, INC, SHL, SHR, ADC, SBB, NOT, ASR,
     JR, JRS, JRNS, JRC, JRNC, JRZ, JRNZ, CLC, STC, RET, JMPA, MVRD, LDRR, STRR, ADDI, ANDI, CALLA
<1>5. ~Take
  BY <1>3 DEF Take, JR, JRS, JRNS, JRC, JRNC, JRZ, JRNZ
<1>6. pc' = next
  BY <1>4, <1>5 DEF Branch
<1>7. SizeOf(i) = 1
  <2>1. source[i].mnemonic \in Branches /\ source[i].mnemonic \in Defined
    BY DEF Branches, Defined
  <2> QED
    BY <2>1, KindsOfInstruction DEF SizeOf
<1>8. i + 1 \in 1 .. Len(source) + 1 /\ pc' = address[i + 1]
  BY <1>2, <1>6, <1>7, LineFollows
<1>9. LineAt(address[i + 1]) = InstructionFrom(source, i + 1)
  BY <1>2, <1>8, LineAtAddress
<1>10. \A a : LineAt(a)' = LineAt(a)
  BY <1>1, SameLines DEF asmVars
<1>11. CurrentLine' = LineAt(pc')
  BY <1>1, <1>10 DEF CurrentLine, asmVars
<1> QED
  BY <1>8, <1>9, <1>11

(* What a line does to R12.                                                *)
LEMMA CountLoaded ==
  ASSUME TextInv, ProgramKept, Execute, NEW i, i = CurrentLine, regs[12] \in Word, Early(source[i])
  PROVE  regs'[12] \in Word
<1>1. CASE source[i].mnemonic \in Writers /\ source[i].d = 12
  <2>1. source[i].mnemonic = MVRD /\ source[i].target.kind = "number"
    BY <1>1 DEF Early, Straight
  <2>2. regs'[12] = source[i].target.value % WordSize
    BY <1>1, <2>1, EffectOfLine
  <2>3. source[i].target.value \in Int
    <3>1. i \in Lines /\ Loaded /\ Placed
      BY CurrentInstruction DEF Execute
    <3>2. MVRD \in TakesTarget
      BY DEF TakesTarget, Extended
    <3> QED
      BY <2>1, <3>1, <3>2, PlacedLines DEF IsLine, IsToken, Loaded
  <2>4. \A v \in Int : v % WordSize \in Word
    BY DEF Word, WordSize
  <2> QED
    BY <2>2, <2>3, <2>4
<1>2. CASE ~(source[i].mnemonic \in Writers /\ source[i].d = 12)
  <2>1. 12 \in 10 .. 13
    OBVIOUS
  <2>2. regs'[12] = regs[12]
    BY <1>2, <2>1, OthersKept
  <2> QED
    BY <2>2
<1> QED
  BY <1>1, <1>2

LEMMA CountKept ==
  ASSUME TextInv, ProgramKept, Execute, NEW i, i = CurrentLine,
         source[i].mnemonic \in Writers => source[i].d # 12
  PROVE  regs'[12] = regs[12]
<1>1. 12 \in 10 .. 13
  OBVIOUS
<1> QED
  BY <1>1, OthersKept

LEMMA CountFalls ==
  ASSUME TextInv, ProgramKept, Execute, NEW i, i = CurrentLine, source[i] = Op(DEC, 12, 0),
         regs[12] \in Word
  PROVE  regs'[12] = (regs[12] - 1) % WordSize /\ (regs'[12] = 0 => flags'.z = 1)
<1>1. source[i].mnemonic = DEC /\ source[i].d = 12
  BY FieldsOfLine DEF Op, Plain
<1>2. op = DEC /\ rd = 12 /\ Step /\ DOMAIN regs = Reg
  <2>1. DEC \notin Branches \cup {CALLA}
    BY DEF DEC, CALLA, Branches, JR, JRS, JRNS, JRC, JRNC, JRZ, JRNZ
  <2> QED
    BY <1>1, <2>1, EffectOfLine DEF Execute, TextInv
<1>3. Arithmetic
  BY <1>2 DEF Step, Logic, Shift, Move, Compare, Branch, SetCarry, Jump, Immediate, Load,
     Store, Call, Return, Undefined, Defined, RegisterOps, Branches,
     ADD, SUB, AND, CMP, XOR, TEST, OR, MVRR, DEC, INC, SHL, SHR, ADC, SBB, NOT, ASR,
     JR, JRS, JRNS, JRC, JRNC, JRZ, JRNZ, CLC, STC, RET, JMPA, MVRD, LDRR, STRR, ADDI, ANDI, CALLA
<1>4. WriteResult((regs[12] - 1) % WordSize, SubFlags(1, regs[12], 0))
  BY <1>2, <1>3 DEF Arithmetic, ADD, ADC, INC, SUB, SBB, DEC
<1>5. regs' = [regs EXCEPT ![12] = (regs[12] - 1) % WordSize] /\ flags' = SubFlags(1, regs[12], 0)
  BY <1>2, <1>4 DEF WriteResult
<1>6. regs'[12] = (regs[12] - 1) % WordSize
  BY <1>2, <1>5 DEF Reg
<1>7. SubFlags(1, regs[12], 0).z = B((regs[12] - 1 - 0) % WordSize = 0)
  BY DEF SubFlags
<1>8. regs[12] - 1 - 0 = regs[12] - 1
  BY DEF Word
<1>9. regs'[12] = 0 => flags'.z = 1
  BY <1>5, <1>6, <1>7, <1>8 DEF B
<1> QED
  BY <1>6, <1>9

(* A step of a generated program, from line i to line j, with r and q in   *)
(* R12 before and after.                                                   *)
Moves(m, b, i, j, r, q) ==
  \/ i < m /\ j \in i + 1 .. b + 1
  \/ i \in m + 1 .. b /\ j \in i + 1 .. b + 1 /\ q = r
  \/ i = b + 1 /\ j = b + 2 /\ q = (r - 1) % WordSize
  \/ i = b + 2 /\ j = b + 3 /\ q = r
  \/ i = b + 2 /\ j \in m + 1 .. b + 1 /\ q = r /\ r # 0
  \/ i \in b + 3 .. b + 6 /\ j \in i + 1 .. b + 7 /\ q = r
  \/ i = b + 7 /\ j = i /\ q = r

LEMMA StepMoves ==
  ASSUME TextInv, ProgramKept, Execute, NEW m, NEW b, NEW n, LoopedText(source, m, b, n),
         NEW i, i = CurrentLine, regs[12] \in Word,
         i = b + 2 /\ regs[12] = 0 => flags.z = 1
  PROVE  /\ regs'[12] \in Word
         /\ Moves(m, b, i, CurrentLine', regs[12], regs'[12])
         /\ CurrentLine' = b + 2 /\ regs'[12] = 0 => flags'.z = 1
<1>1. /\ m \in Nat /\ b \in Nat /\ 1 <= m /\ m <= b /\ Len(source) = b + 7
      /\ \A j \in 1 .. m - 1 : Early(source[j])
      /\ source[m] = Label(Loop)
      /\ \A j \in m + 1 .. b : BodyLine(source, b, n, j)
      /\ source[b + 1] = Op(DEC, 12, 0)
      /\ \E imm \in Int : source[b + 3] = Mvrd(13, imm)
      /\ source[b + 5] = Mvrd(13, \hDEAD)
  BY DEF LoopedText, LoopText, Closed
<1>2. i \in 1 .. b + 7 /\ i \in Lines /\ IsInstruction(i)
  BY <1>1, WhereNext DEF Lines
<1>3. /\ \A k \in 1 .. b + 1 : InstructionFrom(source, k) \in k .. b + 1
      /\ InstructionFrom(source, m) \in m + 1 .. b + 1
      /\ InstructionFrom(source, b + 2) = b + 2
      /\ \A k \in b + 3 .. b + 7 : InstructionFrom(source, k) \in k .. b + 7
      /\ InstructionFrom(source, b + 3) = b + 3
  BY InstructionAhead
<1>4. /\ Straight(source[i]) => CurrentLine' = InstructionFrom(source, i + 1)
      /\ \A j \in Nat : Names(i, j) /\ source[i].mnemonic \in {JR, JMPA} =>
                     CurrentLine' = InstructionFrom(source, j)
      /\ \A j \in Nat : Names(i, j) /\ source[i].mnemonic \in Branches =>
                     CurrentLine' \in {InstructionFrom(source, i + 1), InstructionFrom(source, j)}
  BY WhereTo
<1>5. ASSUME source[i].mnemonic \in Writers => source[i].d # 12
      PROVE  regs'[12] = regs[12]
  BY <1>5, CountKept
<1>6. ASSUME NEW j \in Lines, Names(i, j), Jumps(m, b, i, j)
      PROVE  regs'[12] = regs[12] /\ Moves(m, b, i, CurrentLine', regs[12], regs'[12]) /\ CurrentLine' # b + 2
  <2>1. \A mn \in Branches \cup {JMPA} : mn \notin Writers
    BY BranchKind DEF JMPA, Writers, RegisterOps, ADD, SUB, AND, CMP, XOR, TEST, OR, MVRR, DEC, INC,
       SHL, SHR, ADC, SBB, NOT, ASR, MVRD, LDRR, ADDI, ANDI
  <2>2. JRNZ \in Branches /\ JR \in Branches
    BY DEF Branches
  <2>3. regs'[12] = regs[12]
    BY <1>5, <1>6, <2>1, <2>2 DEF Jumps
  <2>4. j \in Nat
    BY DEF Lines
  <2>5. CASE i \in m + 1 .. b /\ j = i + 2 /\ j <= b /\ source[i].mnemonic \in Branches
    <3>1. i + 1 \in 1 .. b + 1 /\ j \in 1 .. b + 1
      BY <1>1, <2>4, <2>5
    <3>2. CurrentLine' \in {InstructionFrom(source, i + 1), InstructionFrom(source, j)}
      BY <1>4, <1>6, <2>4, <2>5
    <3>3. CurrentLine' \in i + 1 .. b + 1
      <4>1. InstructionFrom(source, i + 1) \in i + 1 .. b + 1
        BY <1>3, <3>1
      <4>2. InstructionFrom(source, j) \in j .. b + 1
        BY <1>3, <3>1
      <4>3. \A x \in j .. b + 1 : x \in i + 1 .. b + 1
        BY <1>1, <2>5
      <4> QED
        BY <3>2, <4>1, <4>2, <4>3
    <3> QED
      BY <1>1, <2>3, <2>5, <3>3 DEF Moves
  <2>6. CASE i = b + 2 /\ j = m /\ source[i].mnemonic = JRNZ
    <3>1. CurrentLine' \in {InstructionFrom(source, i + 1), InstructionFrom(source, m)}
      BY <1>4, <1>6, <2>2, <2>4, <2>6
    <3>2. InstructionFrom(source, i + 1) = b + 3
      <4>1. i + 1 = b + 3
        BY <1>1, <2>6
      <4> QED
        BY <1>3, <4>1
    <3>3. CASE CurrentLine' = b + 3
      BY <1>1, <2>3, <2>6, <3>3 DEF Moves
    <3>4. CASE CurrentLine' = InstructionFrom(source, m)
      <4>1. CurrentLine' \in m + 1 .. b + 1
        BY <1>3, <3>4
      <4>2. regs[12] # 0
        <5>1. SUFFICES ASSUME regs[12] = 0
                       PROVE  FALSE
          OBVIOUS
        <5>2. flags.z = 1
          BY <2>6, <5>1
        <5>3. CurrentLine' = b + 3
          BY <2>6, <3>2, <5>2, LoopLeft
        <5> QED
          BY <1>1, <4>1, <5>3
      <4> QED
        BY <1>1, <2>3, <2>6, <4>1, <4>2 DEF Moves
    <3> QED
      BY <3>1, <3>2, <3>3, <3>4
  <2>7. CASE i = b + 4 /\ j = b + 6 /\ source[i].mnemonic = JMPA
    <3>1. CurrentLine' = InstructionFrom(source, b + 6)
      BY <1>4, <1>6, <2>4, <2>7
    <3>2. InstructionFrom(source, b + 6) \in b + 6 .. b + 7
      <4>1. b + 6 \in b + 3 .. b + 7
        BY <1>1
      <4> QED
        BY <1>3, <4>1
    <3> QED
      BY <1>1, <2>3, <2>7, <3>1, <3>2 DEF Moves
  <2>8. CASE i = b + 7 /\ j = b + 7 /\ source[i].mnemonic = JR
    <3>1. CurrentLine' = InstructionFrom(source, b + 7)
      BY <1>4, <1>6, <2>4, <2>8
    <3>2. InstructionFrom(source, b + 7) \in b + 7 .. b + 7
      <4>1. b + 7 \in b + 3 .. b + 7
        BY <1>1
      <4> QED
        BY <1>3, <4>1
    <3> QED
      BY <1>1, <2>3, <2>8, <3>1, <3>2 DEF Moves
  <2> QED
    BY <1>6, <2>5, <2>6, <2>7, <2>8 DEF Jumps
<1>7. CASE \E j \in Lines : Names(i, j) /\ Jumps(m, b, i, j)
  BY <1>6, <1>7
<1>8. CASE Straight(source[i])
  <2>1. CurrentLine' = InstructionFrom(source, i + 1)
    BY <1>4, <1>8
  <2>2. CASE i < m
    <3>1. i \in 1 .. m - 1 /\ i + 1 \in 1 .. b + 1
      BY <1>1, <1>2, <2>2
    <3>2. regs'[12] \in Word
      BY <1>1, <3>1, CountLoaded
    <3>3. CurrentLine' \in i + 1 .. b + 1
      BY <1>3, <2>1, <3>1
    <3> QED
      BY <1>1, <2>2, <3>2, <3>3 DEF Moves
  <2>3. CASE i \in m + 1 .. b
    <3>1. regs'[12] = regs[12]
      <4>1. NoMnemonic \notin PlainOps \cup {MVRD}
        BY LabelKind DEF PlainOps, MVRD, NoMnemonic, Defined, RegisterOps, Branches, Extended,
           ADD, SUB, AND, CMP, XOR, TEST, OR, MVRR, DEC, INC, SHL, SHR, ADC, SBB, NOT, ASR,
           JR, JRS, JRNS, JRC, JRNC, JRZ, JRNZ, CLC, STC, RET, JMPA, LDRR, STRR, ADDI, ANDI, CALLA
      <4>2. \A k : ~Branching(source[i], k) /\ source[i] # EndOf(k)
        <5>1. \A mn \in Branches : mn \notin PlainOps \cup {MVRD} /\ mn \in Defined
          BY MvrdKind, BranchKind DEF PlainOps
        <5>2. \A k : ~Branching(source[i], k)
          BY <1>8, <5>1, ToLine DEF Branching, Straight
        <5> QED
          BY <1>8, <5>2, EndsOfBlocks
      <4>3. Inside(source[i])
        BY <1>1, <2>3, <4>2 DEF BodyLine
      <4> QED
        BY <1>5, <4>3 DEF Inside
    <3>2. i + 1 \in 1 .. b + 1
      BY <1>1, <2>3
    <3>3. CurrentLine' \in i + 1 .. b + 1
      BY <1>3, <2>1, <3>2
    <3> QED
      BY <1>1, <2>3, <3>1, <3>3 DEF Moves
  <2>4. CASE i = b + 1
    <3>1. regs'[12] = (regs[12] - 1) % WordSize /\ (regs'[12] = 0 => flags'.z = 1)
      BY <1>1, <2>4, CountFalls
    <3>2. regs'[12] \in Word
      BY <3>1 DEF Word, WordSize
    <3>3. i + 1 = b + 2
      BY <1>1, <2>4
    <3> QED
      BY <1>1, <1>3, <2>1, <2>4, <3>1, <3>2, <3>3 DEF Moves
  <2>5. CASE i = b + 3 \/ i = b + 5
    <3>1. regs'[12] = regs[12]
      <4>1. \E imm : source[i] = Mvrd(13, imm)
        BY <1>1, <2>5
      <4>2. source[i].d = 13
        BY <4>1, StraightLines
      <4> QED
        BY <1>5, <4>2
    <3>2. i + 1 \in b + 3 .. b + 7 /\ i \in b + 3 .. b + 6
      BY <1>1, <2>5
    <3>3. CurrentLine' \in i + 1 .. b + 7
      BY <1>3, <2>1, <3>2
    <3> QED
      BY <1>1, <2>5, <3>1, <3>2, <3>3 DEF Moves
  <2>6. i # m
    BY <1>1, <1>2, LabelLine DEF IsInstruction
  <2>7. i # b + 2 /\ i # b + 4 /\ i # b + 6 /\ i # b + 7
    <3>1. /\ source[b + 2] = To(JRNZ, Loop) /\ source[b + 4] = To(JMPA, Exit)
          /\ source[b + 6] = Label(Exit) /\ source[b + 7] = Line({Halt}, JR, 0, 0, Name(Halt))
      BY DEF LoopedText, Closed
    <3>2. /\ source[b + 2].mnemonic = JRNZ /\ source[b + 4].mnemonic = JMPA
          /\ source[b + 6].mnemonic = NoMnemonic /\ source[b + 7].mnemonic = JR
      BY <3>1, FieldsOfLine DEF To, Label, Plain
    <3>3. \A mn \in {JRNZ, JMPA, JR, NoMnemonic} : mn \notin PlainOps \cup {MVRD}
      BY DEF PlainOps, MVRD, NoMnemonic, Defined, RegisterOps, Branches, Extended,
         ADD, SUB, AND, CMP, XOR, TEST, OR, MVRR, DEC, INC, SHL, SHR, ADC, SBB, NOT, ASR,
         JR, JRS, JRNS, JRC, JRNC, JRZ, JRNZ, CLC, STC, RET, JMPA, LDRR, STRR, ADDI, ANDI, CALLA
    <3> QED
      BY <1>8, <3>2, <3>3 DEF Straight
  <2>8. i < m \/ i \in m + 1 .. b \/ i = b + 1 \/ i = b + 3 \/ i = b + 5
    BY <1>1, <1>2, <2>6, <2>7
  <2> QED
    BY <2>2, <2>3, <2>4, <2>5, <2>8
<1> QED
  BY <1>2, <1>7, <1>8, LinesOfText

(* Every such step has fewer left after it.                                *)
LEMMA ProductGrows ==
  ASSUME NEW x \in Nat, NEW y \in Nat, NEW n \in Nat, x <= y
  PROVE  x * n \in Nat /\ y * n \in Nat /\ x * n <= y * n /\ (x < y => x * n + n <= y * n)
<1>1. PICK d \in Nat : y = x + d
  <2>1. y - x \in Nat /\ y = x + (y - x)
    OBVIOUS
  <2> QED
    BY <2>1
<1>2. y * n = x * n + d * n /\ x * n \in Nat /\ d * n \in Nat
  BY <1>1
<1>3. ASSUME x < y
      PROVE  n <= d * n
  <2>1. PICK e \in Nat : d = e + 1
    <3>1. d - 1 \in Nat /\ d = (d - 1) + 1
      BY <1>1, <1>3
    <3> QED
      BY <3>1
  <2>2. d * n = e * n + n /\ e * n \in Nat
    BY <2>1
  <2> QED
    BY <2>2
<1> QED
  BY <1>2, <1>3

LEMMA RoundsAreCounted ==
  ASSUME NEW m, NEW b, NEW i \in Nat, NEW r \in Word
  PROVE  RoundsFrom(m, b, i, r) \in Nat
<1>1. r \in Nat /\ (r - 1) % WordSize \in Nat /\ WordSize \in Nat
  BY DEF Word, WordSize
<1> QED
  BY <1>1 DEF RoundsFrom

LEMMA FewerLeft ==
  ASSUME NEW m \in Nat, NEW b \in Nat, 1 <= m, m <= b,
         NEW i \in 1 .. b + 7, NEW j \in 1 .. b + 7, NEW r \in Word, NEW q \in Word,
         Moves(m, b, i, j, r, q), i # b + 7
  PROVE  RoundsFrom(m, b, j, q) * (b + 7) + ((b + 7) - j)
           < RoundsFrom(m, b, i, r) * (b + 7) + ((b + 7) - i)
<1>1. PICK x, y : x = RoundsFrom(m, b, j, q) /\ y = RoundsFrom(m, b, i, r)
  OBVIOUS
<1>2. x \in Nat /\ y \in Nat
  BY <1>1, RoundsAreCounted
<1>3. /\ \A w \in Word : w \in Nat /\ (w - 1) % WordSize \in Nat /\ (w - 1) % WordSize < WordSize
                         /\ (w # 0 => (w - 1) % WordSize = w - 1)
      /\ WordSize \in Nat
  BY DEF Word, WordSize
<1>4. (x <= y /\ i < j) \/ x < y
  <2>1. CASE i < m /\ j \in i + 1 .. b + 1
    <3>1. y = WordSize
      BY <1>1, <2>1 DEF RoundsFrom
    <3>2. x <= WordSize
      BY <1>1, <1>3, <2>1 DEF RoundsFrom
    <3> QED
      BY <2>1, <3>1, <3>2
  <2>2. CASE i \in m + 1 .. b /\ j \in i + 1 .. b + 1 /\ q = r
    <3>1. y = (r - 1) % WordSize /\ x = (r - 1) % WordSize
      BY <1>1, <2>2 DEF RoundsFrom
    <3> QED
      BY <1>2, <2>2, <3>1
  <2>3. CASE i = b + 1 /\ j = b + 2 /\ q = (r - 1) % WordSize
    <3>1. y = (r - 1) % WordSize /\ x = q
      BY <1>1, <2>3 DEF RoundsFrom
    <3> QED
      BY <1>2, <2>3, <3>1
  <2>4. CASE i = b + 2 /\ j = b + 3 /\ q = r
    <3>1. y = r /\ x = 0
      BY <1>1, <2>4 DEF RoundsFrom
    <3> QED
      BY <1>2, <2>4, <3>1
  <2>5. CASE i = b + 2 /\ j \in m + 1 .. b + 1 /\ q = r /\ r # 0
    <3>1. y = r /\ x = (r - 1) % WordSize
      BY <1>1, <2>5 DEF RoundsFrom
    <3> QED
      BY <1>3, <2>5, <3>1
  <2>6. CASE i \in b + 3 .. b + 6 /\ j \in i + 1 .. b + 7 /\ q = r
    <3>1. y = 0 /\ x = 0
      BY <1>1, <2>6 DEF RoundsFrom
    <3> QED
      BY <2>6, <3>1
  <2> QED
    BY <2>1, <2>2, <2>3, <2>4, <2>5, <2>6 DEF Moves
<1>5. PICK n \in Nat : n = b + 7
  OBVIOUS
<1>6. x * n \in Nat /\ y * n \in Nat /\ i \in Nat /\ j \in Nat /\ i <= n /\ j <= n /\ 1 <= j /\ i < n
  BY <1>2, <1>5, ProductGrows
<1>7. CASE x <= y /\ i < j
  <2>1. x * n <= y * n
    BY <1>2, <1>7, ProductGrows
  <2>2. x * n + (n - j) < y * n + (n - i)
    BY <1>6, <1>7, <2>1
  <2> QED
    BY <1>1, <1>5, <2>2
<1>8. CASE x < y
  <2>1. x * n + n <= y * n
    BY <1>2, <1>8, ProductGrows
  <2>2. x * n + (n - j) < y * n + (n - i)
    BY <1>6, <2>1
  <2> QED
    BY <1>1, <1>5, <2>2
<1> QED
  BY <1>4, <1>7, <1>8

LEMMA LoopLineFound ==
  ASSUME NEW m, NEW b, NEW n, LoopedText(source, m, b, n)
  PROVE  LoopLine = m /\ DecLine - 1 = b /\ Len(source) = b + 7 /\ b \in Nat
<1>1. Bearing(source, Loop) = {m}
  BY BorneOnce
<1>2. Len(source) = b + 7 /\ b \in Nat /\ DOMAIN source = Lines
  BY LenProperties DEF LoopedText, LoopText, Closed, Lines
<1>3. \A i \in Lines : Loop \in source[i].labels <=> i = m
  BY <1>1, <1>2 DEF Bearing
<1>4. m \in Lines
  BY <1>1, <1>2 DEF Bearing
<1> QED
  BY <1>2, <1>3, <1>4 DEF LoopLine, DecLine

-----------------------------------------------------------------------------
(* A generated program comes nearer to its halt loop.                      *)
Descending == Prepared /\ IntactInv /\ LoopInv /\ CountInv

LEMMA GeneratedRuns ==
  ASSUME Prepared, IntactInv, LoopInv, Generated, phase \in {"written", "loaded"}
  PROVE  /\ TextInv /\ ProgramKept /\ Placed /\ AsmInv
         /\ \E m : LoopedText(source, m, DecLine - 1, body_ops)
<1>1. TextInv /\ ProgramKept
  BY GeneratedText DEF IntactInv
<1>2. PICK m : LoopText(source, m, Len(source) - 7, body_ops) /\ Closed(source, Len(source) - 7)
  BY DEF LoopInv
<1>3. Len(source) \in Nat
  BY LenProperties DEF LoopText
<1>4. DecLine - 1 = Len(source) - 7
  BY <1>3 DEF DecLine
<1> QED
  BY <1>1, <1>2, <1>4 DEF LoopedText, TextInv, AsmInv, PassesInOrder

LEMMA ExecuteCounts ==
  ASSUME Descending, Generated, Execute, NEW m, LoopedText(source, m, DecLine - 1, body_ops)
  PROVE  /\ regs'[12] \in Word /\ CurrentLine' \in Lines
         /\ Moves(m, DecLine - 1, CurrentLine, CurrentLine', regs[12], regs'[12])
         /\ CurrentLine' = DecLine + 1 /\ regs'[12] = 0 => flags'.z = 1
<1>1. phase = "loaded"
  BY DEF Execute
<1>2. TextInv /\ ProgramKept
  BY <1>1, GeneratedRuns DEF Descending
<1>3. PICK b, i : b = DecLine - 1 /\ i = CurrentLine
  OBVIOUS
<1>4. LoopLine = m /\ Len(source) = b + 7 /\ b \in Nat /\ DecLine + 1 = b + 2
      /\ m \in Nat /\ 1 <= m /\ m <= b
  <2>1. Len(source) = b + 7 /\ b \in Nat
    BY <1>3, LoopLineFound
  <2>2. DecLine + 1 = b + 2
    BY <2>1 DEF DecLine
  <2> QED
    BY <1>3, <2>1, <2>2, LoopLineFound DEF LoopedText, LoopText
<1>5. regs[12] \in Word /\ i \in Lines /\ (i = b + 2 /\ regs[12] = 0 => flags.z = 1)
  BY <1>1, <1>3, <1>4 DEF Descending, CountInv
<1>6. /\ regs'[12] \in Word
      /\ Moves(m, b, i, CurrentLine', regs[12], regs'[12])
      /\ CurrentLine' = b + 2 /\ regs'[12] = 0 => flags'.z = 1
  BY <1>2, <1>3, <1>5, StepMoves
<1>7. CurrentLine' \in Lines
  BY <1>4, <1>5, <1>6 DEF Moves, Lines
<1> QED
  BY <1>3, <1>4, <1>6, <1>7

LEMMA CountInvStep ==
  ASSUME Descending, [RandomNext]_randomVars
  PROVE  CountInv'
<1>1. CASE Execute /\ UNCHANGED <<targeted_bins, blocks>>
  <2>1. phase = "loaded" /\ phase' = "loaded" /\ source' = source
    BY <1>1 DEF Execute, asmVars
  <2>2. Lines' = Lines /\ DecLine' = DecLine /\ (Generated' <=> Generated)
    BY <1>1, <2>1 DEF Lines, DecLine, Generated
  <2>3. ASSUME Generated
        PROVE  /\ regs'[12] \in Word /\ CurrentLine' \in Lines
               /\ CurrentLine' = DecLine + 1 /\ regs'[12] = 0 => flags'.z = 1
    <3>1. PICK m : LoopedText(source, m, DecLine - 1, body_ops)
      BY <2>1, <2>3, GeneratedRuns DEF Descending
    <3> QED
      BY <1>1, <2>3, <3>1, ExecuteCounts
  <2> QED
    BY <2>1, <2>2, <2>3 DEF CountInv
<1>2. CASE phase = "written" /\ load_hex /\ UNCHANGED <<targeted_bins, blocks>>
  <2>1. /\ phase' = "loaded" /\ UNCHANGED <<source, address, regs>> /\ pc' = 0 /\ regs[12] = 0
    BY <1>2 DEF load_hex, Machine, Descending, Prepared, AtStart, CountInv
  <2>2. Lines' = Lines /\ DecLine' = DecLine /\ (Generated' <=> Generated)
    BY <1>2, <2>1 DEF Lines, DecLine, Generated
  <2>3. regs'[12] \in Word
    BY <2>1 DEF Word, WordSize
  <2>4. ASSUME Generated
        PROVE  CurrentLine' \in Lines /\ CurrentLine' # DecLine + 1
    <3>1. PICK m : LoopedText(source, m, DecLine - 1, body_ops) /\ Placed /\ AsmInv
      BY <1>2, <2>4, GeneratedRuns DEF Descending
    <3>2. PICK b : b = DecLine - 1
      OBVIOUS
    <3>3. Len(source) = b + 7 /\ b \in Nat
      BY <3>1, <3>2, LoopLineFound
    <3>4. InstructionFrom(source, 1) \in 1 .. b + 1
      <4>1. 1 \in 1 .. b + 1
        BY <3>3
      <4> QED
        BY <3>1, <3>2, <4>1, InstructionAhead
    <3>5. LineAt(0) = InstructionFrom(source, 1)
      <4>1. address[1] = 0 /\ 1 \in 1 .. Len(source) + 1
        BY <3>1, <3>3, PlacedLines
      <4> QED
        BY <3>1, <4>1, LineAtAddress
    <3>6. \A a : LineAt(a)' = LineAt(a)
      BY <2>1, SameLines
    <3>7. CurrentLine' = InstructionFrom(source, 1)
      BY <2>1, <3>5, <3>6 DEF CurrentLine
    <3> QED
      BY <3>3, <3>4, <3>7 DEF Lines, DecLine
  <2> QED
    BY <2>1, <2>2, <2>3, <2>4 DEF CountInv
<1>3. CASE EmitSetup \/ EmitBlock \/ EmitEnd \/ (Assemble /\ UNCHANGED isaVars)
  <2>1. phase # "loaded" /\ phase' # "loaded" /\ regs' = regs
    BY <1>3 DEF EmitSetup, EmitBlock, EmitEnd, Assemble, Place, PlaceFails, BuildLabelTable,
       Encode, EncodeFails, WriteHex, isaVars
  <2> QED
    BY <2>1 DEF Descending, CountInv
<1>4. CASE UNCHANGED randomVars
  <2>1. UNCHANGED <<source, address, phase, pc, regs, flags, blocks>>
    BY <1>4 DEF randomVars, asmIsaVars, asmVars, isaVars
  <2>2. \A x : LineAt(x)' = LineAt(x)
    BY <2>1, SameLines
  <2>3. CurrentLine' = CurrentLine
    BY <2>1, <2>2 DEF FirstLine, CurrentLine
  <2> QED
    BY <2>1, <2>3 DEF Descending, CountInv, Lines, DecLine, Generated
<1> QED
  BY <1>1, <1>2, <1>3, <1>4 DEF RandomNext, Translate, RunNext

LEMMA DescendingInvariant == RandomSpec => []Descending
<1>1. RandomInit => CountInv
  BY DEF RandomInit, GenInit, Written, RunInit, AsmInit, CountInv, Reg
<1>2. Descending /\ [RandomNext]_randomVars => CountInv'
  BY CountInvStep
<1> QED
  BY <1>1, <1>2, PreparedInvariant, IntactInvariant, LoopInvariant, PTL DEF RandomSpec, Descending

LEMMA LastLine ==
  ASSUME Descending, Generated, phase = "loaded"
  PROVE  /\ pc < Len(words)
         /\ StepsLeft \in Nat
         /\ StepsLeft = 0 <=> CurrentLine = Len(source)
         /\ CurrentLine = Len(source) <=> AtHalt
<1>1. /\ TextInv /\ ProgramKept /\ Placed /\ AsmInv /\ Loaded
      /\ \E m : LoopedText(source, m, DecLine - 1, body_ops)
  BY GeneratedRuns DEF Descending, Loaded, Prepared, AtStart
<1>2. PICK b, m : b = DecLine - 1 /\ LoopedText(source, m, b, body_ops)
  BY <1>1
<1>3. /\ LoopLine = m /\ Len(source) = b + 7 /\ b \in Nat /\ m \in Nat /\ 1 <= m /\ m <= b
      /\ source[b + 7] = Line({Halt}, JR, 0, 0, Name(Halt))
  <2>1. LoopLine = m /\ Len(source) = b + 7 /\ b \in Nat
    BY <1>2, LoopLineFound
  <2>2. m \in Nat /\ 1 <= m /\ m <= b
    BY <1>2 DEF LoopedText, LoopText
  <2>3. source[b + 7] = Line({Halt}, JR, 0, 0, Name(Halt))
    BY <1>2 DEF LoopedText, Closed
  <2> QED
    BY <2>1, <2>2, <2>3
<1>4. CurrentLine \in Lines /\ regs[12] \in Word
  BY DEF Descending, CountInv
<1>5. Len(words) = Ends(address) /\ Len(words) \in Nat /\ Len(address) = (b + 7) + 1
  BY <1>1, <1>3, LoadedLines, PlacedLines
<1>6. pc < Len(words)
  <2>1. PICK j \in 1 .. Len(source) + 1 : pc = address[j]
    BY <1>1 DEF TextInv, StartsLine
  <2>2. pc \in Nat
    BY <1>1, <2>1, PlacedLines
  <2>3. ASSUME pc >= Ends(address)
        PROVE  FALSE
    <3>1. CurrentLine = Len(source) + 1
      BY <2>3 DEF CurrentLine, LineAt
    <3> QED
      BY <1>3, <1>4, <3>1 DEF Lines
  <2> QED
    BY <1>5, <2>2, <2>3
<1>7. StepsLeft \in Nat /\ (StepsLeft = 0 <=> CurrentLine = Len(source))
  <2>1. PICK i, n : i = CurrentLine /\ n = b + 7
    OBVIOUS
  <2>2. i \in 1 .. n /\ i \in Nat /\ n \in Nat
    BY <1>3, <1>4, <2>1 DEF Lines
  <2>3. PICK x : x = RoundsFrom(m, b, i, regs[12])
    OBVIOUS
  <2>4. x \in Nat /\ (i = n => x = 0)
    <3>1. x \in Nat
      BY <1>4, <2>2, <2>3, RoundsAreCounted
    <3> QED
      BY <1>3, <2>1, <2>3, <3>1 DEF RoundsFrom
  <2>5. StepsLeft = x * n + (n - i)
    BY <1>2, <1>3, <2>1, <2>3 DEF StepsLeft, Rounds
  <2>6. x * n \in Nat /\ (x = 0 => x * n = 0)
    <3>1. x <= x /\ 0 * n = 0
      BY <2>2, <2>4
    <3> QED
      BY <2>2, <2>4, <3>1, ProductGrows
  <2> QED
    BY <1>3, <2>1, <2>2, <2>4, <2>5, <2>6
<1>8. /\ SizeOf(b + 7) = 1 /\ address[b + 7] \in Nat /\ Len(words) = address[b + 7] + 1
      /\ IsInstruction(b + 7)
  <2>1. source[b + 7].mnemonic = JR /\ JR \in Branches /\ JR \in Defined /\ JR # NoMnemonic
    <3>1. source[b + 7].mnemonic = JR
      BY <1>3, FieldsOfLine
    <3> QED
      BY <3>1 DEF Branches, Defined, JR, NoMnemonic
  <2>2. SizeOf(b + 7) = 1
    BY <2>1, KindsOfInstruction DEF SizeOf
  <2>3. b + 7 \in Lines /\ b + 7 \in 1 .. Len(source) + 1
    BY <1>3 DEF Lines
  <2>4. address[(b + 7) + 1] = address[b + 7] + 1 /\ address[b + 7] \in Nat
    BY <1>1, <2>2, <2>3, PlacedLines
  <2> QED
    BY <1>5, <2>1, <2>2, <2>4 DEF Ends, IsInstruction
<1>9. words[Len(words)] = \h40FF
  <2>1. b + 7 \in Lines
    BY <1>3 DEF Lines
  <2>2. StandsInPlace(b + 7)
    BY <1>1, <2>1, LoadedLines
  <2>3. words[address[b + 7] + 1] = encode_line(b + 7)[1]
    BY <1>8, <2>2 DEF StandsInPlace, SizeOf
  <2>4. Names(b + 7, b + 7) /\ source[b + 7].mnemonic = JR
    <3>1. Bearing(source, Halt) = {b + 7}
      BY <1>2, BorneOnce
    <3>2. source[b + 7].mnemonic = JR /\ source[b + 7].target = Name(Halt)
      BY <1>3, FieldsOfLine
    <3> QED
      BY <3>1, <3>2 DEF Names, Name
  <2>5. Target(b + 7) = address[b + 7]
    BY <1>8, <2>4, NamedTarget
  <2>6. Offset(b + 7) = -1
    <3>1. JR # CALLA
      BY DEF JR, CALLA
    <3> QED
      BY <1>8, <2>4, <2>5, <3>1 DEF Offset
  <2>7. encode_line(b + 7)[1] = RelativeWord(JR, -1)
    <3>1. JR \in Branches
      BY DEF Branches
    <3>2. Relative(b + 7) /\ ~Rejected(b + 7) /\ b + 7 \in 1 .. Len(source)
      BY <1>1, <1>3, <2>1, <2>4, <3>1, LoadedLines DEF Relative, Lines
    <3> QED
      BY <1>1, <2>4, <2>6, <3>2, EncodedLine DEF AsmInv
  <2>8. RelativeWord(JR, -1) = \h40FF
    <3>1. (-1) % 256 = 255
      <4>1. \A x \in -1 .. 0 : x < 0 => x % 256 = x + 256
        OBVIOUS
      <4>2. -1 \in -1 .. 0 /\ -1 < 0 /\ -1 + 256 = 255
        OBVIOUS
      <4> QED
        BY <4>1, <4>2, Zenon
    <3>2. 256 * JR + 255 = \h40FF
      BY DEF JR
    <3> QED
      BY <3>1, <3>2 DEF RelativeWord
  <2> QED
    BY <1>8, <2>3, <2>7, <2>8
<1>10. CurrentLine = b + 7 <=> pc = address[b + 7]
  <2>1. CurrentLine = b + 7 => pc = address[b + 7]
    BY <1>1, <1>6, CurrentInstruction
  <2>2. ASSUME pc = address[b + 7]
        PROVE  CurrentLine = b + 7
    <3>1. b + 7 \in 1 .. Len(source) + 1 /\ b + 7 \in b + 3 .. b + 7 /\ b + 7 \in Nat
      BY <1>3
    <3>2. InstructionFrom(source, b + 7) \in b + 7 .. b + 7
      BY <1>2, <3>1, InstructionAhead
    <3>3. LineAt(address[b + 7]) = InstructionFrom(source, b + 7)
      BY <1>1, <3>1, LineAtAddress
    <3> QED
      BY <2>2, <3>1, <3>2, <3>3 DEF CurrentLine
  <2> QED
    BY <2>1, <2>2
<1>11. AtHalt <=> pc = address[b + 7]
  <2>1. (address[b + 7] + 1) - 1 = address[b + 7]
    BY <1>8
  <2> QED
    BY <1>8, <1>9, <2>1 DEF AtHalt
<1> QED
  BY <1>3, <1>6, <1>7, <1>10, <1>11

(* A generated program comes to its halt loop as far as steps tell          *)
(* (bounded random assembly tests, in the words of the generator): it      *)
(* never leaves its text, and every instruction outside the halt loop      *)
(* leaves fewer to execute, whatever was drawn: the loop counts R12 down,  *)
(* and nothing in it writes R12 or jumps back.                             *)
THEOREM GeneratedDescends ==
  RandomSpec =>
    /\ [](Generated /\ phase = "loaded" =>
            pc < Len(words) /\ StepsLeft \in Nat /\ (StepsLeft = 0 <=> AtHalt))
    /\ [][Execute /\ Generated => AtHalt \/ StepsLeft' < StepsLeft]_randomVars
<1>1. Descending => (Generated /\ phase = "loaded" =>
                       pc < Len(words) /\ StepsLeft \in Nat /\ (StepsLeft = 0 <=> AtHalt))
  BY LastLine
<1>2. Descending /\ [RandomNext]_randomVars =>
        [Execute /\ Generated => AtHalt \/ StepsLeft' < StepsLeft]_randomVars
  <2> SUFFICES ASSUME Descending, Execute, Generated, ~AtHalt
               PROVE  StepsLeft' < StepsLeft
    OBVIOUS
  <2>1. phase = "loaded" /\ source' = source
    BY DEF Execute, asmVars
  <2>2. PICK m, b, i, j : /\ LoopedText(source, m, b, body_ops) /\ b = DecLine - 1
                          /\ i = CurrentLine /\ j = CurrentLine'
    BY <2>1, GeneratedRuns DEF Descending
  <2>3. /\ LoopLine = m /\ DecLine - 1 = b /\ Len(source) = b + 7 /\ b \in Nat
        /\ m \in Nat /\ 1 <= m /\ m <= b
    BY <2>2, LoopLineFound DEF LoopedText, LoopText
  <2>4. regs'[12] \in Word /\ j \in Lines /\ Moves(m, b, i, j, regs[12], regs'[12])
    BY <2>2, ExecuteCounts
  <2>5. i \in Lines /\ regs[12] \in Word /\ i # Len(source)
    BY <2>1, <2>2, LastLine DEF Descending, CountInv
  <2>6. /\ StepsLeft = RoundsFrom(m, b, i, regs[12]) * (b + 7) + ((b + 7) - i)
        /\ StepsLeft' = RoundsFrom(m, b, j, regs'[12]) * (b + 7) + ((b + 7) - j)
    <3>1. LoopLine' = LoopLine /\ DecLine' = DecLine
      BY <2>1 DEF LoopLine, DecLine, Lines
    <3> QED
      BY <2>1, <2>2, <2>3, <3>1 DEF StepsLeft, Rounds, RoundsFrom
  <2> QED
    BY <2>3, <2>4, <2>5, <2>6, FewerLeft DEF Lines
<1> QED
  BY <1>1, <1>2, DescendingInvariant, PTL DEF RandomSpec
===============================================================================
