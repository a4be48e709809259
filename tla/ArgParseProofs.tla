----------------------------- MODULE ArgParseProofs ------------------------------
(***************************************************************************)
(* For any tuples of parsers and values and any command line: the          *)
(* constructor throws for the documented reasons and for ':' after an      *)
(* option with an argument, what digest() stores stays within the limits   *)
(* of each value, each option and each positional is digested once, in     *)
(* order, where it belongs, and parse() says Ok only for command lines the *)
(* tuples describe, and refuses such a one only if a value took what a     *)
(* later one needed.                                                       *)
(***************************************************************************)
EXTENDS ArgParse, SequenceTheorems, FiniteSetTheorems, TLAPS

Parsers == [short : STRING, long : STRING, kind : Kinds]
Options == [short : STRING \cup {"h", "?"}, text : Texts]

ArgTypes ==
    /\ parsers \in ParserTuples /\ values \in ValueTuples
    /\ registered \subseteq DOMAIN parsers
    /\ present \in [DOMAIN parsers -> BOOLEAN]
    /\ got \in [DOMAIN parsers -> Seq(0 .. MaxOptions)]
    /\ stored \in [DOMAIN values -> Seq(0 .. MaxOperands)]
    /\ \A i \in DOMAIN values : values[i] # "multi" => Len(stored[i]) <= Limit
    /\ operands \in Seq(OperandTexts) /\ Len(operands) <= MaxOperands
    /\ options \in Seq(Options)
    /\ index \in 1 .. Len(operands) + 1
    /\ pc \in {"building", "options"} => index = 1
    /\ current \in 1 .. Len(values) + 1
    /\ enough \in BOOLEAN
    /\ missing \subseteq DOMAIN values
    /\ pc \in {"building", "options", "values", "done"}
    /\ result \in {"none", "threw", "Ok", "Error", "Help"}

\* The constructor has accepted the first parsers, which do not clash.
ConstructorInv ==
    /\ \E k \in 0 .. Len(parsers) : registered = 1 .. k
    /\ \A i, j \in registered :
          i # j => /\ parsers[i].short # parsers[j].short
                   /\ parsers[i].long # parsers[j].long
                   /\ j < i /\ parsers[i].short = ":" => parsers[j].kind = "boolean"
    /\ result = "threw" => pc = "done" /\ (~Acceptable \/ ColonClash)
    /\ pc = "building" => result = "none"
    /\ pc # "building" /\ result # "threw" => Acceptable /\ ~ColonClash

ArgInv == ArgTypes /\ ConstructorInv

-------------------------------------------------------------------------------

\* The tuples are sequences.
LEMMA TupleFacts ==
    ASSUME ArgTypes
    PROVE  /\ parsers \in Seq(Parsers) /\ values \in Seq(Digesters)
           /\ Len(parsers) \in Nat /\ DOMAIN parsers = 1 .. Len(parsers)
           /\ Len(values) \in Nat /\ DOMAIN values = 1 .. Len(values)
           /\ \A i \in DOMAIN parsers : parsers[i] \in Parsers
           /\ \A i \in DOMAIN values : values[i] \in Digesters
           /\ Len(operands) \in Nat /\ Len(options) \in Nat
<1>1. parsers \in Seq(Parsers) /\ values \in Seq(Digesters)
  BY ArgParseAssumption DEF ArgTypes, Parsers
<1>2. /\ Len(parsers) \in Nat /\ DOMAIN parsers = 1 .. Len(parsers)
      /\ Len(values) \in Nat /\ DOMAIN values = 1 .. Len(values)
  BY <1>1, LenProperties
<1>3. /\ \A i \in DOMAIN parsers : parsers[i] \in Parsers
      /\ \A i \in DOMAIN values : values[i] \in Digesters
  BY <1>1, <1>2, ElementOfSeq
<1>4. Len(operands) \in Nat /\ Len(options) \in Nat
  BY LenProperties DEF ArgTypes
<1>5. QED
  BY <1>1, <1>2, <1>3, <1>4

\* What a digester holds after a digest(): at most one element more, the position
\* of the text or a default.
LEMMA DigestFacts ==
    ASSUME NEW kind \in Digesters, NEW m \in Nat, NEW digested \in Seq(0 .. m),
           NEW text, NEW n \in 0 .. m
    PROVE  /\ AfterDigest(kind, digested, text, n) \in Seq(0 .. m)
           /\ kind # "multi" /\ Len(digested) <= Limit =>
                 Len(AfterDigest(kind, digested, text, n)) <= Limit
<1>1. Default \in 0 .. m
  BY DEF Default
<1>2. /\ Append(digested, n) \in Seq(0 .. m) /\ Append(digested, Default) \in Seq(0 .. m)
      /\ Len(Append(digested, n)) = Len(digested) + 1
      /\ Len(Append(digested, Default)) = Len(digested) + 1
      /\ Len(digested) \in Nat
  BY <1>1, AppendProperties, LenProperties
<1>3. \/ AfterDigest(kind, digested, text, n) = digested
      \/ /\ CanDigest(kind, digested)
         /\ \/ AfterDigest(kind, digested, text, n) = Append(digested, n)
            \/ AfterDigest(kind, digested, text, n) = Append(digested, Default)
  BY DEF AfterDigest
<1>4. kind # "multi" /\ CanDigest(kind, digested) => Len(digested) < Limit
  <2>1. Limit \in Nat /\ Limit > 0
    BY ArgParseAssumption
  <2>2. ASSUME kind = "single", CanDigest(kind, digested) PROVE Len(digested) = 0
    BY <2>2, EmptySeq DEF CanDigest
  <2>3. ASSUME kind = "limited", CanDigest(kind, digested) PROVE Len(digested) < Limit
    BY <2>3 DEF CanDigest
  <2>4. QED
    BY <2>1, <2>2, <2>3 DEF Digesters
<1>5. AfterDigest(kind, digested, text, n) \in Seq(0 .. m)
  BY <1>2, <1>3
<1>6. ASSUME kind # "multi", Len(digested) <= Limit
      PROVE  Len(AfterDigest(kind, digested, text, n)) <= Limit
  <2>1. Limit \in Nat
    BY ArgParseAssumption
  <2>2. CASE AfterDigest(kind, digested, text, n) = digested
    BY <1>6, <2>2
  <2>3. CASE CanDigest(kind, digested)
    <3>1. Len(digested) + 1 <= Limit
      BY <1>2, <1>4, <1>6, <2>1, <2>3
    <3>2. QED
      BY <1>2, <1>3, <1>6, <3>1
  <2>4. QED
    BY <1>3, <2>2, <2>3
<1>7. QED
  BY <1>5, <1>6

-------------------------------------------------------------------------------
(* Types *)

LEMMA InitTypes == Init => ArgTypes
<1>1. SUFFICES ASSUME Init PROVE ArgTypes
  OBVIOUS
<1>2. parsers \in Seq(Parsers) /\ values \in Seq(Digesters)
  BY <1>1, ArgParseAssumption DEF Init, Parsers
<1>3. Len(values) \in Nat /\ Limit \in Nat /\ MaxOperands \in Nat
  BY <1>2, LenProperties, ArgParseAssumption
<1>4. /\ \A S : <<>> \in Seq(S)
      /\ Len(<<>>) = 0
  BY EmptySeq
<1>5. got \in [DOMAIN parsers -> Seq(0 .. MaxOptions)]
  BY <1>1, <1>4 DEF Init
<1>6. /\ stored \in [DOMAIN values -> Seq(0 .. MaxOperands)]
      /\ \A i \in DOMAIN values : Len(stored[i]) <= Limit
  BY <1>1, <1>3, <1>4 DEF Init
<1>7. QED
  BY <1>1, <1>3, <1>4, <1>5, <1>6 DEF Init, ArgTypes

LEMMA RegisterTypes == ArgTypes /\ Register => ArgTypes'
<1>1. SUFFICES ASSUME ArgTypes, Register PROVE ArgTypes'
  OBVIOUS
<1>2. /\ registered' \subseteq DOMAIN parsers
      /\ pc' \in {"building", "done"} /\ result' \in {result, "threw"}
  BY <1>1 DEF ArgTypes, Register
<1>3. QED
  BY <1>1, <1>2 DEF ArgTypes, Register, config, parserState, valueState

LEMMA BuiltTypes == ArgTypes /\ Built => ArgTypes'
<1>1. SUFFICES ASSUME ArgTypes, Built PROVE ArgTypes'
  OBVIOUS
<1>2. pc' \in {"options", "done"} /\ result' \in {result, "threw"} /\ index = 1
  BY <1>1 DEF ArgTypes, Built
<1>3. QED
  BY <1>1, <1>2 DEF ArgTypes, Built, config, parserState, valueState

LEMMA GetOptionTypes ==
    ASSUME ArgTypes, NEW i \in DOMAIN parsers, NEW text \in Texts, GetOption(i, text)
    PROVE  ArgTypes'
<1>1. /\ parsers[i] \in Parsers /\ Len(options) \in Nat
      /\ options \in Seq(Options) /\ Len(options) < MaxOptions
  BY TupleFacts DEF ArgTypes, GetOption
<1>2. options' \in Seq(Options)
  <2>1. [short |-> parsers[i].short, text |-> text] \in Options
    BY <1>1 DEF Parsers, Options
  <2>2. QED
    BY <1>1, <2>1, AppendProperties DEF GetOption
<1>3. ASSUME NEW j \in DOMAIN parsers
      PROVE  ParserGot(j, text) \in Seq(0 .. MaxOptions)
  <2>1. parsers[j].kind \in Digesters \cup {"boolean"} /\ got[j] \in Seq(0 .. MaxOptions)
    BY TupleFacts DEF ArgTypes, Parsers, Kinds
  <2>2. MaxOptions \in Nat /\ Len(options) + 1 \in 0 .. MaxOptions
    BY <1>1, ArgParseAssumption
  <2>3. CASE parsers[j].kind = "boolean" \/ text = "empty"
    BY <2>1, <2>3 DEF ParserGot
  <2>4. CASE ~(parsers[j].kind = "boolean" \/ text = "empty")
    BY <2>1, <2>2, <2>4, DigestFacts DEF ParserGot
  <2>5. QED
    BY <2>3, <2>4
<1>4. got' \in [DOMAIN parsers -> Seq(0 .. MaxOptions)]
  <2>1. got' = [j \in DOMAIN parsers |->
                   IF j \in Visited(parsers[i].short, text)
                   THEN ParserGot(j, text) ELSE got[j]]
    BY DEF GetOption, ParseOption
  <2>2. QED
    BY <1>3, <2>1 DEF ArgTypes
<1>5. present' \in [DOMAIN parsers -> BOOLEAN]
  BY DEF GetOption, ParseOption
<1>6. /\ pc' \in {"options", "done"} /\ result' \in {result, "Error"}
      /\ UNCHANGED <<config, registered, valueState, operands, missing>>
  BY DEF GetOption, ParseOption, Return
<1>7. index' = 1
  BY <1>6 DEF ArgTypes, GetOption, valueState
<1>8. QED
  BY <1>2, <1>4, <1>5, <1>6, <1>7 DEF ArgTypes, config, valueState

LEMMA StopTypes == ArgTypes /\ (GetHelp \/ GetUnknown) => ArgTypes'
<1>1. SUFFICES ASSUME ArgTypes, GetHelp \/ GetUnknown PROVE ArgTypes'
  OBVIOUS
<1>2. \E o \in Options : options' = Append(options, o)
  <2>1. /\ [short |-> "h", text |-> "empty"] \in Options
        /\ [short |-> "?", text |-> "empty"] \in Options
    BY DEF Options, Texts
  <2>2. QED
    BY <1>1, <2>1, Zenon DEF GetHelp, GetUnknown
<1>3. options' \in Seq(Options)
  BY <1>1, <1>2, AppendProperties DEF ArgTypes
<1>4. /\ pc' = "done" /\ result' \in {"Help", "Error"}
      /\ UNCHANGED <<config, registered, parserState, valueState, operands, missing>>
  BY <1>1 DEF GetHelp, GetUnknown, Return
<1>5. QED
  BY <1>1, <1>3, <1>4 DEF ArgTypes, config, parserState, valueState

LEMMA NoMoreOptionsTypes == ArgTypes /\ NoMoreOptions => ArgTypes'
<1>1. SUFFICES ASSUME ArgTypes, NoMoreOptions PROVE ArgTypes'
  OBVIOUS
<1>2. PICK n \in 0 .. MaxOperands : operands' \in [1 .. n -> OperandTexts]
  BY <1>1 DEF NoMoreOptions
<1>3. n \in Nat /\ n <= MaxOperands
  BY <1>2, ArgParseAssumption
<1>4. operands' \in Seq(OperandTexts) /\ Len(operands') = n
  BY <1>2, <1>3
<1>5. index' = 1 /\ index' \in 1 .. Len(operands') + 1
  BY <1>1, <1>3, <1>4 DEF ArgTypes, NoMoreOptions, valueState
<1>6. QED
  BY <1>1, <1>3, <1>4, <1>5 DEF ArgTypes, NoMoreOptions, config, parserState, valueState

LEMMA LeaveValueTypes ==
    ASSUME ArgTypes, NEW i \in DOMAIN values, LackValue(i) \/ NextValue(i)
    PROVE  ArgTypes'
<1>1. current' \in 1 .. Len(values) + 1
  BY TupleFacts DEF LackValue, NextValue, Visiting
<1>2. enough' \in BOOLEAN
  BY DEF ArgTypes, LackValue, NextValue
<1>3. UNCHANGED <<config, registered, parserState, stored, index, operands, missing,
                  options, pc, result>>
  BY DEF LackValue, NextValue
<1>4. QED
  BY <1>1, <1>2, <1>3 DEF ArgTypes, config, parserState

LEMMA DigestValueTypes ==
    ASSUME ArgTypes, NEW i \in DOMAIN values, DigestValue(i)
    PROVE  ArgTypes'
<1> DEFINE new == AfterDigest(values[i], stored[i], operands[index], index)
<1>1. /\ values[i] \in Digesters /\ Len(operands) \in Nat /\ MaxOperands \in Nat
      /\ stored[i] \in Seq(0 .. MaxOperands)
  BY TupleFacts, ArgParseAssumption DEF ArgTypes
<1>2. index \in Nat /\ index <= Len(operands) /\ index \in 0 .. MaxOperands
  BY <1>1 DEF ArgTypes, DigestValue, AtEnd
<1>3. /\ new \in Seq(0 .. MaxOperands)
      /\ values[i] # "multi" => Len(new) <= Limit
  BY <1>1, <1>2, DigestFacts DEF ArgTypes
<1>4. stored' = [stored EXCEPT ![i] = new]
  BY DEF DigestValue
<1> HIDE DEF new
<1>5. stored' \in [DOMAIN values -> Seq(0 .. MaxOperands)]
  BY <1>3, <1>4 DEF ArgTypes
<1>6. \A j \in DOMAIN values : values[j] # "multi" => Len(stored'[j]) <= Limit
  BY <1>3, <1>4 DEF ArgTypes
<1>7. index' \in {index, index + 1} /\ pc' \in {"values", "done"} /\ result' \in {result, "Error"}
  BY DEF DigestValue, Visiting, Return
<1>8. index' \in 1 .. Len(operands) + 1
  BY <1>1, <1>2, <1>7 DEF ArgTypes
<1>9. UNCHANGED <<config, registered, parserState, current, enough, operands, missing,
                  options>>
  BY DEF DigestValue
<1>10. QED
  BY <1>5, <1>6, <1>7, <1>8, <1>9 DEF ArgTypes, config, parserState

LEMMA FinishTypes == ArgTypes /\ Finish => ArgTypes'
<1>1. SUFFICES ASSUME ArgTypes, Finish PROVE ArgTypes'
  OBVIOUS
<1>2. missing' \subseteq DOMAIN values /\ pc' = "done" /\ result' \in {"Ok", "Error"}
  BY <1>1 DEF Finish, Unnamed, Return
<1>3. QED
  BY <1>1, <1>2 DEF ArgTypes, Finish, config, parserState, valueState

-------------------------------------------------------------------------------
(* The constructor *)

LEMMA InitConstructor == Init => ConstructorInv
<1>1. SUFFICES ASSUME Init PROVE ConstructorInv
  OBVIOUS
<1>2. Len(parsers) \in Nat
  BY <1>1, InitTypes, TupleFacts
<1>3. 0 \in 0 .. Len(parsers) /\ registered = 1 .. 0
  BY <1>1, <1>2 DEF Init
<1>4. registered = {} /\ result = "none" /\ pc = "building"
  BY <1>1 DEF Init
<1>5. QED
  BY <1>3, <1>4 DEF ConstructorInv

LEMMA RegisterConstructor == ArgTypes /\ ConstructorInv /\ Register => ConstructorInv'
<1>1. SUFFICES ASSUME ArgTypes, ConstructorInv, Register PROVE ConstructorInv'
  OBVIOUS
<1>2. PICK i \in DOMAIN parsers :
        /\ registered = 1 .. i - 1
        /\ \/ Duplicated(i) /\ pc' = "done" /\ result' = "threw" /\ UNCHANGED registered
           \/ ~Duplicated(i) /\ registered' = registered \cup {i} /\ UNCHANGED <<pc, result>>
  BY <1>1 DEF Register
<1>3. /\ UNCHANGED parsers /\ pc = "building" /\ result = "none"
      /\ Len(parsers) \in Nat /\ i \in 1 .. Len(parsers) /\ registered \subseteq DOMAIN parsers
  BY <1>1, <1>2, TupleFacts DEF Register, config, ConstructorInv, ArgTypes
<1>4. CASE Duplicated(i) /\ pc' = "done" /\ result' = "threw" /\ UNCHANGED registered
  <2>1. PICK j \in registered :
           \/ parsers[j].short = parsers[i].short
           \/ parsers[j].long = parsers[i].long
           \/ parsers[i].short = ":" /\ parsers[j].kind # "boolean"
    BY <1>4 DEF Duplicated, InShortOptions
  <2>2. j \in DOMAIN parsers \ {i} /\ j < i
    BY <1>2, <1>3, <2>1
  <2>3. ~Acceptable \/ ColonClash
    BY <2>1, <2>2 DEF Acceptable, ColonClash
  <2>4. (~Acceptable \/ ColonClash)'
    BY <1>3, <2>3 DEF Acceptable, ColonClash
  <2>5. QED
    BY <1>1, <1>3, <1>4, <2>4 DEF ConstructorInv
<1>5. CASE ~Duplicated(i) /\ registered' = registered \cup {i} /\ UNCHANGED <<pc, result>>
  <2>1. registered' = 1 .. i /\ i \in 0 .. Len(parsers')
    BY <1>2, <1>3, <1>5
  <2>2. \A j \in registered : /\ parsers[j].short # parsers[i].short
                              /\ parsers[j].long # parsers[i].long
                              /\ parsers[i].short = ":" => parsers[j].kind = "boolean"
                              /\ ~ (i < j)
    <3>1. \A j \in registered : /\ parsers[j].short # parsers[i].short
                                /\ parsers[j].long # parsers[i].long
                                /\ parsers[i].short = ":" => parsers[j].kind = "boolean"
      BY <1>5 DEF Duplicated, InShortOptions
    <3>2. \A j \in registered : ~ (i < j)
      BY <1>2, <1>3
    <3>3. QED
      BY <3>1, <3>2
  <2>3. \A j, k \in registered' :
           j # k => /\ parsers'[j].short # parsers'[k].short
                    /\ parsers'[j].long # parsers'[k].long
                    /\ k < j /\ parsers'[j].short = ":" => parsers'[k].kind = "boolean"
    <3>1. TAKE j, k \in registered'
    <3>2. CASE j \in registered /\ k \in registered
      BY <1>1, <1>3, <3>2 DEF ConstructorInv
    <3>3. CASE j = i \/ k = i
      BY <1>3, <1>5, <2>2, <3>3
    <3>4. QED
      BY <1>5, <3>2, <3>3
  <2>4. QED
    BY <1>3, <1>5, <2>1, <2>3 DEF ConstructorInv
<1>6. QED
  BY <1>2, <1>4, <1>5

LEMMA BuiltConstructor == ArgTypes /\ ConstructorInv /\ Built => ConstructorInv'
<1>1. SUFFICES ASSUME ArgTypes, ConstructorInv, Built PROVE ConstructorInv'
  OBVIOUS
<1>2. /\ UNCHANGED <<parsers, registered>> /\ pc = "building" /\ result = "none"
      /\ registered = DOMAIN parsers
  BY <1>1 DEF Built, config, ConstructorInv
<1>3. CASE \E i \in registered : parsers[i].short = "h" \/ parsers[i].long = "help"
  <2>1. ~Acceptable
    BY <1>2, <1>3 DEF Acceptable
  <2>2. (~Acceptable \/ ColonClash)'
    BY <1>2, <2>1 DEF Acceptable
  <2>3. pc' = "done" /\ result' = "threw"
    BY <1>1, <1>3 DEF Built
  <2>4. QED
    BY <1>1, <1>2, <2>2, <2>3 DEF ConstructorInv
<1>4. CASE ~ \E i \in registered : parsers[i].short = "h" \/ parsers[i].long = "help"
  <2>1. Acceptable /\ ~ColonClash
    <3>1. Acceptable
      BY <1>1, <1>2, <1>4 DEF Acceptable, ConstructorInv
    <3>2. DOMAIN parsers = 1 .. Len(parsers) /\ Len(parsers) \in Nat
      BY <1>1, TupleFacts
    <3>3. ~ColonClash
      BY <1>1, <1>2, <3>2 DEF ColonClash, ConstructorInv
    <3>4. QED
      BY <3>1, <3>3
  <2>2. Acceptable' /\ ~ColonClash'
    BY <1>2, <2>1 DEF Acceptable, ColonClash
  <2>3. pc' = "options" /\ result' = "none"
    BY <1>1, <1>2, <1>4 DEF Built
  <2>4. QED
    BY <1>1, <1>2, <2>2, <2>3 DEF ConstructorInv
<1>5. QED
  BY <1>3, <1>4

\* parse() leaves the constructor's work alone.
LEMMA ParseConstructor ==
    ASSUME ConstructorInv, UNCHANGED <<parsers, registered>>,
           pc \in {"options", "values"}, pc' # "building",
           result' \in {result, "Ok", "Error", "Help"}
    PROVE  ConstructorInv'
<1>1. result # "threw" /\ Acceptable /\ ~ColonClash
  BY DEF ConstructorInv
<1>2. Acceptable' /\ ~ColonClash'
  BY <1>1 DEF Acceptable, ColonClash
<1>3. result' # "threw"
  BY <1>1
<1>4. QED
  BY <1>2, <1>3 DEF ConstructorInv

-------------------------------------------------------------------------------
(* Theorems *)

LEMMA NextArg == ArgInv /\ [Next]_vars => ArgInv'
<1>1. SUFFICES ASSUME ArgTypes, ConstructorInv, [Next]_vars
               PROVE  ArgTypes' /\ ConstructorInv'
  BY DEF ArgInv
<1>2. CASE Register
  BY <1>1, <1>2, RegisterTypes, RegisterConstructor
<1>3. CASE Built
  BY <1>1, <1>3, BuiltTypes, BuiltConstructor
<1>4. ASSUME NEW i \in DOMAIN parsers, NEW text \in Texts, GetOption(i, text)
      PROVE  ArgTypes' /\ ConstructorInv'
  <2>1. /\ UNCHANGED <<parsers, registered>> /\ pc = "options" /\ pc' # "building"
        /\ result' \in {result, "Error"}
    BY <1>4 DEF GetOption, ParseOption, Return, config
  <2>2. QED
    BY <1>1, <1>4, <2>1, GetOptionTypes, ParseConstructor
<1>5. CASE GetHelp \/ GetUnknown
  <2>1. /\ UNCHANGED <<parsers, registered>> /\ pc = "options" /\ pc' # "building"
        /\ result' \in {"Help", "Error"}
    BY <1>5 DEF GetHelp, GetUnknown, Return, config
  <2>2. QED
    BY <1>1, <1>5, <2>1, StopTypes, ParseConstructor
<1>6. CASE NoMoreOptions
  <2>1. /\ UNCHANGED <<parsers, registered>> /\ pc = "options" /\ pc' # "building"
        /\ UNCHANGED result
    BY <1>6 DEF NoMoreOptions, config
  <2>2. QED
    BY <1>1, <1>6, <2>1, NoMoreOptionsTypes, ParseConstructor
<1>7. ASSUME NEW i \in DOMAIN values, LackValue(i) \/ NextValue(i)
      PROVE  ArgTypes' /\ ConstructorInv'
  <2>1. /\ UNCHANGED <<parsers, registered>> /\ pc = "values" /\ pc' # "building"
        /\ UNCHANGED result
    BY <1>7 DEF LackValue, NextValue, Visiting, config
  <2>2. QED
    BY <1>1, <1>7, <2>1, LeaveValueTypes, ParseConstructor
<1>8. ASSUME NEW i \in DOMAIN values, DigestValue(i)
      PROVE  ArgTypes' /\ ConstructorInv'
  <2>1. /\ UNCHANGED <<parsers, registered>> /\ pc = "values" /\ pc' # "building"
        /\ result' \in {result, "Error"}
    BY <1>8 DEF DigestValue, Visiting, Return, config
  <2>2. QED
    BY <1>1, <1>8, <2>1, DigestValueTypes, ParseConstructor
<1>9. CASE Finish
  <2>1. /\ UNCHANGED <<parsers, registered>> /\ pc = "values" /\ pc' # "building"
        /\ result' \in {"Ok", "Error"}
    BY <1>9 DEF Finish, Return, config
  <2>2. QED
    BY <1>1, <1>9, <2>1, FinishTypes, ParseConstructor
<1>10. CASE UNCHANGED vars
  <2>1. UNCHANGED <<parsers, values, registered, present, got, stored, index, current,
                    enough, operands, missing, options, pc, result>>
    BY <1>10 DEF vars, config, parserState, valueState
  <2>2. QED
    BY <1>1, <2>1 DEF ArgTypes, ConstructorInv, Acceptable, ColonClash
<1>11. QED
  BY <1>1, <1>2, <1>3, <1>4, <1>5, <1>6, <1>7, <1>8, <1>9, <1>10 DEF Next, Done

LEMMA ArgInvariant == Spec => []ArgInv
<1>1. Init => ArgInv
  BY InitTypes, InitConstructor DEF ArgInv
<1>2. QED
  BY <1>1, NextArg, PTL DEF Spec

\* Type correctness, and the limits of the values: a SingleValue digests at most one
\* text and a LimitedMultiValue at most N, also when digest() throws
\* (Values.h:334-345).
THEOREM ArgTypesHold == Spec => []TypeOK
<1>1. ArgInv => TypeOK
  BY DEF ArgInv, ArgTypes, TypeOK
<1>2. QED
  BY <1>1, ArgInvariant, PTL

\* The constructor throws exactly for the clashes that ArgParser.h:166-167 names,
\* whatever the number and the order of the parsers, and for one that it does not
\* name: a short option ':' behind a parser that takes an argument, which it finds
\* in short_options (ArgParser.h:488).
THEOREM ConstructorIsExact == Spec => []ConstructorExact
<1>1. ArgInv => ConstructorExact
  BY DEF ArgInv, ConstructorInv, ConstructorExact
<1>2. QED
  BY <1>1, ArgInvariant, PTL

-------------------------------------------------------------------------------
(* What the parsers digest *)

\* While the options are read, as long as none was refused.
OptionInv ==
    /\ pc = "building" =>
          /\ options = <<>>
          /\ \A i \in DOMAIN parsers : ~present[i] /\ got[i] = <<>>
    /\ pc \in {"options", "values"} \/ result = "Ok" =>
          \A i \in DOMAIN parsers :
              /\ present[i] <=> Occurrences(i) # {}
              /\ parsers[i].kind # "boolean" => Lists(got[i], Occurrences(i))

\* A later position goes to the end.
LEMMA ListsAppend ==
    ASSUME NEW m \in Nat, NEW digested \in Seq(0 .. m), NEW S, NEW n \in 0 .. m,
           \A p \in S : p < n, Lists(digested, S)
    PROVE  Lists(Append(digested, n), S \cup {n})
<1> DEFINE new == Append(digested, n)
<1>1. /\ Len(digested) \in Nat /\ DOMAIN digested = 1 .. Len(digested)
      /\ DOMAIN new = 1 .. Len(digested) + 1
      /\ \A k \in 1 .. Len(digested) : new[k] = digested[k]
      /\ new[Len(digested) + 1] = n
  BY AppendProperties, LenProperties
<1>2. /\ \A p \in S : \E k \in DOMAIN digested : digested[k] = p
      /\ \A k \in DOMAIN digested :
            /\ digested[k] \in S
            /\ \A l \in DOMAIN digested : k < l => digested[k] < digested[l]
  BY DEF Lists
<1> HIDE DEF new
<1>3. ASSUME NEW p \in S \cup {n} PROVE \E k \in DOMAIN new : new[k] = p
  <2>1. CASE p = n
    <3>1. Len(digested) + 1 \in DOMAIN new
      BY <1>1
    <3>2. QED
      BY <1>1, <2>1, <3>1
  <2>2. CASE p \in S
    <3>1. PICK k \in DOMAIN digested : digested[k] = p
      BY <1>2, <2>2
    <3>2. k \in DOMAIN new /\ new[k] = p
      BY <1>1, <3>1
    <3>3. QED
      BY <3>2
  <2>3. QED
    BY <2>1, <2>2
<1>4. ASSUME NEW k \in DOMAIN new
      PROVE  /\ new[k] \in S \cup {n}
             /\ \A l \in DOMAIN new : k < l => new[k] < new[l]
  <2>1. CASE k = Len(digested) + 1
    BY <1>1, <2>1
  <2>2. CASE k # Len(digested) + 1
    <3>1. k \in DOMAIN digested /\ new[k] = digested[k] /\ new[k] \in S
      BY <1>1, <1>2, <2>2
    <3>2. ASSUME NEW l \in DOMAIN new, k < l PROVE new[k] < new[l]
      <4>1. CASE l = Len(digested) + 1
        BY <1>1, <3>1, <4>1
      <4>2. CASE l # Len(digested) + 1
        <5>1. l \in DOMAIN digested /\ new[l] = digested[l]
          BY <1>1, <4>2
        <5>2. QED
          BY <1>2, <3>1, <3>2, <5>1
      <4>3. QED
        BY <4>1, <4>2
    <3>3. QED
      BY <3>1, <3>2
  <2>3. QED
    BY <2>1, <2>2
<1>5. QED
  BY <1>3, <1>4 DEF Lists, new

\* getopt_long returned an option, and its parser took it.
LEMMA GetOptionDigests ==
    ASSUME ArgInv, OptionInv, NEW i \in DOMAIN parsers, NEW text \in Texts,
           GetOption(i, text)
    PROVE  OptionInv'
<1> DEFINE n == Len(options) + 1
<1>1. /\ pc = "options" /\ UNCHANGED parsers
      /\ options' = Append(options, [short |-> parsers[i].short, text |-> text])
      /\ Len(options) \in Nat /\ Len(options) < MaxOptions /\ options \in Seq(Options)
      /\ parsers[i].kind = "boolean" => text = "empty"
      /\ parsers[i].short \in STRING
  BY TupleFacts DEF ArgInv, ArgTypes, GetOption, config, Parsers
<1>2. CASE \E j \in Visited(parsers[i].short, text) : ParserThrows(j, text)
  <2>1. pc' = "done" /\ result' = "Error"
    BY <1>2 DEF GetOption, ParseOption, Return
  <2>2. QED
    BY <2>1 DEF OptionInv
<1>3. CASE ~ \E j \in Visited(parsers[i].short, text) : ParserThrows(j, text)
  <2>1. \A j \in DOMAIN parsers : j # i => parsers[j].short # parsers[i].short
    <3>1. Acceptable
      <4>1. result # "threw"
        BY <1>1 DEF ArgInv, ConstructorInv
      <4>2. QED
        BY <1>1, <4>1 DEF ArgInv, ConstructorInv
    <3>2. QED
      BY <3>1 DEF Acceptable
  <2>2. Visited(parsers[i].short, text) = {i}
    <3>1. DOMAIN parsers = 1 .. Len(parsers) /\ Len(parsers) \in Nat
      BY TupleFacts DEF ArgInv
    <3>2. i \notin 1 .. i - 1
      BY <3>1
    <3>3. \A j \in 1 .. i - 1 : j \in DOMAIN parsers
      BY <3>1
    <3>4. QED
      BY <2>1, <3>2, <3>3 DEF Visited
  <2>3. ~ParserThrows(i, text)
    BY <1>3, <2>2
  <2>4. \A j \in DOMAIN parsers :
           /\ present'[j] = (present[j] \/ (j = i /\ ParserIsPresent(i, text)))
           /\ got'[j] = IF j = i THEN ParserGot(i, text) ELSE got[j]
    BY <2>2 DEF GetOption, ParseOption
  <2>5. /\ DOMAIN options' = 1 .. n /\ n \in Nat /\ n \notin 1 .. Len(options)
        /\ options'[n].short = parsers[i].short
        /\ DOMAIN options = 1 .. Len(options)
        /\ \A m \in DOMAIN options : options'[m] = options[m]
        /\ 1 .. n = (1 .. Len(options)) \cup {n}
    <3>1. [short |-> parsers[i].short, text |-> text] \in Options
      BY <1>1 DEF Options
    <3>2. QED
      BY <1>1, <3>1, AppendProperties, LenProperties
  <2> HIDE DEF n
  <2>6. \A j \in DOMAIN parsers :
           Occurrences(j)' = IF j = i THEN Occurrences(j) \cup {n} ELSE Occurrences(j)
    BY <1>1, <2>1, <2>5 DEF Occurrences
  <2>7. ParserIsPresent(i, text)
    BY <1>1, <2>3 DEF ParserThrows, ParserIsPresent
  <2>8. \A j \in DOMAIN parsers :
           /\ present[j] <=> Occurrences(j) # {}
           /\ parsers[j].kind # "boolean" => Lists(got[j], Occurrences(j))
    BY <1>1 DEF OptionInv
  <2>9. ASSUME parsers[i].kind # "boolean"
        PROVE  Lists(ParserGot(i, text), Occurrences(i) \cup {n})
    <3>1. ParserGot(i, text) = Append(got[i], n)
      BY <2>3, <2>9 DEF ParserThrows, Throws, ParserGot, AfterDigest, n
    <3>2. \A p \in Occurrences(i) : p < n
      BY <1>1, <2>5 DEF Occurrences, n
    <3>3. n \in 0 .. MaxOptions /\ MaxOptions \in Nat
      BY <1>1, ArgParseAssumption DEF n
    <3>4. got[i] \in Seq(0 .. MaxOptions)
      BY DEF ArgInv, ArgTypes
    <3>5. QED
      BY <2>8, <2>9, <3>1, <3>2, <3>3, <3>4, ListsAppend
  <2>10. ASSUME NEW j \in DOMAIN parsers
         PROVE  /\ present'[j] <=> Occurrences(j)' # {}
                /\ parsers[j].kind # "boolean" => Lists(got'[j], Occurrences(j)')
    <3>1. CASE j = i
      BY <2>4, <2>6, <2>7, <2>9, <3>1
    <3>2. CASE j # i
      BY <2>4, <2>6, <2>8, <3>2
    <3>3. QED
      BY <3>1, <3>2
  <2>11. pc' = "options"
    BY <1>1, <1>3 DEF GetOption, ParseOption
  <2>12. QED
    BY <1>1, <2>10, <2>11 DEF OptionInv, Occurrences, Lists
<1>4. QED
  BY <1>2, <1>3

\* The constructor digests nothing, and what comes after the options leaves the
\* parsers alone.
LEMMA OptionsKept ==
    ASSUME OptionInv, UNCHANGED <<parsers, present, got, options>>,
           pc' = "building" => pc = "building",
           pc' = "values" \/ result' = "Ok" =>
              pc \in {"options", "values"} \/ result = "Ok",
           pc' = "options" => pc = "building"
    PROVE  OptionInv'
<1>1. ASSUME pc = "building", NEW i \in DOMAIN parsers
      PROVE  /\ present[i] <=> Occurrences(i) # {}
             /\ parsers[i].kind # "boolean" => Lists(got[i], Occurrences(i))
  <2>1. options = <<>> /\ ~present[i] /\ got[i] = <<>>
    BY <1>1 DEF OptionInv
  <2>2. DOMAIN options = {} /\ DOMAIN got[i] = {}
    BY <2>1
  <2>3. Occurrences(i) = {}
    BY <2>2 DEF Occurrences
  <2>4. QED
    BY <2>1, <2>2, <2>3 DEF Lists
<1>2. pc' = "building" =>
         /\ options' = <<>>
         /\ \A i \in DOMAIN parsers' : ~present'[i] /\ got'[i] = <<>>
  BY DEF OptionInv
<1>3. pc' \in {"options", "values"} \/ result' = "Ok" =>
         \A i \in DOMAIN parsers :
             /\ present[i] <=> Occurrences(i) # {}
             /\ parsers[i].kind # "boolean" => Lists(got[i], Occurrences(i))
  BY <1>1 DEF OptionInv
<1>4. \A i \in DOMAIN parsers : Occurrences(i)' = Occurrences(i)
  BY DEF Occurrences
<1>5. QED
  BY <1>2, <1>3, <1>4 DEF OptionInv

-------------------------------------------------------------------------------
(* What the values digest *)

\* The positions before index are where the values before the current one, and
\* it, have put them; the values after it are empty.
InOrder ==
    /\ \A n \in 1 .. index - 1 :
          \E i \in DOMAIN values : \E k \in DOMAIN stored[i] : stored[i][k] = n
    /\ \A i \in DOMAIN values : \A k \in DOMAIN stored[i] :
          /\ stored[i][k] \in 1 .. index - 1
          /\ \A j \in DOMAIN values : \A l \in DOMAIN stored[j] :
                i < j \/ (i = j /\ k < l) => stored[i][k] < stored[j][l]

OperandInv ==
    /\ pc \in {"building", "options"} => \A i \in DOMAIN values : stored[i] = <<>>
    /\ pc = "values" => \A i \in DOMAIN values : i > current => stored[i] = <<>>
    /\ pc = "values" \/ result = "Ok" => InOrder

\* The current value takes the next positional.
LEMMA DigestValueInOrder ==
    ASSUME ArgInv, OperandInv, NEW i \in DOMAIN values, DigestValue(i)
    PROVE  OperandInv'
<1>1. /\ pc = "values" /\ current = i /\ index <= Len(operands)
      /\ UNCHANGED <<values, current>> /\ CanDigest(values[i], stored[i])
      /\ stored' = [stored EXCEPT ![i] =
                       AfterDigest(values[i], stored[i], operands[index], index)]
  <2>1. index \in 1 .. Len(operands) + 1 /\ Len(operands) \in Nat
    BY TupleFacts DEF ArgInv, ArgTypes
  <2>2. QED
    BY <2>1 DEF DigestValue, Visiting, AtEnd, config
<1>2. CASE Throws(values[i], stored[i], operands[index])
  <2>1. pc' = "done" /\ result' = "Error"
    BY <1>2 DEF DigestValue, Return
  <2>2. QED
    BY <2>1 DEF OperandInv
<1>3. CASE ~Throws(values[i], stored[i], operands[index])
  <2> DEFINE new == Append(stored[i], index)
  <2>1. index' = index + 1 /\ pc' = "values"
    BY <1>1, <1>3 DEF DigestValue
  <2>2. /\ stored \in [DOMAIN values -> Seq(0 .. MaxOperands)]
        /\ index \in Nat /\ index >= 1 /\ index \in 0 .. MaxOperands
        /\ DOMAIN values = 1 .. Len(values) /\ Len(values) \in Nat
    <3>1. /\ index \in 1 .. Len(operands) + 1 /\ Len(operands) \in Nat
          /\ Len(operands) <= MaxOperands /\ MaxOperands \in Nat
      BY TupleFacts, ArgParseAssumption DEF ArgInv, ArgTypes
    <3>2. QED
      BY <1>1, <3>1, TupleFacts DEF ArgInv, ArgTypes
  <2>3. stored' = [stored EXCEPT ![i] = new]
    BY <1>1, <1>3 DEF Throws, AfterDigest
  <2>4. /\ Len(stored[i]) \in Nat /\ DOMAIN stored[i] = 1 .. Len(stored[i])
        /\ DOMAIN new = 1 .. Len(stored[i]) + 1
        /\ \A k \in 1 .. Len(stored[i]) : new[k] = stored[i][k]
        /\ new[Len(stored[i]) + 1] = index
    BY <2>2, AppendProperties, LenProperties
  <2> HIDE DEF new
  <2>5. \A j \in DOMAIN values : stored'[j] = IF j = i THEN new ELSE stored[j]
    BY <2>2, <2>3
  <2>6. \A j \in DOMAIN values : j > i => stored[j] = <<>>
    BY <1>1 DEF OperandInv
  <2>7. InOrder
    BY <1>1 DEF OperandInv
  <2>8. /\ DOMAIN values' = DOMAIN values /\ index' - 1 = index
        /\ 1 .. index' - 1 = (1 .. index - 1) \cup {index}
    BY <1>1, <2>1, <2>2
  <2>9. ASSUME NEW n \in 1 .. index
        PROVE  \E j \in DOMAIN values : \E k \in DOMAIN stored'[j] : stored'[j][k] = n
    <3>1. CASE n = index
      <4>1. stored'[i] = new /\ Len(stored[i]) + 1 \in DOMAIN new
        BY <2>4, <2>5
      <4>2. QED
        BY <2>4, <3>1, <4>1
    <3>2. CASE n # index
      <4>1. n \in 1 .. index - 1
        BY <2>2, <3>2
      <4>2. PICK j \in DOMAIN values : \E k \in DOMAIN stored[j] : stored[j][k] = n
        BY <2>7, <4>1 DEF InOrder
      <4>3. PICK k \in DOMAIN stored[j] : stored[j][k] = n
        BY <4>2
      <4>4. k \in DOMAIN stored'[j] /\ stored'[j][k] = n
        BY <2>4, <2>5, <4>3
      <4>5. QED
        BY <4>4
    <3>3. QED
      BY <3>1, <3>2
  <2>10. ASSUME NEW j \in DOMAIN values, NEW k \in DOMAIN stored'[j]
         PROVE  \/ /\ j = i /\ k = Len(stored[i]) + 1 /\ stored'[j][k] = index
                \/ /\ j <= i /\ k \in DOMAIN stored[j] /\ stored'[j][k] = stored[j][k]
                   /\ j = i => k <= Len(stored[i])
                   /\ stored[j][k] \in 1 .. index - 1
    <3>1. CASE j = i
      <4>1. stored'[j] = new /\ k \in 1 .. Len(stored[i]) + 1
        BY <2>4, <2>5, <3>1
      <4>2. CASE k = Len(stored[i]) + 1
        BY <2>4, <3>1, <4>1, <4>2
      <4>3. CASE k # Len(stored[i]) + 1
        <5>1. k \in 1 .. Len(stored[i]) /\ k <= Len(stored[i])
          BY <2>4, <4>1, <4>3
        <5>2. k \in DOMAIN stored[i] /\ new[k] = stored[i][k]
          BY <2>4, <5>1
        <5>3. stored[i][k] \in 1 .. index - 1
          BY <2>7, <5>2 DEF InOrder
        <5>4. j <= i
          BY <2>2, <3>1
        <5>5. QED
          BY <3>1, <4>1, <5>1, <5>2, <5>3, <5>4
      <4>4. QED
        BY <4>2, <4>3
    <3>2. CASE j # i
      <4>1. k \in DOMAIN stored[j] /\ stored'[j][k] = stored[j][k]
        BY <2>5, <3>2
      <4>2. ~(j > i)
        BY <2>6, <4>1
      <4>3. j <= i
        BY <2>2, <4>2
      <4>4. stored[j][k] \in 1 .. index - 1
        BY <2>7, <4>1 DEF InOrder
      <4>5. QED
        BY <3>2, <4>1, <4>3, <4>4
    <3>3. QED
      BY <3>1, <3>2
  <2>11. ASSUME NEW j \in DOMAIN values, NEW k \in DOMAIN stored'[j],
                NEW m \in DOMAIN values, NEW l \in DOMAIN stored'[m],
                j < m \/ (j = m /\ k < l)
         PROVE  stored'[j][k] < stored'[m][l]
    <3>1. CASE m = i /\ l = Len(stored[i]) + 1 /\ stored'[m][l] = index
      <4>1. ~(j = i /\ k = Len(stored[i]) + 1)
        <5>1. i \in Nat
          BY <2>2
        <5>2. QED
          BY <2>4, <2>11, <3>1, <5>1
      <4>2. stored'[j][k] \in 1 .. index - 1
        BY <2>10, <4>1
      <4>3. QED
        BY <2>2, <3>1, <4>2
    <3>2. CASE ~(m = i /\ l = Len(stored[i]) + 1 /\ stored'[m][l] = index)
      <4>1. /\ m <= i /\ l \in DOMAIN stored[m] /\ stored'[m][l] = stored[m][l]
            /\ m = i => l <= Len(stored[i])
        BY <2>10, <3>2
      <4>2. ~(j = i /\ k = Len(stored[i]) + 1)
        <5>1. SUFFICES ASSUME j = i, k = Len(stored[i]) + 1 PROVE FALSE
          OBVIOUS
        <5>2. j = m /\ k < l /\ l <= Len(stored[i])
          BY <2>2, <2>11, <4>1, <5>1
        <5>3. l \in Nat
          BY <2>4, <4>1, <5>1, <5>2
        <5>4. QED
          BY <2>4, <5>1, <5>2, <5>3
      <4>3. k \in DOMAIN stored[j] /\ stored'[j][k] = stored[j][k]
        BY <2>10, <4>2
      <4>4. QED
        BY <2>7, <2>11, <4>1, <4>3 DEF InOrder
    <3>3. QED
      BY <3>1, <3>2
  <2>12. ASSUME NEW j \in DOMAIN values, NEW k \in DOMAIN stored'[j]
         PROVE  stored'[j][k] \in 1 .. index
    <3>1. stored'[j][k] = index \/ stored'[j][k] \in 1 .. index - 1
      BY <2>10
    <3>2. QED
      BY <2>2, <3>1
  <2>13. InOrder'
    BY <2>1, <2>2, <2>8, <2>9, <2>11, <2>12 DEF InOrder
  <2>14. \A j \in DOMAIN values : j > i => stored'[j] = <<>>
    BY <2>2, <2>5, <2>6
  <2>15. QED
    BY <1>1, <2>1, <2>13, <2>14 DEF OperandInv
<1>4. QED
  BY <1>2, <1>3

\* The steps that store nothing in the values: the visits move on, and none is
\* made before the options are read.
LEMMA ValuesKept ==
    ASSUME ArgInv, OperandInv, UNCHANGED <<values, stored, index>>,
           current' \in {current, current + 1},
           pc' \in {"building", "options"} => pc \in {"building", "options"},
           pc' = "values" => pc \in {"options", "values"},
           result' = "Ok" => pc \in {"options", "values"} \/ result = "Ok"
    PROVE  OperandInv'
<1>1. current \in Nat /\ DOMAIN values = 1 .. Len(values) /\ Len(values) \in Nat
  BY TupleFacts DEF ArgInv, ArgTypes
<1>2. ASSUME pc \in {"building", "options"} PROVE InOrder
  <2>1. index = 1 /\ \A i \in DOMAIN values : stored[i] = <<>>
    BY <1>2 DEF ArgInv, ArgTypes, OperandInv
  <2>2. 1 .. index - 1 = {} /\ \A i \in DOMAIN values : DOMAIN stored[i] = {}
    BY <2>1
  <2>3. QED
    BY <2>2 DEF InOrder
<1>3. pc' = "values" \/ result' = "Ok" => InOrder'
  <2>1. pc' = "values" \/ result' = "Ok" => InOrder
    BY <1>2 DEF OperandInv
  <2>2. QED
    BY <2>1 DEF InOrder
<1>4. pc' \in {"building", "options"} => \A i \in DOMAIN values : stored[i] = <<>>
  BY DEF OperandInv
<1>5. pc' = "values" => \A i \in DOMAIN values : i > current' => stored[i] = <<>>
  <2>1. \A i \in DOMAIN values : i > current' => i > current
    BY <1>1
  <2>2. QED
    BY <2>1 DEF OperandInv
<1>6. QED
  BY <1>3, <1>4, <1>5 DEF OperandInv

-------------------------------------------------------------------------------

DigestInv == ArgInv /\ OptionInv /\ OperandInv

LEMMA InitDigest == Init => DigestInv
<1> SUFFICES ASSUME Init PROVE DigestInv
  OBVIOUS
<1>1. ArgInv
  BY InitTypes, InitConstructor DEF ArgInv
<1>2. OptionInv
  BY DEF Init, OptionInv
<1>3. OperandInv
  BY DEF Init, OperandInv
<1>4. QED
  BY <1>1, <1>2, <1>3 DEF DigestInv

LEMMA NextDigest == DigestInv /\ [Next]_vars => DigestInv'
<1> SUFFICES ASSUME ArgInv, OptionInv, OperandInv, [Next]_vars
             PROVE  OptionInv' /\ OperandInv'
  BY NextArg DEF DigestInv
<1>1. /\ pc = "building" => result = "none"
      /\ current \in Nat
  BY TupleFacts DEF ArgInv, ConstructorInv, ArgTypes
<1>2. CASE Register \/ Built
  <2>1. /\ UNCHANGED <<parsers, values, present, got, stored, options, index, current>>
        /\ pc = "building" /\ pc' \in {"building", "options", "done"}
        /\ result' \in {"none", "threw"}
    BY <1>1, <1>2 DEF Register, Built, config, parserState, valueState
  <2>2. QED
    BY <2>1, OptionsKept, ValuesKept
<1>3. ASSUME NEW i \in DOMAIN parsers, NEW text \in Texts, GetOption(i, text)
      PROVE  OptionInv' /\ OperandInv'
  <2>1. /\ UNCHANGED <<values, stored, index, current>>
        /\ pc = "options" /\ pc' \in {"options", "done"}
        /\ result' \in {result, "Error"}
    BY <1>3 DEF GetOption, ParseOption, Return, config, valueState
  <2>2. OperandInv'
    BY <2>1, ValuesKept
  <2>3. QED
    BY <1>3, <2>2, GetOptionDigests
<1>4. CASE GetHelp \/ GetUnknown
  <2>1. pc' = "done" /\ result' \in {"Help", "Error"}
    BY <1>4 DEF GetHelp, GetUnknown, Return
  <2>2. QED
    BY <2>1 DEF OptionInv, OperandInv
<1>5. CASE NoMoreOptions
  <2>1. /\ UNCHANGED <<parsers, values, present, got, stored, options, index, current,
                       result>>
        /\ pc = "options" /\ pc' = "values"
    BY <1>5 DEF NoMoreOptions, config, parserState, valueState
  <2>2. QED
    BY <2>1, OptionsKept, ValuesKept
<1>6. ASSUME NEW i \in DOMAIN values, LackValue(i) \/ NextValue(i)
      PROVE  OptionInv' /\ OperandInv'
  <2>1. /\ UNCHANGED <<parsers, values, present, got, stored, options, index, pc, result>>
        /\ pc = "values" /\ current' = current + 1
    BY <1>6 DEF LackValue, NextValue, Visiting, config, parserState
  <2>2. QED
    BY <2>1, OptionsKept, ValuesKept
<1>7. ASSUME NEW i \in DOMAIN values, DigestValue(i)
      PROVE  OptionInv' /\ OperandInv'
  <2>1. /\ UNCHANGED <<parsers, present, got, options>>
        /\ pc = "values" /\ pc' \in {"values", "done"} /\ result' \in {result, "Error"}
    BY <1>7 DEF DigestValue, Visiting, Return, config, parserState
  <2>2. OptionInv'
    BY <2>1, OptionsKept
  <2>3. QED
    BY <1>7, <2>2, DigestValueInOrder
<1>8. CASE Finish
  <2>1. /\ UNCHANGED <<parsers, values, present, got, stored, options, index, current>>
        /\ pc = "values" /\ pc' = "done"
    BY <1>8 DEF Finish, Return, config, parserState, valueState
  <2>2. QED
    BY <2>1, OptionsKept, ValuesKept
<1>9. CASE UNCHANGED vars
  <2>1. UNCHANGED <<parsers, values, present, got, stored, index, current, options, pc,
                    result>>
    BY <1>9 DEF vars, config, parserState, valueState
  <2>2. QED
    BY <2>1 DEF OptionInv, OperandInv, InOrder, Occurrences, Lists
<1>10. QED
  BY <1>2, <1>3, <1>4, <1>5, <1>6, <1>7, <1>8, <1>9 DEF Next, Done

LEMMA DigestInvariant == Spec => []DigestInv
BY InitDigest, NextDigest, PTL DEF Spec

\* Any number of options, repeated and mixed: no parser takes the option of
\* another, loses one or takes it twice, although for_each_tuple visits them all
\* for each option (ArgParser.h:355-367).  It rests on the constructor, which
\* accepts no two parsers with the same short option.
THEOREM OptionsOnce == Spec => []OptionsDigestedOnce
<1>1. DigestInv => OptionsDigestedOnce
  BY DEF DigestInv, OptionInv, OptionsDigestedOnce
<1>2. QED
  BY <1>1, DigestInvariant, PTL

\* Any tuple of values and any number of positionals: what ParseValues hands to the
\* values is the command line in its order (ArgParser.h:375-388).
THEOREM ValuesInOrder == Spec => []OperandsInOrder
<1>1. DigestInv => OperandsInOrder
  BY DEF DigestInv, OperandInv, InOrder, OperandsInOrder
<1>2. QED
  BY <1>1, DigestInvariant, PTL

-------------------------------------------------------------------------------
(* The result *)

\* While the options are read, all of them are good, and each parser has digested
\* as many as it was given.
OptionResult ==
    /\ pc # "done" => result = "none"
    /\ pc \in {"options", "values"} \/ result = "Ok" =>
          /\ OptionsGood
          /\ \A i \in DOMAIN parsers :
                parsers[i].kind # "boolean" =>
                    Cardinality(Occurrences(i)) = Len(got[i])
    /\ result = "Error" /\ OptionsGood /\ OperandsGood => Starved

\* The shares of the values that were visited, in positions, against every other way
\* to share the positionals out: no way gives the visited values fewer texts than
\* there are values, and while there are texts left, none gives them more.
Visits(cut) ==
    /\ cut \in [0 .. Len(values) -> 0 .. Len(operands)] /\ cut[0] = 0
    /\ index - 1 = cut[current - 1] +
                      (IF current \in DOMAIN values THEN Len(stored[current]) ELSE 0)
    /\ enough => \A i \in 1 .. current - 1 : cut[i] - cut[i - 1] \in 1 .. Most(values[i])
    /\ (\A i \in 1 .. current - 1 : Len(stored[i]) <= 1) =>
          /\ cut[current - 1] <= current - 1
          /\ ~enough => cut[current - 1] < current - 1
    /\ \A other \in [0 .. Len(values) -> 0 .. Len(operands)] :
          Shares(other) =>
              /\ other[current - 1] >= current - 1
              /\ enough => other[current - 1] <= cut[current - 1] \/ AtEnd

\* From some value on nothing was left.
Exhausted ==
    /\ AtEnd
    /\ \E i \in 1 .. current - 1 : \A k \in i .. Len(values) : stored[k] = <<>>

OperandResult ==
    /\ pc \in {"building", "options"} => current = 1 /\ enough
    /\ result = "Ok" => OperandsGood
    /\ pc = "values" =>
          /\ \A n \in 1 .. index - 1 : operands[n] = "good"
          /\ \A i \in DOMAIN values :
                values[i] # "multi" => Len(stored[i]) <= Most(values[i])
          /\ \E cut : Visits(cut)
          /\ enough \/ Exhausted

-------------------------------------------------------------------------------

LEMMA MostFacts ==
    /\ \A kind \in Digesters : Most(kind) \in Nat
    /\ Most("single") = 1 /\ Most("limited") = Limit
    /\ Most("multi") = MaxOperands + MaxOptions
    /\ Limit \in Nat /\ Limit >= 1 /\ MaxOperands \in Nat /\ MaxOptions \in Nat
BY ArgParseAssumption DEF Most, Digesters

LEMMA OccurrenceFacts ==
    ASSUME ArgTypes, NEW i \in DOMAIN parsers
    PROVE  /\ IsFiniteSet(Occurrences(i)) /\ Occurrences(i) \subseteq 1 .. Len(options)
           /\ Cardinality(Occurrences(i)) \in Nat
           /\ Cardinality(Occurrences(i)) <= Len(options)
<1>1. DOMAIN options = 1 .. Len(options) /\ Len(options) \in Nat
  BY LenProperties DEF ArgTypes
<1>2. IsFiniteSet(1 .. Len(options)) /\ Cardinality(1 .. Len(options)) = Len(options)
  BY <1>1, FS_Interval
<1>3. Occurrences(i) \in SUBSET (1 .. Len(options))
  BY <1>1 DEF Occurrences
<1>4. QED
  BY <1>2, <1>3, FS_Subset, FS_CardinalityType

\* A value or parser that can digest no more holds the most it may.
LEMMA FullFacts ==
    ASSUME NEW kind \in Digesters, NEW m \in Nat, NEW digested \in Seq(0 .. m)
    PROVE  /\ ~CanDigest(kind, digested) => Len(digested) >= Most(kind)
           /\ CanDigest(kind, digested) /\ kind # "multi" =>
                 Len(digested) + 1 <= Most(kind)
<1>1. Len(digested) \in Nat /\ (Len(digested) = 0 <=> digested = <<>>)
  BY LenProperties, EmptySeq
<1>2. CASE kind = "single"
  BY <1>1, <1>2, MostFacts DEF CanDigest
<1>3. CASE kind = "limited"
  BY <1>1, <1>3, MostFacts DEF CanDigest
<1>4. CASE kind = "multi"
  BY <1>4 DEF CanDigest
<1>5. QED
  BY <1>2, <1>3, <1>4 DEF Digesters

\* An option is refused for its text or because its parser is full, and then the
\* command line is not good.
LEMMA GetOptionResult ==
    ASSUME DigestInv, OptionResult, NEW i \in DOMAIN parsers, NEW text \in Texts,
           GetOption(i, text)
    PROVE  OptionResult'
<1> DEFINE n == Len(options) + 1
<1>1. /\ pc = "options" /\ UNCHANGED <<parsers, values, operands>> /\ result = "none"
      /\ options' = Append(options, [short |-> parsers[i].short, text |-> text])
      /\ Len(options) \in Nat /\ Len(options) < MaxOptions /\ options \in Seq(Options)
      /\ parsers[i].kind = "boolean" => text = "empty"
      /\ parsers[i].short \in STRING /\ parsers[i].kind \in Kinds
  BY TupleFacts DEF DigestInv, ArgInv, ArgTypes, GetOption, config, Parsers,
                    OptionResult
<1>2. Acceptable /\ parsers[i].short \notin {"h", "?"}
  <2>1. Acceptable
    BY <1>1 DEF DigestInv, ArgInv, ConstructorInv
  <2>2. parsers[i].short # "?"
    BY ArgParseAssumption DEF DigestInv, ArgInv, ArgTypes
  <2>3. QED
    BY <2>1, <2>2 DEF Acceptable
<1>3. \A j \in DOMAIN parsers : j # i => parsers[j].short # parsers[i].short
  BY <1>2 DEF Acceptable
<1>4. Visited(parsers[i].short, text) = {i}
  <2>1. DOMAIN parsers = 1 .. Len(parsers) /\ Len(parsers) \in Nat
    BY TupleFacts DEF DigestInv, ArgInv
  <2>2. i \notin 1 .. i - 1 /\ \A j \in 1 .. i - 1 : j \in DOMAIN parsers
    BY <2>1
  <2>3. QED
    BY <1>3, <2>2 DEF Visited
<1>5. /\ DOMAIN options' = 1 .. n /\ n \in Nat /\ n \notin 1 .. Len(options)
      /\ options'[n] = [short |-> parsers[i].short, text |-> text]
      /\ DOMAIN options = 1 .. Len(options)
      /\ \A m \in DOMAIN options : options'[m] = options[m]
      /\ 1 .. n = (1 .. Len(options)) \cup {n}
  <2>1. [short |-> parsers[i].short, text |-> text] \in Options
    BY <1>1 DEF Options
  <2>2. QED
    BY <1>1, <2>1, AppendProperties, LenProperties
<1> HIDE DEF n
<1>6. \A j \in DOMAIN parsers :
         Occurrences(j)' = IF j = i THEN Occurrences(j) \cup {n} ELSE Occurrences(j)
  BY <1>1, <1>3, <1>5 DEF Occurrences
<1>7. /\ Cardinality(Occurrences(i) \cup {n}) = Cardinality(Occurrences(i)) + 1
      /\ Cardinality(Occurrences(i)) \in Nat
      /\ Cardinality(Occurrences(i)) + 1 <= MaxOptions
  <2>1. /\ IsFiniteSet(Occurrences(i)) /\ n \notin Occurrences(i)
        /\ Cardinality(Occurrences(i)) \in Nat
        /\ Cardinality(Occurrences(i)) <= Len(options)
    BY <1>5, OccurrenceFacts DEF DigestInv, ArgInv
  <2>2. Cardinality(Occurrences(i) \cup {n}) = Cardinality(Occurrences(i)) + 1
    BY <2>1, FS_AddElement
  <2>3. QED
    BY <1>1, <2>1, <2>2, MostFacts
<1>8. OptionsGood /\ (parsers[i].kind # "boolean" =>
                         Cardinality(Occurrences(i)) = Len(got[i]))
  BY <1>1 DEF OptionResult
<1>9. CASE ParserThrows(i, text)
  <2>1. pc' = "done" /\ result' = "Error"
    BY <1>4, <1>9 DEF GetOption, ParseOption, Return
  <2>2. /\ parsers[i].kind # "boolean"
        /\ text # "good" \/ ~CanDigest(parsers[i].kind, got[i])
    BY <1>9 DEF ParserThrows, Throws
  <2>3. ~OptionsGood'
    <3>1. SUFFICES ASSUME OptionsGood' PROVE FALSE
      OBVIOUS
    <3>2. /\ \A m \in Occurrences(i)' : options'[m].text = "good"
          /\ Cardinality(Occurrences(i)') <= Most(parsers[i].kind)
      BY <1>1, <2>2, <3>1 DEF OptionsGood
    <3>3. text = "good"
      BY <1>5, <1>6, <3>2
    <3>4. Len(got[i]) >= Most(parsers[i].kind) /\ Most(parsers[i].kind) \in Nat
      <4>1. parsers[i].kind \in Digesters /\ got[i] \in Seq(0 .. MaxOptions)
        BY <1>1, <2>2 DEF DigestInv, ArgInv, ArgTypes, Kinds
      <4>2. QED
        BY <2>2, <3>3, <4>1, FullFacts, MostFacts
    <3>5. Cardinality(Occurrences(i)) + 1 <= Most(parsers[i].kind)
      BY <1>6, <1>7, <3>2
    <3>6. QED
      BY <1>7, <1>8, <2>2, <3>4, <3>5
  <2>4. QED
    BY <2>1, <2>3 DEF OptionResult
<1>10. CASE ~ParserThrows(i, text)
  <2>1. /\ pc' = "options" /\ result' = "none"
        /\ got' = [j \in DOMAIN parsers |-> IF j = i THEN ParserGot(j, text) ELSE got[j]]
    BY <1>1, <1>4, <1>10 DEF GetOption, ParseOption
  <2>2. ASSUME parsers[i].kind # "boolean"
        PROVE  /\ text = "good"
               /\ Cardinality(Occurrences(i)') = Len(got'[i])
               /\ Cardinality(Occurrences(i)') <= Most(parsers[i].kind)
    <3>1. text = "good" /\ CanDigest(parsers[i].kind, got[i])
      BY <1>10, <2>2 DEF ParserThrows, Throws
    <3>2. got'[i] = Append(got[i], n)
      BY <2>1, <2>2, <3>1 DEF ParserGot, AfterDigest, n
    <3>3. /\ parsers[i].kind \in Digesters /\ got[i] \in Seq(0 .. MaxOptions)
          /\ n \in 0 .. MaxOptions /\ MaxOptions \in Nat
      BY <1>1, <2>2, MostFacts DEF DigestInv, ArgInv, ArgTypes, Kinds, n
    <3>4. Len(got'[i]) = Len(got[i]) + 1
      BY <3>2, <3>3, AppendProperties
    <3>5. Cardinality(Occurrences(i)') = Cardinality(Occurrences(i)) + 1
      BY <1>6, <1>7
    <3>6. CASE parsers[i].kind = "multi"
      <4>1. MaxOptions <= Most(parsers[i].kind)
        BY <3>6, MostFacts
      <4>2. Most(parsers[i].kind) \in Nat
        BY <3>3, MostFacts
      <4>3. QED
        BY <1>7, <1>8, <2>2, <3>1, <3>3, <3>4, <3>5, <4>1, <4>2
    <3>7. CASE parsers[i].kind # "multi"
      BY <1>8, <2>2, <3>1, <3>3, <3>4, <3>5, <3>7, FullFacts
    <3>8. QED
      BY <3>6, <3>7
  <2>3. OptionsGood'
    <3>1. \A m \in DOMAIN options' : options'[m].short \notin {"h", "?"}
      BY <1>2, <1>5, <1>8 DEF OptionsGood
    <3>2. ASSUME NEW j \in DOMAIN parsers, parsers[j].kind # "boolean"
          PROVE  /\ \A m \in Occurrences(j)' : options'[m].text = "good"
                 /\ Cardinality(Occurrences(j)') <= Most(parsers[j].kind)
      <4>1. /\ \A m \in Occurrences(j) : options[m].text = "good"
            /\ Cardinality(Occurrences(j)) <= Most(parsers[j].kind)
            /\ Occurrences(j) \subseteq DOMAIN options
        BY <1>8, <3>2 DEF OptionsGood, Occurrences
      <4>2. CASE j = i
        BY <1>5, <1>6, <2>2, <3>2, <4>1, <4>2
      <4>3. CASE j # i
        BY <1>5, <1>6, <4>1, <4>3
      <4>4. QED
        BY <4>2, <4>3
    <3>3. QED
      BY <1>1, <3>1, <3>2 DEF OptionsGood
  <2>4. ASSUME NEW j \in DOMAIN parsers, parsers[j].kind # "boolean"
        PROVE  Cardinality(Occurrences(j)') = Len(got'[j])
    <3>1. CASE j = i
      BY <2>2, <2>4, <3>1
    <3>2. CASE j # i
      BY <1>1, <1>6, <2>1, <2>4, <3>2 DEF OptionResult
    <3>3. QED
      BY <3>1, <3>2
  <2>5. QED
    BY <1>1, <2>1, <2>3, <2>4 DEF OptionResult
<1>11. QED
  BY <1>9, <1>10

-------------------------------------------------------------------------------

LEMMA OperandFacts ==
    ASSUME ArgTypes
    PROVE  /\ Len(values) \in Nat /\ DOMAIN values = 1 .. Len(values)
           /\ Len(operands) \in Nat /\ DOMAIN operands = 1 .. Len(operands)
           /\ Len(operands) <= MaxOperands /\ MaxOperands \in Nat
           /\ index \in Nat /\ index >= 1 /\ index <= Len(operands) + 1
           /\ current \in Nat /\ current >= 1 /\ current <= Len(values) + 1
           /\ \A i \in DOMAIN values :
                 /\ values[i] \in Digesters /\ Most(values[i]) \in Nat
                 /\ Len(stored[i]) \in Nat /\ (Len(stored[i]) = 0 <=> stored[i] = <<>>)
<1>1. /\ Len(values) \in Nat /\ DOMAIN values = 1 .. Len(values)
      /\ Len(operands) \in Nat /\ DOMAIN operands = 1 .. Len(operands)
  BY TupleFacts, LenProperties DEF ArgTypes
<1>2. /\ index \in Nat /\ index >= 1 /\ index <= Len(operands) + 1
      /\ current \in Nat /\ current >= 1 /\ current <= Len(values) + 1
  BY <1>1 DEF ArgTypes
<1>3. ASSUME NEW i \in DOMAIN values
      PROVE  /\ values[i] \in Digesters /\ Most(values[i]) \in Nat
             /\ Len(stored[i]) \in Nat /\ (Len(stored[i]) = 0 <=> stored[i] = <<>>)
  <2>1. values[i] \in Digesters /\ stored[i] \in Seq(0 .. MaxOperands)
    BY TupleFacts DEF ArgTypes
  <2>2. QED
    BY <2>1, MostFacts, LenProperties, EmptySeq
<1>4. Len(operands) <= MaxOperands /\ MaxOperands \in Nat
  BY MostFacts DEF ArgTypes
<1>5. QED
  BY <1>1, <1>2, <1>3, <1>4

\* The visits begin.
LEMMA NoMoreOptionsResult ==
    ASSUME DigestInv, OperandResult, NoMoreOptions, result = "none"
    PROVE  OperandResult'
<1>1. /\ UNCHANGED <<values, stored, index, current, enough, result>>
      /\ pc = "options" /\ pc' = "values"
  BY DEF NoMoreOptions, config, valueState
<1>2. ArgTypes' /\ ArgTypes
  BY NextArg DEF DigestInv, ArgInv, Next
<1>3. index = 1 /\ current = 1 /\ enough /\ \A i \in DOMAIN values : stored[i] = <<>>
  BY <1>1 DEF OperandResult, DigestInv, ArgInv, ArgTypes, OperandInv
<1>4. Len(operands') \in Nat /\ Len(values) \in Nat /\ DOMAIN values = 1 .. Len(values)
  <2>1. Len(operands') \in Nat
    BY <1>2, LenProperties DEF ArgTypes
  <2>2. QED
    BY <1>2, <2>1, OperandFacts
<1>5. \A i \in DOMAIN values : Len(stored[i]) = 0
  BY <1>2, <1>3, OperandFacts
<1> DEFINE cut == [k \in 0 .. Len(values) |-> 0]
<1>6. cut \in [0 .. Len(values) -> 0 .. Len(operands')] /\ cut[0] = 0
  BY <1>4
<1> HIDE DEF cut
<1>7. Visits(cut)'
  <2>1. cut' = cut /\ index' - 1 = 0 /\ current' - 1 = 0 /\ 1 .. current' - 1 = {}
    BY <1>1, <1>3 DEF cut
  <2>2. index' - 1 = cut[current' - 1] +
                        (IF current' \in DOMAIN values' THEN Len(stored'[current']) ELSE 0)
    BY <1>1, <1>3, <1>5, <1>6, <2>1
  <2>3. \A other : Shares(other)' => other[0] = 0
    BY DEF Shares
  <2>4. cut[0] = 0 /\ enough' /\ cut' = cut
    BY <1>1, <1>3, <1>6, <2>1
  <2>5. QED
    BY <1>1, <1>3, <1>6, <2>1, <2>2, <2>3, <2>4 DEF Visits
<1>8. \A n \in 1 .. index' - 1 : operands'[n] = "good"
  BY <1>1, <1>3
<1>9. \A i \in DOMAIN values' : Len(stored'[i]) <= Most(values'[i])
  BY <1>1, <1>2, <1>5, OperandFacts
<1>10. QED
  BY <1>1, <1>7, <1>8, <1>9 DEF OperandResult

\* A text that does not convert is refused; another goes to the current value.
LEMMA DigestValueResult ==
    ASSUME DigestInv, OperandResult, NEW i \in DOMAIN values, DigestValue(i),
           result = "none"
    PROVE  /\ OperandResult'
           /\ result' = "Error" /\ pc' = "done" => ~OperandsGood'
<1>1. ArgTypes
  BY DEF DigestInv, ArgInv
<1>2. /\ pc = "values" /\ current = i /\ index <= Len(operands) /\ index \in DOMAIN operands
      /\ UNCHANGED <<values, operands, current, enough>>
      /\ CanDigest(values[i], stored[i])
      /\ stored' = [stored EXCEPT ![i] =
                       AfterDigest(values[i], stored[i], operands[index], index)]
  BY <1>1, OperandFacts DEF DigestValue, Visiting, AtEnd, config
<1>3. CASE Throws(values[i], stored[i], operands[index])
  <2>1. pc' = "done" /\ result' = "Error"
    BY <1>3 DEF DigestValue, Return
  <2>2. operands[index] # "good"
    BY <1>2, <1>3 DEF Throws
  <2>3. ~OperandsGood'
    BY <1>2, <2>2 DEF OperandsGood
  <2>4. QED
    BY <2>1, <2>3 DEF OperandResult
<1>4. CASE ~Throws(values[i], stored[i], operands[index])
  <2>1. /\ index' = index + 1 /\ pc' = "values" /\ result' = "none"
        /\ operands[index] = "good"
    BY <1>2, <1>4 DEF DigestValue, Throws
  <2>2. /\ stored' = [stored EXCEPT ![i] = Append(stored[i], index)]
        /\ stored \in [DOMAIN values -> Seq(0 .. MaxOperands)]
        /\ index \in 0 .. MaxOperands
    BY <1>1, <1>2, <2>1, OperandFacts DEF AfterDigest, ArgTypes
  <2>3. Len(stored'[i]) = Len(stored[i]) + 1 /\ Len(stored[i]) \in Nat
    BY <2>2, AppendProperties, LenProperties
  <2>4. \A j \in DOMAIN values : j # i => stored'[j] = stored[j]
    BY <2>2
  <2>5. PICK cut : Visits(cut)
    BY <1>2 DEF OperandResult
  <2>6. Visits(cut)'
    <3>1. /\ cut \in [0 .. Len(values) -> 0 .. Len(operands)] /\ cut[0] = 0
          /\ index - 1 = cut[i - 1] + Len(stored[i])
      BY <1>2, <2>5 DEF Visits
    <3>2. cut[i - 1] \in Nat
      BY <1>1, <3>1, OperandFacts
    <3>3. index' - 1 = cut[i - 1] + Len(stored'[i])
      <4>1. index \in Nat
        BY <1>1, OperandFacts
      <4>2. index' - 1 = (index - 1) + 1
        BY <2>1, <4>1
      <4>3. QED
        BY <2>3, <3>1, <3>2, <4>2
    <3>4. ~AtEnd /\ enough
      <4>1. ~AtEnd
        BY <1>1, <1>2, OperandFacts DEF AtEnd
      <4>2. QED
        BY <1>2, <4>1 DEF OperandResult, Exhausted
    <3>5. \A j \in 1 .. current - 1 : cut[j] - cut[j - 1] \in 1 .. Most(values[j])
      BY <2>5, <3>4 DEF Visits
    <3>6. \A other \in [0 .. Len(values) -> 0 .. Len(operands)] :
             Shares(other)' => /\ other[current - 1] >= current - 1
                               /\ other[current - 1] <= cut[current - 1]
      BY <1>2, <2>5, <3>4 DEF Visits, Shares, Most
    <3>7. \A j \in 1 .. current - 1 : stored'[j] = stored[j]
      <4>1. \A j \in 1 .. current - 1 : j \in DOMAIN values /\ j # i
        BY <1>1, <1>2, OperandFacts
      <4>2. QED
        BY <2>4, <4>1
    <3>8. (\A j \in 1 .. current - 1 : Len(stored'[j]) <= 1) =>
             cut[current - 1] <= current - 1
      BY <2>5, <3>7 DEF Visits
    <3>9. QED
      BY <1>2, <3>1, <3>3, <3>4, <3>5, <3>6, <3>8 DEF Visits, Most
  <2>7. \A n \in 1 .. index' - 1 : operands'[n] = "good"
    <3>1. ASSUME NEW n \in 1 .. index' - 1 PROVE operands[n] = "good"
      <4>1. n = index \/ n \in 1 .. index - 1
        BY <1>1, <2>1, OperandFacts
      <4>2. QED
        BY <1>2, <2>1, <4>1 DEF OperandResult
    <3>2. QED
      BY <1>2, <3>1
  <2>8. ASSUME NEW j \in DOMAIN values, values[j] # "multi"
        PROVE  Len(stored'[j]) <= Most(values[j])
    <3>1. CASE j = i
      <4>1. values[i] \in Digesters /\ stored[i] \in Seq(0 .. MaxOperands) /\ MaxOperands \in Nat
        BY <1>1, <2>2, OperandFacts
      <4>2. Len(stored[i]) + 1 <= Most(values[i])
        BY <1>2, <2>8, <3>1, <4>1, FullFacts
      <4>3. QED
        BY <2>3, <3>1, <4>2
    <3>2. CASE j # i
      BY <1>2, <2>4, <2>8, <3>2 DEF OperandResult
    <3>3. QED
      BY <3>1, <3>2
  <2>9. enough
    <3>1. ~AtEnd
      BY <1>1, <1>2, OperandFacts DEF AtEnd
    <3>2. QED
      BY <1>2, <3>1 DEF OperandResult, Exhausted
  <2>10. QED
    BY <1>2, <2>1, <2>6, <2>7, <2>8, <2>9 DEF OperandResult
<1>5. QED
  BY <1>3, <1>4

\* What a value has taken is what is left to it, when it can take no more.
LEMMA NextValueResult ==
    ASSUME DigestInv, OperandResult, NEW i \in DOMAIN values, NextValue(i),
           result = "none"
    PROVE  OperandResult'
<1>1. ArgTypes
  BY DEF DigestInv, ArgInv
<1>2. /\ pc = "values" /\ current = i /\ current' = i + 1 /\ stored[i] # <<>>
      /\ AtEnd \/ ~CanDigest(values[i], stored[i])
      /\ UNCHANGED <<values, operands, stored, index, enough, pc, result>>
  BY DEF NextValue, Visiting, config
<1>3. PICK cut : Visits(cut)
  BY <1>2 DEF OperandResult
<1> DEFINE new == [cut EXCEPT ![i] = index - 1]
           taken == Len(stored[i])
<1>4. /\ cut \in [0 .. Len(values) -> 0 .. Len(operands)] /\ cut[0] = 0
      /\ index - 1 = cut[i - 1] + taken
  BY <1>2, <1>3 DEF Visits
<1>5. /\ i \in Nat /\ i >= 1 /\ i <= Len(values) /\ index - 1 \in 0 .. Len(operands)
      /\ taken \in Nat /\ taken >= 1 /\ Most(values[i]) \in Nat
      /\ cut[i - 1] \in Nat /\ Len(operands) \in Nat /\ index \in Nat /\ Len(values) \in Nat
      /\ i - 1 \in 0 .. Len(values)
  <2>1. /\ i \in Nat /\ i >= 1 /\ i <= Len(values) /\ Len(values) \in Nat
        /\ Len(operands) \in Nat /\ index \in Nat /\ index >= 1
        /\ index <= Len(operands) + 1 /\ Most(values[i]) \in Nat
    BY <1>1, OperandFacts
  <2>2. taken \in Nat /\ taken # 0
    BY <1>1, <1>2, OperandFacts
  <2>3. i - 1 \in 0 .. Len(values) /\ index - 1 \in 0 .. Len(operands) /\ taken >= 1
    BY <2>1, <2>2
  <2>4. cut[i - 1] \in 0 .. Len(operands)
    BY <1>4, <2>3
  <2>5. QED
    BY <2>1, <2>2, <2>3, <2>4
<1>6. /\ new \in [0 .. Len(values) -> 0 .. Len(operands)] /\ new[0] = 0
      /\ new[i] = index - 1
      /\ \A k \in 0 .. i - 1 : new[k] = cut[k]
  BY <1>4, <1>5
<1>7. taken <= Most(values[i])
  <2>1. CASE values[i] = "multi"
    <3>1. taken <= MaxOperands
      <4>1. Len(operands) <= MaxOperands /\ MaxOperands \in Nat
        BY <1>1, OperandFacts DEF ArgTypes
      <4>2. index - 1 = cut[i - 1] + taken
        BY <1>4
      <4>3. /\ cut[i - 1] \in Nat /\ taken \in Nat /\ Len(operands) \in Nat
            /\ index - 1 \in 0 .. Len(operands)
        BY <1>5
      <4>4. QED
        BY <4>1, <4>2, <4>3
    <3>2. QED
      BY <1>5, <2>1, <3>1, MostFacts
  <2>2. CASE values[i] # "multi"
    BY <1>2, <2>2 DEF OperandResult
  <2>3. QED
    BY <2>1, <2>2
<1>8. AtEnd \/ taken >= Most(values[i])
  <2>1. /\ values[i] \in Digesters /\ stored[i] \in Seq(0 .. MaxOperands)
        /\ MaxOperands \in Nat
    BY <1>1, OperandFacts DEF ArgTypes
  <2>2. QED
    BY <1>2, <2>1, FullFacts
<1>9. /\ cut[i - 1] = cut[current - 1] /\ current - 1 = i - 1
      /\ i - 1 \in Nat /\ \A j \in 1 .. i : j = i \/ j \in 1 .. i - 1
  BY <1>2, <1>5
<1>10. i + 1 \in DOMAIN values => stored[i + 1] = <<>> /\ Len(stored[i + 1]) = 0
  <2>1. i + 1 \in DOMAIN values => stored[i + 1] = <<>>
    BY <1>2, <1>5 DEF DigestInv, OperandInv
  <2>2. QED
    BY <1>1, <2>1, OperandFacts
<1> HIDE DEF new, taken
<1>11. index' - 1 = new[current' - 1] +
                       (IF current' \in DOMAIN values' THEN Len(stored'[current']) ELSE 0)
  <2>1. current' = i + 1 /\ current' - 1 = i
    BY <1>2, <1>5
  <2>2. index' - 1 = new[i]
    BY <1>2, <1>6
  <2>3. new[i] = new[i] + 0
    BY <1>5, <1>6
  <2>4. (IF current' \in DOMAIN values' THEN Len(stored'[current']) ELSE 0) = 0
    BY <1>2, <1>10, <2>1
  <2>5. QED
    BY <2>1, <2>2, <2>3, <2>4
<1>12. ASSUME enough, NEW j \in 1 .. i
       PROVE  new[j] - new[j - 1] \in 1 .. Most(values[j])
  <2>1. CASE j = i
    <3>1. new[j] - new[j - 1] = taken
      <4>1. new[j] = index - 1 /\ new[j - 1] = cut[i - 1]
        BY <1>5, <1>6, <2>1
      <4>2. QED
        BY <1>4, <1>5, <4>1
    <3>2. taken \in 1 .. Most(values[i])
      BY <1>5, <1>7
    <3>3. QED
      BY <2>1, <3>1, <3>2
  <2>2. CASE j # i
    <3>1. j \in 1 .. current - 1 /\ j \in 0 .. i - 1 /\ j - 1 \in 0 .. i - 1
      BY <1>2, <1>5, <2>2
    <3>2. cut[j] - cut[j - 1] \in 1 .. Most(values[j])
      BY <1>3, <1>12, <3>1 DEF Visits
    <3>3. QED
      BY <1>6, <3>1, <3>2
  <2>3. QED
    BY <2>1, <2>2
<1>13. ASSUME NEW other \in [0 .. Len(values) -> 0 .. Len(operands)], Shares(other)
       PROVE  other[i] >= i /\ (enough => other[i] <= new[i] \/ AtEnd)
  <2>1. /\ other[i - 1] >= i - 1
        /\ enough => other[i - 1] <= cut[i - 1] \/ AtEnd
    BY <1>3, <1>9, <1>13 DEF Visits
  <2>2. other[i] - other[i - 1] \in 1 .. Most(values[i])
    BY <1>13 DEF Shares
  <2>3. other[i] \in Nat /\ other[i - 1] \in Nat
    <3>1. i \in 0 .. Len(values) /\ i - 1 \in 0 .. Len(values)
      BY <1>5
    <3>2. other[i] \in 0 .. Len(operands) /\ other[i - 1] \in 0 .. Len(operands)
      BY <3>1
    <3>3. QED
      BY <1>5, <3>2
  <2>4. other[i] >= i
    BY <1>5, <2>1, <2>2, <2>3
  <2>5. ASSUME enough, ~AtEnd PROVE other[i] <= new[i]
    <3>1. new[i] = cut[i - 1] + taken
      BY <1>4, <1>6
    <3>2. other[i - 1] <= cut[i - 1] /\ taken >= Most(values[i])
      BY <1>8, <2>1, <2>5
    <3>3. QED
      BY <1>5, <2>2, <2>3, <3>1, <3>2
  <2>6. QED
    BY <2>4, <2>5
<1>14. ASSUME \A j \in 1 .. i : Len(stored[j]) <= 1
       PROVE  new[i] <= i /\ (~enough => new[i] < i)
  <2>1. new[i] = cut[i - 1] + taken /\ taken <= 1
    <3>1. i \in 1 .. i
      BY <1>5
    <3>2. taken <= 1
      BY <1>14, <3>1 DEF taken
    <3>3. QED
      BY <1>4, <1>6, <3>2
  <2>2. cut[i - 1] <= i - 1 /\ (~enough => cut[i - 1] < i - 1)
    <3>1. \A j \in 1 .. current - 1 : Len(stored[j]) <= 1
      <4>1. \A j \in 1 .. current - 1 : j \in 1 .. i
        BY <1>5, <1>9
      <4>2. QED
        BY <1>14, <4>1
    <3>2. QED
      BY <1>3, <1>9, <3>1 DEF Visits
  <2>3. QED
    BY <1>5, <2>1, <2>2
<1>15. Visits(new)'
  <2>1. new' = new
    BY <1>2 DEF new
  <2>2. current' - 1 = i
    BY <1>2, <1>5
  <2>3. AtEnd' = AtEnd
    BY <1>2 DEF AtEnd
  <2>4. new \in [0 .. Len(values') -> 0 .. Len(operands')] /\ new[0] = 0
    BY <1>2, <1>6
  <2>5. enough' => \A j \in 1 .. current' - 1 :
                       new[j] - new[j - 1] \in 1 .. Most(values'[j])
    BY <1>2, <1>12, <2>2
  <2>6. \A other \in [0 .. Len(values') -> 0 .. Len(operands')] :
          Shares(other)' =>
              /\ other[current' - 1] >= current' - 1
              /\ enough' => other[current' - 1] <= new[current' - 1] \/ AtEnd'
    BY <1>2, <1>13, <2>2, <2>3 DEF Shares, Most
  <2>7. (\A j \in 1 .. current' - 1 : Len(stored'[j]) <= 1) =>
          /\ new[current' - 1] <= current' - 1
          /\ ~enough' => new[current' - 1] < current' - 1
    BY <1>2, <1>14, <2>2
  <2>8. QED
    BY <1>11, <2>1, <2>4, <2>5, <2>6, <2>7 DEF Visits, Most
<1>16. enough' \/ Exhausted'
  <2>1. CASE enough
    BY <1>2, <2>1
  <2>2. CASE Exhausted
    <3>1. PICK k \in 1 .. current - 1 : \A l \in k .. Len(values) : stored[l] = <<>>
      BY <2>2 DEF Exhausted
    <3>2. k \in 1 .. current' - 1 /\ AtEnd'
      BY <1>2, <1>5, <2>2, <3>1 DEF Exhausted, AtEnd
    <3>3. QED
      BY <1>2, <3>1, <3>2 DEF Exhausted
  <2>3. QED
    BY <1>2, <2>1, <2>2 DEF OperandResult
<1>17. QED
  BY <1>2, <1>15, <1>16 DEF OperandResult

\* A value that nothing is left for: fewer texts were taken than values visited,
\* or one of those took two.
LEMMA LackValueResult ==
    ASSUME DigestInv, OperandResult, NEW i \in DOMAIN values, LackValue(i),
           result = "none"
    PROVE  OperandResult'
<1>1. ArgTypes
  BY DEF DigestInv, ArgInv
<1>2. /\ pc = "values" /\ current = i /\ current' = i + 1 /\ stored[i] = <<>> /\ AtEnd
      /\ UNCHANGED <<values, operands, stored, index, pc, result>> /\ enough' = FALSE
  BY DEF LackValue, Visiting, config
<1>3. PICK cut : Visits(cut)
  BY <1>2 DEF OperandResult
<1>4. /\ cut \in [0 .. Len(values) -> 0 .. Len(operands)] /\ cut[0] = 0
      /\ index - 1 = cut[i - 1] + Len(stored[i]) /\ Len(stored[i]) = 0
  BY <1>1, <1>2, <1>3, OperandFacts DEF Visits
<1>5. /\ i \in Nat /\ i >= 1 /\ i <= Len(values) /\ i - 1 \in 0 .. Len(values)
      /\ Len(operands) \in Nat /\ cut[i - 1] \in Nat
      /\ index \in Nat /\ index - 1 \in 0 .. Len(operands)
      /\ index - 1 = Len(operands) /\ cut[i - 1] = Len(operands)
  <2>1. /\ i \in Nat /\ i >= 1 /\ i <= Len(values) /\ Len(values) \in Nat
        /\ Len(operands) \in Nat /\ index \in Nat /\ index >= 1
        /\ index <= Len(operands) + 1
    BY <1>1, OperandFacts
  <2>2. index > Len(operands)
    BY <1>2 DEF AtEnd
  <2>3. i - 1 \in 0 .. Len(values)
    BY <2>1
  <2>4. cut[i - 1] \in 0 .. Len(operands)
    BY <1>4, <2>3
  <2>5. index - 1 = Len(operands) /\ index - 1 \in 0 .. Len(operands)
    BY <2>1, <2>2
  <2>6. cut[i - 1] = Len(operands)
    BY <1>4, <2>1, <2>4, <2>5
  <2>7. QED
    BY <2>1, <2>3, <2>4, <2>5, <2>6
<1>6. ASSUME NEW other \in [0 .. Len(values) -> 0 .. Len(operands)], Shares(other)
      PROVE  other[i] >= i
  <2>1. other[i - 1] >= i - 1
    BY <1>2, <1>3, <1>6 DEF Visits
  <2>2. other[i] - other[i - 1] \in 1 .. Most(values[i]) /\ Most(values[i]) \in Nat
    BY <1>1, <1>6, OperandFacts DEF Shares
  <2>3. other[i] \in Nat /\ other[i - 1] \in Nat
    <3>1. i \in 0 .. Len(values) /\ i - 1 \in 0 .. Len(values)
      BY <1>1, <1>5, OperandFacts
    <3>2. other[i] \in 0 .. Len(operands) /\ other[i - 1] \in 0 .. Len(operands)
      BY <3>1
    <3>3. QED
      BY <1>5, <3>2
  <2>4. QED
    BY <1>5, <2>1, <2>2, <2>3
<1>7. PICK new : new = [cut EXCEPT ![i] = index - 1]
  OBVIOUS
<1>8. /\ new \in [0 .. Len(values) -> 0 .. Len(operands)] /\ new[0] = 0
      /\ new[i] = index - 1
  <2>1. 0 \in 0 .. Len(values) /\ 0 # i
    BY <1>1, <1>5, OperandFacts
  <2>2. i \in 0 .. Len(values)
    BY <1>1, <1>5, OperandFacts
  <2>3. QED
    BY <1>4, <1>5, <1>7, <2>1, <2>2
<1>9. i + 1 \in DOMAIN values => Len(stored[i + 1]) = 0
  <2>1. i + 1 \in DOMAIN values => stored[i + 1] = <<>>
    BY <1>2, <1>5 DEF DigestInv, OperandInv
  <2>2. QED
    BY <1>1, <2>1, OperandFacts
<1>10. Visits(new)'
  <2>1. current' - 1 = i
    BY <1>2, <1>5
  <2>2. index' - 1 = new[current' - 1] +
                       (IF current' \in DOMAIN values' THEN Len(stored'[current']) ELSE 0)
    BY <1>2, <1>5, <1>8, <1>9, <2>1
  <2>3. \A other \in [0 .. Len(values') -> 0 .. Len(operands')] :
          Shares(other)' => other[i] >= i
    BY <1>2, <1>6 DEF Shares, Most
  <2>4. ASSUME \A j \in 1 .. i : Len(stored'[j]) <= 1
        PROVE  new[i] < i
    <3>1. new[i] = cut[i - 1]
      BY <1>5, <1>8
    <3>2. \A j \in 1 .. current - 1 : Len(stored[j]) <= 1
      <4>1. \A j \in 1 .. current - 1 : j \in 1 .. i
        BY <1>2, <1>5
      <4>2. QED
        BY <1>2, <2>4, <4>1
    <3>3. cut[i - 1] <= i - 1
      BY <1>2, <1>3, <3>2 DEF Visits
    <3>4. QED
      BY <1>5, <3>1, <3>3
  <2>5. ASSUME \A j \in 1 .. i : Len(stored'[j]) <= 1
        PROVE  new[i] <= i
    <3>1. new[i] \in Nat /\ new[i] < i
      BY <1>5, <1>8, <2>4, <2>5
    <3>2. QED
      BY <1>5, <3>1
  <2>6. new' = new
    OBVIOUS
  <2>7. /\ new \in [0 .. Len(values') -> 0 .. Len(operands')] /\ new[0] = 0 /\ ~enough'
    BY <1>2, <1>8
  <2>8. QED
    BY <2>1, <2>2, <2>3, <2>4, <2>5, <2>6, <2>7 DEF Visits
<1>11. Exhausted'
  <2>1. \A k \in i .. Len(values) : stored[k] = <<>>
    <3>1. TAKE k \in i .. Len(values)
    <3>2. k \in DOMAIN values /\ (k = i \/ k > i)
      BY <1>1, <1>5, OperandFacts
    <3>3. QED
      BY <1>2, <3>2 DEF DigestInv, OperandInv
  <2>2. i \in 1 .. current' - 1 /\ AtEnd'
    BY <1>2, <1>5 DEF AtEnd
  <2>3. QED
    BY <1>2, <2>1, <2>2 DEF Exhausted
<1>12. QED
  BY <1>2, <1>10, <1>11 DEF OperandResult

\* Ok if every value got its share and nothing is left; otherwise the positionals
\* cannot be shared out, or a value is starved.
LEMMA FinishResult ==
    ASSUME DigestInv, OperandResult, Finish
    PROVE  /\ OperandResult'
           /\ result' = "Error" /\ OperandsGood' => Starved'
<1>1. ArgTypes
  BY DEF DigestInv, ArgInv
<1>2. /\ pc = "values" /\ current > Len(values) /\ pc' = "done"
      /\ UNCHANGED <<values, operands>>
      /\ result' = IF enough /\ AtEnd THEN "Ok" ELSE "Error"
  BY DEF Finish, Return, config
<1>3. PICK cut : Visits(cut)
  BY <1>2 DEF OperandResult
<1>4. /\ Len(values) \in Nat /\ current = Len(values) + 1 /\ current - 1 = Len(values)
      /\ current \notin DOMAIN values /\ DOMAIN values = 1 .. Len(values)
      /\ index \in Nat /\ Len(operands) \in Nat /\ index <= Len(operands) + 1
      /\ DOMAIN operands = 1 .. Len(operands)
  BY <1>1, <1>2, OperandFacts
<1>5. /\ cut \in [0 .. Len(values) -> 0 .. Len(operands)] /\ cut[0] = 0
      /\ cut[Len(values)] = index - 1
  <2>1. /\ cut \in [0 .. Len(values) -> 0 .. Len(operands)] /\ cut[0] = 0
        /\ index - 1 = cut[Len(values)] + 0
    BY <1>3, <1>4 DEF Visits
  <2>2. cut[Len(values)] \in 0 .. Len(operands)
    BY <1>4, <2>1
  <2>3. QED
    BY <1>4, <2>1, <2>2
<1>6. ASSUME enough, AtEnd PROVE OperandsGood
  <2>1. index - 1 = Len(operands)
    BY <1>4, <1>6 DEF AtEnd
  <2>2. \A n \in DOMAIN operands : operands[n] = "good"
    BY <1>2, <1>4, <2>1 DEF OperandResult
  <2>3. ASSUME NEW i \in DOMAIN values
        PROVE  cut[i] - cut[i - 1] \in 1 .. Most(values[i])
    <3>1. i \in 1 .. current - 1
      BY <1>4
    <3>2. QED
      BY <1>3, <1>6, <3>1 DEF Visits
  <2>4. Shares(cut)
    BY <1>5, <2>1, <2>3 DEF Shares
  <2>5. QED
    BY <1>5, <2>2, <2>4 DEF OperandsGood
<1>7. ASSUME OperandsGood, ~(enough /\ AtEnd) PROVE Starved
  <2>1. PICK other \in [0 .. Len(values) -> 0 .. Len(operands)] : Shares(other)
    BY <1>7 DEF OperandsGood
  <2>2. other[Len(values)] = Len(operands)
    BY <2>1 DEF Shares
  <2>3. /\ other[Len(values)] >= Len(values)
        /\ enough => other[Len(values)] <= cut[Len(values)] \/ AtEnd
    BY <1>3, <1>4, <2>1 DEF Visits
  <2>4. ~enough
    BY <1>4, <1>5, <1>7, <2>2, <2>3 DEF AtEnd
  <2>5. PICK i \in 1 .. Len(values) :
           AtEnd /\ \A k \in i .. Len(values) : stored[k] = <<>>
    BY <1>2, <1>4, <2>4 DEF OperandResult, Exhausted
  <2>6. index - 1 = Len(operands)
    BY <1>4, <2>5 DEF AtEnd
  <2>7. PICK j \in 1 .. Len(values) : ~(Len(stored[j]) <= 1)
    <3>1. SUFFICES ASSUME \A j \in 1 .. Len(values) : Len(stored[j]) <= 1 PROVE FALSE
      OBVIOUS
    <3>2. cut[Len(values)] < Len(values)
      BY <1>3, <1>4, <2>4, <3>1 DEF Visits
    <3>3. QED
      BY <1>4, <1>5, <2>2, <2>3, <2>6, <3>2
  <2>8. j \in DOMAIN values /\ i \in DOMAIN values /\ Len(stored[j]) \in Nat
    BY <1>1, <1>4, OperandFacts
  <2>9. Len(stored[j]) > 1
    BY <2>7, <2>8
  <2>10. j < i
    <3>1. SUFFICES ASSUME ~(j < i) PROVE FALSE
      OBVIOUS
    <3>2. j \in i .. Len(values)
      BY <1>4, <3>1
    <3>3. Len(stored[j]) = 0
      BY <1>1, <2>5, <2>8, <3>2, OperandFacts
    <3>4. QED
      BY <2>9, <3>3
  <2>11. stored[i] = <<>>
    <3>1. i \in i .. Len(values)
      BY <1>4
    <3>2. QED
      BY <2>5, <3>1
  <2>12. QED
    BY <2>8, <2>9, <2>10, <2>11 DEF Starved
<1>8. OperandsGood' <=> OperandsGood
  BY <1>2 DEF OperandsGood, Shares, Most
<1>9. Starved' <=> Starved
  BY <1>2 DEF Starved, Finish, valueState
<1>10. QED
  BY <1>2, <1>6, <1>7, <1>8, <1>9 DEF OperandResult

-------------------------------------------------------------------------------

ResultInv == DigestInv /\ OptionResult /\ OperandResult

\* The steps that leave the parsers alone.
LEMMA OptionResultKept ==
    ASSUME OptionResult, UNCHANGED <<parsers, got, options>>,
           pc \in {"options", "values"} \/ pc' \notin {"options", "values"},
           result' = "Ok" => pc \in {"options", "values"} \/ result = "Ok",
           pc' # "done" => result' = "none",
           result' = "Error" /\ OperandsGood' =>
              Starved' \/ (result = "Error" /\ OperandsGood /\ (Starved => Starved'))
    PROVE  OptionResult'
<1>1. /\ OptionsGood' <=> OptionsGood
      /\ \A i \in DOMAIN parsers : Occurrences(i)' = Occurrences(i)
  BY DEF OptionsGood, Occurrences, Most
<1>2. QED
  BY <1>1 DEF OptionResult

LEMMA InitResult == Init => ResultInv
<1> SUFFICES ASSUME Init PROVE ResultInv
  OBVIOUS
<1>1. OptionResult /\ OperandResult
  BY DEF Init, OptionResult, OperandResult
<1>2. QED
  BY <1>1, InitDigest DEF ResultInv

\* parse() begins with no option.
LEMMA ConstructorResult ==
    ASSUME DigestInv, OptionResult, OperandResult, Register \/ Built
    PROVE  OptionResult' /\ OperandResult'
<1>1. /\ UNCHANGED <<parsers, values, got, stored, options, index, current, enough>>
      /\ pc = "building" /\ pc' \in {"building", "options", "done"}
      /\ result' \in {"none", "threw"} /\ (result' = "threw" => pc' = "done")
  BY DEF Register, Built, config, parserState, valueState, OptionResult
<1>2. options = <<>> /\ \A i \in DOMAIN parsers : got[i] = <<>>
  BY <1>1 DEF DigestInv, OptionInv
<1>3. \A i \in DOMAIN parsers : Occurrences(i)' = {}
  <2>1. options' = <<>> /\ DOMAIN options' = {}
    BY <1>1, <1>2
  <2>2. QED
    BY <2>1 DEF Occurrences
<1>4. OptionsGood'
  <2>1. DOMAIN options' = {}
    BY <1>1, <1>2
  <2>2. ASSUME NEW i \in DOMAIN parsers, parsers[i].kind # "boolean"
        PROVE  /\ \A n \in Occurrences(i)' : options'[n].text = "good"
               /\ Cardinality(Occurrences(i)') <= Most(parsers[i].kind)
    <3>1. parsers[i].kind \in Digesters
      BY <2>2, TupleFacts DEF DigestInv, ArgInv, Parsers, Kinds
    <3>2. Most(parsers[i].kind) \in Nat
      BY <3>1, MostFacts
    <3>3. QED
      BY <1>3, <3>2, FS_EmptySet
  <2>3. QED
    BY <1>1, <2>1, <2>2 DEF OptionsGood
<1>5. ASSUME NEW i \in DOMAIN parsers
      PROVE  Cardinality(Occurrences(i)') = Len(got'[i])
  <2>1. got'[i] = <<>> /\ Occurrences(i)' = {}
    BY <1>1, <1>2, <1>3
  <2>2. Cardinality({}) = 0 /\ Len(<<>>) = 0
    BY FS_EmptySet
  <2>3. QED
    BY <2>1, <2>2
<1>6. OptionResult'
  BY <1>1, <1>4, <1>5 DEF OptionResult
<1>7. OperandResult'
  BY <1>1 DEF OperandResult
<1>8. QED
  BY <1>6, <1>7

LEMMA NextResult == ResultInv /\ [Next]_vars => ResultInv'
<1> SUFFICES ASSUME DigestInv, OptionResult, OperandResult, [Next]_vars
             PROVE  OptionResult' /\ OperandResult'
  BY NextDigest DEF ResultInv
<1>1. pc # "done" => result = "none"
  BY DEF OptionResult
<1>2. CASE Register \/ Built
  BY <1>2, ConstructorResult
<1>3. ASSUME NEW i \in DOMAIN parsers, NEW text \in Texts, GetOption(i, text)
      PROVE  OptionResult' /\ OperandResult'
  <2>1. /\ UNCHANGED <<current, enough>>
        /\ pc = "options" /\ pc' \in {"options", "done"}
        /\ result' \in {result, "Error"}
    BY <1>3 DEF GetOption, ParseOption, Return, valueState
  <2>2. OperandResult'
    BY <1>1, <2>1 DEF OperandResult
  <2>3. QED
    BY <1>3, <2>2, GetOptionResult
<1>4. CASE GetHelp \/ GetUnknown
  <2>1. pc' = "done" /\ result' \in {"Help", "Error"}
    BY <1>4 DEF GetHelp, GetUnknown, Return
  <2>2. result' = "Error" => ~OptionsGood'
    <3>1. SUFFICES ASSUME GetUnknown PROVE ~OptionsGood'
      BY <1>4 DEF GetHelp, Return
    <3>2. /\ options' = Append(options, [short |-> "?", text |-> "empty"])
          /\ options \in Seq(Options)
      BY <3>1 DEF GetUnknown, DigestInv, ArgInv, ArgTypes
    <3>3. [short |-> "?", text |-> "empty"] \in Options
      BY DEF Options, Texts
    <3>4. /\ options'[Len(options) + 1] = [short |-> "?", text |-> "empty"]
          /\ Len(options) + 1 \in DOMAIN options'
      BY <3>2, <3>3, AppendProperties, LenProperties
    <3>5. QED
      BY <3>4 DEF OptionsGood
  <2>3. QED
    BY <2>1, <2>2 DEF OptionResult, OperandResult
<1>5. CASE NoMoreOptions
  <2>1. /\ UNCHANGED <<parsers, got, options, result>>
        /\ pc = "options" /\ pc' = "values"
    BY <1>5 DEF NoMoreOptions, config, parserState
  <2>2. QED
    BY <1>1, <1>5, <2>1, OptionResultKept, NoMoreOptionsResult
<1>6. ASSUME NEW i \in DOMAIN values, LackValue(i) \/ NextValue(i)
      PROVE  OptionResult' /\ OperandResult'
  <2>1. /\ UNCHANGED <<parsers, got, options, result>> /\ pc = "values" /\ pc' = "values"
    BY <1>6 DEF LackValue, NextValue, Visiting, config, parserState
  <2>2. QED
    BY <1>1, <1>6, <2>1, OptionResultKept, LackValueResult, NextValueResult
<1>7. ASSUME NEW i \in DOMAIN values, DigestValue(i)
      PROVE  OptionResult' /\ OperandResult'
  <2>1. /\ UNCHANGED <<parsers, got, options>> /\ pc = "values"
        /\ \/ pc' = "values" /\ result' = result
           \/ pc' = "done" /\ result' = "Error"
    BY <1>7 DEF DigestValue, Visiting, Return, config, parserState
  <2>2. OperandResult' /\ (result' = "Error" /\ pc' = "done" => ~OperandsGood')
    BY <1>1, <1>7, <2>1, DigestValueResult
  <2>3. QED
    BY <1>1, <2>1, <2>2, OptionResultKept
<1>8. CASE Finish
  <2>1. /\ UNCHANGED <<parsers, got, options>> /\ pc = "values" /\ pc' = "done"
    BY <1>8 DEF Finish, Return, config, parserState
  <2>2. QED
    BY <1>8, <2>1, OptionResultKept, FinishResult
<1>9. CASE UNCHANGED vars
  <2>1. UNCHANGED <<parsers, values, got, stored, operands, index, current, enough,
                    options, pc, result>>
    BY <1>9 DEF vars, config, parserState, valueState
  <2>2. /\ OperandsGood' <=> OperandsGood
        /\ \A other : Shares(other)' <=> Shares(other)
        /\ AtEnd' <=> AtEnd
        /\ Exhausted' <=> Exhausted
        /\ Starved' <=> Starved
    BY <2>1 DEF OperandsGood, Shares, Most, AtEnd, Exhausted, Starved
  <2>3. \A cut : Visits(cut)' <=> Visits(cut)
    BY <2>1, <2>2 DEF Visits, Most
  <2>4. OperandResult'
    BY <2>1, <2>2, <2>3 DEF OperandResult, Most
  <2>5. OptionResult'
    BY <1>1, <2>1, <2>2, OptionResultKept
  <2>6. QED
    BY <2>4, <2>5
<1>10. QED
  BY <1>2, <1>3, <1>4, <1>5, <1>6, <1>7, <1>8, <1>9 DEF Next, Done

\* For any tuples and any command line, parse() says Ok only for those that the
\* tuples describe; it visits the values greedily and without looking ahead, and of
\* the command lines that could have been shared out it refuses only those in which
\* a value took several texts and a later one got none (ArgParser.h:301-347).
THEOREM OkIsExact == Spec => []OkExact
<1>1. ResultInv => OkExact
  BY DEF ResultInv, OptionResult, OperandResult, OkExact
<1>2. QED
  BY <1>1, InitResult, NextResult, PTL DEF Spec

===============================================================================
