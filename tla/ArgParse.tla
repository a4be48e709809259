-------------------------------- MODULE ArgParse --------------------------------
(***************************************************************************)
(* brasa::argparse: the constructor of ArgParser, which registers the      *)
(* options, and one call of parse(), with the digest() of the parsers and  *)
(* of the positional values.  Texts that convert to the type of a value    *)
(* are told from texts that do not; usage messages are left out, but for   *)
(* the names of the missing positionals.                                   *)
(*                                                                         *)
(* getopt_long is external: each call returns the short option of some     *)
(* registered option, with an argument if the option takes one, or 'h',    *)
(* '?' or -1; after -1 the positionals follow in argv in their order.  The *)
(* option ':' is returned for its long form, and, when it is the first of  *)
(* the tuple, for an option that lacks its argument.                       *)
(***************************************************************************)
EXTENDS Integers, Sequences, FiniteSets

CONSTANTS
    ParserTuples,   \* tuples of option parsers: [short, long, kind]
    ValueTuples,    \* tuples of the kinds of positional values
    Limit,          \* the N of LimitedMultiValue
    MaxOptions,     \* bound: options on the command line
    MaxOperands     \* bound: positionals on the command line

\* What an option parser holds, or a positional value is.
Digesters == {"single", "multi", "limited"}
Kinds == Digesters \cup {"boolean"}

\* Arguments of options, and positionals.  An empty text converts to no number,
\* and as a positional it is no different from another bad one.
Texts == {"good", "bad", "empty"}
OperandTexts == {"good", "bad"}

ASSUME ArgParseAssumption ==
    /\ ParserTuples \subseteq Seq([short : STRING, long : STRING, kind : Kinds])
    /\ \A t \in ParserTuples : \A i \in DOMAIN t : t[i].short # "?"
    /\ ValueTuples \subseteq Seq(Digesters)
    /\ Limit \in Nat \ {0}
    /\ MaxOptions \in Nat /\ MaxOperands \in Nat

VARIABLES
    parsers,    \* parsers_: the tuple
    values,     \* values_: the kinds in the tuple
    registered, \* short_options_ and long_options_: the parsers pushed so far
    present,    \* present_, or active_, of each parser
    got,        \* what each parser has digested, as positions in options
    stored,     \* what each value has digested, as positions in operands
    operands,   \* argv from optind on
    index,      \* index - optind + 1
    current,    \* the element of the value tuple that is visited
    enough,     \* what accumulate_tuple has accumulated
    missing,    \* the values named by the error message
    options,    \* history: what getopt_long returned, with the arguments
    pc,
    result      \* of the constructor or of parse()

config == <<parsers, values>>
parserState == <<present, got>>
valueState == <<stored, index, current, enough>>
vars == <<config, registered, parserState, valueState, operands, missing,
          options, pc, result>>

Init ==
    /\ parsers \in ParserTuples
    /\ values \in ValueTuples
    /\ registered = {}
    /\ present = [i \in DOMAIN parsers |-> FALSE]
    /\ got = [i \in DOMAIN parsers |-> <<>>]
    /\ stored = [i \in DOMAIN values |-> <<>>]
    /\ operands = <<>>
    /\ index = 1
    /\ current = 1
    /\ enough = TRUE
    /\ missing = {}
    /\ options = <<>>
    /\ pc = "building"
    /\ result = "none"

-------------------------------------------------------------------------------
(* The constructor *)

\* short_options.find: each parser pushed its option, and a ':' if it takes an
\* argument.
InShortOptions(short) ==
    \E j \in registered :
        parsers[j].short = short \/ (short = ":" /\ parsers[j].kind # "boolean")

\* Mutation of Duplicated: only the short options are compared.
DuplicatedShort(i) == InShortOptions(parsers[i].short)

Duplicated(i) ==
    \/ InShortOptions(parsers[i].short)
    \/ \E j \in registered : parsers[j].long = parsers[i].long

\* BuildOptions, for one element of the tuple.
Register ==
    /\ pc = "building"
    /\ \E i \in DOMAIN parsers :
          /\ registered = 1 .. i - 1
          /\ IF Duplicated(i)
             THEN /\ pc' = "done" /\ result' = "threw"
                  /\ UNCHANGED registered
             ELSE /\ registered' = registered \cup {i}
                  /\ UNCHANGED <<pc, result>>
    /\ UNCHANGED <<config, parserState, valueState, operands, missing, options>>

\* The rest of the constructor: -h and --help are reserved.
Built ==
    /\ pc = "building"
    /\ registered = DOMAIN parsers
    /\ IF \E i \in registered : parsers[i].short = "h" \/ parsers[i].long = "help"
       THEN pc' = "done" /\ result' = "threw"
       ELSE pc' = "options" /\ UNCHANGED result
    /\ UNCHANGED <<config, registered, parserState, valueState, operands,
                   missing, options>>

-------------------------------------------------------------------------------
(* digest() of the values *)

\* Mutation of CanDigest: LimitedMultiValue takes one more.
CanDigestOneMore(kind, digested) ==
    \/ kind = "single" /\ digested = <<>>
    \/ kind = "limited" /\ Len(digested) <= Limit
    \/ kind = "multi"

CanDigest(kind, digested) ==
    \/ kind = "single" /\ digested = <<>>
    \/ kind = "limited" /\ Len(digested) < Limit
    \/ kind = "multi"

Throws(kind, digested, text) == ~CanDigest(kind, digested) \/ text # "good"

\* What is left of a bad element of a MultiValue.
Default == 0

\* The elements after digest() of the text at position n, thrown or not: a
\* MultiValue appends the element before it converts the text.
AfterDigest(kind, digested, text, n) ==
    IF ~CanDigest(kind, digested) \/ (kind = "single" /\ text # "good")
    THEN digested
    ELSE Append(digested, IF text = "good" THEN n ELSE Default)

-------------------------------------------------------------------------------
(* do_parse: the options *)

Return(r) == pc' = "done" /\ result' = r

\* digest() of the parser i.
ParserThrows(i, text) ==
    /\ parsers[i].kind # "boolean"
    /\ text = "empty" \/ Throws(parsers[i].kind, got[i], text)
ParserIsPresent(i, text) == parsers[i].kind = "boolean" \/ text # "empty"
ParserGot(i, text) ==
    IF parsers[i].kind = "boolean" \/ text = "empty" THEN got[i]
    ELSE AfterDigest(parsers[i].kind, got[i], text, Len(options) + 1)

\* for_each_tuple visits every parser of the option, until one throws.
Visited(short, text) ==
    {i \in DOMAIN parsers :
        /\ parsers[i].short = short
        /\ \A j \in 1 .. i - 1 : parsers[j].short = short => ~ParserThrows(j, text)}

\* Mutation of ParseOption: the exception of a parser is lost.
ParseOptionIgnores(short, text) ==
    LET visited == Visited(short, text)
    IN  /\ present' = [i \in DOMAIN parsers |->
                          present[i] \/ (i \in visited /\ ParserIsPresent(i, text))]
        /\ got' = [i \in DOMAIN parsers |->
                      IF i \in visited THEN ParserGot(i, text) ELSE got[i]]
        /\ UNCHANGED <<pc, result>>

\* ParseOption, and the handler of parse() if a parser throws.
ParseOption(short, text) ==
    LET visited == Visited(short, text)
    IN  /\ present' = [i \in DOMAIN parsers |->
                          present[i] \/ (i \in visited /\ ParserIsPresent(i, text))]
        /\ got' = [i \in DOMAIN parsers |->
                      IF i \in visited THEN ParserGot(i, text) ELSE got[i]]
        /\ IF \E i \in visited : ParserThrows(i, text)
           THEN Return("Error")
           ELSE UNCHANGED <<pc, result>>

\* getopt_long returns the option of the parser i.  Bound: MaxOptions.
GetOption(i, text) ==
    /\ pc = "options"
    /\ Len(options) < MaxOptions
    /\ parsers[i].kind = "boolean" => text = "empty"
    /\ ParseOption(parsers[i].short, text)
    /\ options' = Append(options, [short |-> parsers[i].short, text |-> text])
    /\ UNCHANGED <<config, registered, valueState, operands, missing>>

\* 'h'
GetHelp ==
    /\ pc = "options"
    /\ Return("Help")
    /\ options' = Append(options, [short |-> "h", text |-> "empty"])
    /\ UNCHANGED <<config, registered, parserState, valueState, operands, missing>>

\* '?': an unknown option, or an option without its argument.
GetUnknown ==
    /\ pc = "options"
    /\ Return("Error")
    /\ options' = Append(options, [short |-> "?", text |-> "empty"])
    /\ UNCHANGED <<config, registered, parserState, valueState, operands, missing>>

\* -1.  Bound: MaxOperands.
NoMoreOptions ==
    /\ pc = "options"
    /\ pc' = "values"
    /\ \E n \in 0 .. MaxOperands : operands' \in [1 .. n -> OperandTexts]
    /\ UNCHANGED <<config, registered, parserState, valueState, missing,
                   options, result>>

-------------------------------------------------------------------------------
(* do_parse: the positionals *)

AtEnd == index > Len(operands)

Visiting(i) == pc = "values" /\ current = i /\ i \in DOMAIN values

\* Mutation of LackValue: a value that is left without text is no failure.
LackValueOptional(i) ==
    /\ Visiting(i)
    /\ AtEnd /\ stored[i] = <<>>
    /\ current' = current + 1
    /\ UNCHANGED <<config, registered, parserState, stored, index, enough,
                   operands, missing, options, pc, result>>

\* ParseValues is entered with no text left: false.
LackValue(i) ==
    /\ Visiting(i)
    /\ AtEnd /\ stored[i] = <<>>
    /\ current' = current + 1
    /\ enough' = FALSE
    /\ UNCHANGED <<config, registered, parserState, stored, index, operands,
                   missing, options, pc, result>>

\* Mutation of DigestValue: the index is not advanced.
DigestValueStays(i) ==
    /\ Visiting(i)
    /\ ~AtEnd
    /\ CanDigest(values[i], stored[i])
    /\ stored' = [stored EXCEPT ![i] =
                     AfterDigest(values[i], @, operands[index], index)]
    /\ IF Throws(values[i], stored[i], operands[index])
       THEN Return("Error")
       ELSE UNCHANGED <<pc, result>>
    /\ UNCHANGED <<config, registered, parserState, index, current, enough,
                   operands, missing, options>>

\* ParseValues: one round of the loop, or the exception of digest().
DigestValue(i) ==
    /\ Visiting(i)
    /\ ~AtEnd
    /\ CanDigest(values[i], stored[i])
    /\ stored' = [stored EXCEPT ![i] =
                     AfterDigest(values[i], @, operands[index], index)]
    /\ IF Throws(values[i], stored[i], operands[index])
       THEN Return("Error") /\ UNCHANGED index
       ELSE index' = index + 1 /\ UNCHANGED <<pc, result>>
    /\ UNCHANGED <<config, registered, parserState, current, enough, operands,
                   missing, options>>

\* The loop of ParseValues ends: true.
NextValue(i) ==
    /\ Visiting(i)
    /\ stored[i] # <<>>
    /\ AtEnd \/ ~CanDigest(values[i], stored[i])
    /\ current' = current + 1
    /\ UNCHANGED <<config, registered, parserState, stored, index, enough,
                   operands, missing, options, pc, result>>

\* BuildMissingParameters
Unnamed == {i \in DOMAIN values : i - 1 >= index - 1}

\* The rest of do_parse.
Finish ==
    /\ pc = "values"
    /\ current > Len(values)
    /\ missing' = IF enough THEN {} ELSE Unnamed
    /\ Return(IF enough /\ AtEnd THEN "Ok" ELSE "Error")
    /\ UNCHANGED <<config, registered, parserState, valueState, operands, options>>

\* The program uses what was parsed.
Done == pc = "done" /\ UNCHANGED vars

Next ==
    \/ Register \/ Built
    \/ \E i \in DOMAIN parsers, text \in Texts : GetOption(i, text)
    \/ GetHelp \/ GetUnknown \/ NoMoreOptions
    \/ \E i \in DOMAIN values : LackValue(i) \/ DigestValue(i) \/ NextValue(i)
    \/ Finish
    \/ Done

Spec == Init /\ [][Next]_vars

-------------------------------------------------------------------------------
(* Properties *)

\* Types; no value holds more than it may.
TypeOK ==
    /\ parsers \in ParserTuples /\ values \in ValueTuples
    /\ registered \subseteq DOMAIN parsers
    /\ present \in [DOMAIN parsers -> BOOLEAN]
    /\ DOMAIN got = DOMAIN parsers
    /\ \A i \in DOMAIN parsers : got[i] \in Seq(0 .. MaxOptions)
    /\ DOMAIN stored = DOMAIN values
    /\ \A i \in DOMAIN values :
          /\ stored[i] \in Seq(0 .. MaxOperands)
          /\ values[i] # "multi" => Len(stored[i]) <= Limit
    /\ operands \in Seq(OperandTexts)
    /\ index \in 1 .. Len(operands) + 1
    /\ current \in 1 .. Len(values) + 1
    /\ enough \in BOOLEAN
    /\ missing \subseteq DOMAIN values
    /\ pc \in {"building", "options", "values", "done"}
    /\ result \in {"none", "threw", "Ok", "Error", "Help"}

\* The options that the constructor may accept: "throws InvalidArgument if any
\* parser uses reserved option 'h' or "help"" and "if duplicate short or long
\* options are detected" (ArgParser.h:166-167).
Acceptable ==
    \A i \in DOMAIN parsers :
        /\ parsers[i].short # "h" /\ parsers[i].long # "help"
        /\ \A j \in DOMAIN parsers \ {i} :
              /\ parsers[i].short # parsers[j].short
              /\ parsers[i].long # parsers[j].long

\* A short option ':' behind a parser that takes an argument.
ColonClash ==
    \E i, j \in DOMAIN parsers :
        j < i /\ parsers[i].short = ":" /\ parsers[j].kind # "boolean"

\* The constructor throws for those reasons and for one that is not documented,
\* ColonClash, where it takes the option for a duplicate (ArgParser.h:488, 498);
\* the documented clashes do not depend on the order of the tuple, although it
\* looks at one parser at a time and at -h only in the end.
ConstructorExact ==
    /\ result = "threw" => ~Acceptable \/ ColonClash
    /\ pc # "building" /\ result # "threw" => Acceptable /\ ~ColonClash

\* Where the parser i got its option.
Occurrences(i) == {n \in DOMAIN options : options[n].short = parsers[i].short}

\* The most texts a value holds.
Most(kind) ==
    CASE kind = "single"  -> 1
      [] kind = "limited" -> Limit
      [] kind = "multi"   -> MaxOperands + MaxOptions

\* No option is unknown, each parser gets texts that convert and no more than it
\* holds.  A boolean may be repeated: argparse/README.md:83 says that this is
\* "not possible", but the code takes it as given once.
OptionsGood ==
    /\ \A n \in DOMAIN options : options[n].short \notin {"h", "?"}
    /\ \A i \in DOMAIN parsers :
          parsers[i].kind # "boolean" =>
              /\ \A n \in Occurrences(i) : options[n].text = "good"
              /\ Cardinality(Occurrences(i)) <= Most(parsers[i].kind)

\* The positionals cut into shares as Values.h describes the values: each is
\* mandatory, and gets one text, "up to N" (Values.h:430) or any number.
Shares(cut) ==
    /\ cut[0] = 0 /\ cut[Len(values)] = Len(operands)
    /\ \A i \in DOMAIN values : cut[i] - cut[i - 1] \in 1 .. Most(values[i])

OperandsGood ==
    /\ \A n \in DOMAIN operands : operands[n] = "good"
    /\ \E cut \in [0 .. Len(values) -> 0 .. Len(operands)] : Shares(cut)

\* A value got nothing, while one before it took a text it could have left.
Starved ==
    \E i, j \in DOMAIN values :
        j < i /\ stored[i] = <<>> /\ Len(stored[j]) > 1

\* parse() says Ok only for command lines that the tuples describe.  It says Error
\* for the others, although an exception may end it at any digest() and
\* ParseValues goes on after a value that found nothing (ArgParser.h:61-79,
\* 301-347, 375-388); and of those that the tuples describe it refuses only the
\* ones in which a value that may take several texts took what a later one
\* needed (ArgParser.h:382).
OkExact ==
    /\ pc = "values" => OptionsGood
    /\ result = "Ok" => OptionsGood /\ OperandsGood
    /\ result = "Error" /\ OptionsGood /\ OperandsGood => Starved

\* Each positional goes to one value, in the order of the command line: nothing
\* is lost or taken twice when a value is full and the next one goes on
\* (ArgParser.h:375-388).
OperandsInOrder ==
    pc = "values" \/ result = "Ok" =>
        /\ \A n \in 1 .. index - 1 :
              \E i \in DOMAIN values : \E k \in DOMAIN stored[i] : stored[i][k] = n
        /\ \A i \in DOMAIN values : \A k \in DOMAIN stored[i] :
              /\ stored[i][k] \in 1 .. index - 1
              /\ \A j \in DOMAIN values : \A l \in DOMAIN stored[j] :
                    i < j \/ (i = j /\ k < l) => stored[i][k] < stored[j][l]

\* A sequence of the members of S, each of them once, in increasing order.
Lists(digested, S) ==
    /\ \A n \in S : \E k \in DOMAIN digested : digested[k] = n
    /\ \A k \in DOMAIN digested :
          /\ digested[k] \in S
          /\ \A l \in DOMAIN digested : k < l => digested[k] < digested[l]

\* Each option is digested by its own parser, once and in order, and no parser is
\* present whose option was not given (ArgParser.h:355-367, Parsers.h:204-210).
OptionsDigestedOnce ==
    pc = "values" \/ result = "Ok" =>
        \A i \in DOMAIN parsers :
            /\ present[i] <=> Occurrences(i) # {}
            /\ parsers[i].kind # "boolean" => Lists(got[i], Occurrences(i))

-------------------------------------------------------------------------------
(* What the documentation says *)

\* ArgParser.h:503-507: BuildMissingParameters is there "to identify missing
\* required positional arguments": the error names those that got nothing.
MissingNamed ==
    pc = "done" /\ ~enough => missing = {i \in DOMAIN values : stored[i] = <<>>}
===============================================================================
