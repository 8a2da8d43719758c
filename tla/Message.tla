------------------------------- MODULE Message -------------------------------
(***************************************************************************)
(* JsonrpcMessage (src/jsonrpc-message.c): messages are built from, and    *)
(* parsed by, a list of arguments that ends with NULL, as in               *)
(*                                                                         *)
(*    jsonrpc_message_new ("key", "[", "a", PUT_INT32 (1), "]", NULL)      *)
(*                                                                         *)
(* The functions call each other and take arguments from one list, so that *)
(* what one of them leaves decides what the next one finds.  They are      *)
(* operators here: they take the list and a position, and return with the  *)
(* next position.                                                          *)
(*                                                                         *)
(* What the program means is a tree; Flatten makes a list of it.  A        *)
(* message is built on one side, sent in either encoding, and parsed on    *)
(* the other side with any pattern.                                        *)
(*                                                                         *)
(* Values are <<type, content>>, with the types of GVariant.  The content  *)
(* of an "av" is a sequence of values, that of an "a{sv}" a sequence of    *)
(* <<key, value>>, that of any other type a sequence of words.             *)
(***************************************************************************)
EXTENDS Naturals, Sequences, SequencesExt

CONSTANTS
    Messages,               \* trees the program builds
    Patterns                \* trees the program parses with

VARIABLES
    message,                \* the tree that was built
    wire,                   \* its value
    encoding,               \* "none" until it is sent
    pattern,                \* the tree it was parsed with
    reply                   \* what the parser returned

vars == <<message, wire, encoding, pattern, reply>>

-----------------------------------------------------------------------------
(* Arguments and trees.                                                    *)

Null == <<"null">>
Raw(word) == <<"raw", word>>        \* a string as it is, also a parenthesis
Put(kind, words) == <<"put", kind, words>>
Get(kind) == <<"get", kind>>

NoPointer == <<"NULL">>             \* the words of PUT_STRING (NULL) etc.

\* The magic of the structures behind JSONRPC_MESSAGE_PUT_* and _GET_*, and
\* the type of GVariant that belongs to it.
Scalar == [string |-> "s", strv |-> "as", int32 |-> "i", int64 |-> "x",
           boolean |-> "b", double |-> "d"]

IsPut(arg, kind) == Len(arg) = 3 /\ arg[1] = "put" /\ arg[2] = kind
IsGet(arg, kind) == Len(arg) = 2 /\ arg[1] = "get" /\ arg[2] = kind

\* Trees are leaves, <<"{", members>> and <<"[", elements>>, where a member
\* is <<key, tree>>, and <<"inject", value>>: { PUT_VARIANT (value) }.  A key
\* is an argument: Raw (key), or PUT_STRING (key) where messages are built.
RECURSIVE Flatten(_)
Flatten(t) ==
    CASE t[1] = "{" ->
            <<Raw("{")>>
            \o FoldLeft(LAMBDA args, m : args \o <<m[1]>> \o Flatten(m[2]),
                        <<>>, t[2])
            \o <<Raw("}")>>
      [] t[1] = "[" ->
            <<Raw("[")>>
            \o FoldLeft(LAMBDA args, e : args \o Flatten(e), <<>>, t[2])
            \o <<Raw("]")>>
      [] t[1] = "inject" -> <<Raw("{"), Put("variant", t[2]), Raw("}")>>
      [] OTHER -> <<t>>

\* The arguments of a call: without the outer parentheses, but with a NULL.
Arguments(t) ==
    LET args == Flatten(t) IN Append(SubSeq(args, 2, Len(args) - 1), Null)

-----------------------------------------------------------------------------
(* External: GVariantDict and the encodings.                               *)

\* Value of the last member with a key; a dictionary holds each key once.
Lookup(members, key) ==
    LET at == {i \in 1..Len(members) : members[i][1] = key}
    IN  IF at = {} THEN <<"absent", <<>>>>
        ELSE members[CHOOSE i \in at : \A j \in at : j <= i][2]

Nothing(type) == <<type, <<"nothing">>>>

\* What arrives of a value that is sent as JSON: integers have 64 bits,
\* vectors of strings are arrays, null is a maybe of any type, and nothing
\* is boxed twice.
RECURSIVE OverJson(_)
OverJson(v) ==
    CASE v[1] = "i" -> <<"x", v[2]>>
      [] v[1] = "as" -> <<"av", [i \in 1..Len(v[2]) |-> <<"s", <<v[2][i]>>>>]>>
      [] v[1] \in {"ms", "mas", "mav", "mv"} -> Nothing("mv")
      [] v[1] = "v" -> OverJson(v[2])
      [] v[1] = "av" -> <<"av", [i \in 1..Len(v[2]) |-> OverJson(v[2][i])]>>
      [] v[1] = "a{sv}" ->
            <<"a{sv}", [i \in 1..Len(v[2]) |->
                            <<v[2][i][1], OverJson(v[2][i][2])>>]>>
      [] OTHER -> v

-----------------------------------------------------------------------------
(* Building: the position is that of the argument that is read next.       *)

\* A list or a nested object ends with its parenthesis, the whole with NULL,
\* which stays where it is.
Terminates(arg, parenthesis) == arg \in {Null, Raw(parenthesis)}

After(args, i) == IF args[i] = Null THEN i ELSE i + 1

Atom(arg) ==
    CASE arg[1] = "raw" -> <<"s", <<arg[2]>>>>
      [] IsPut(arg, "string") /\ arg[3] = NoPointer -> Nothing("ms")
      [] IsPut(arg, "strv") /\ arg[3] = NoPointer -> Nothing("mas")
      [] OTHER -> <<Scalar[arg[2]], arg[3]>>

Built(value, next) == [value |-> value, next |-> next]

RECURSIVE BuildObject(_, _, _), BuildArray(_, _, _)

BuildElement(args, i) ==
    IF args[i] = Raw("{") THEN BuildObject(<<>>, args, i + 1)
    ELSE IF args[i] = Raw("[") THEN BuildArray(<<>>, args, i + 1)
    ELSE Built(Atom(args[i]), i + 1)

\* A variant that is injected is taken, its "}" is not: the caller finds it
\* where it looks for the next key.
BuildMember(args, i) ==
    IF args[i] = Raw("{") /\ IsPut(args[i + 1], "variant")
    THEN Built(IF args[i + 1][3] = NoPointer THEN Nothing("mav")
                                             ELSE <<"v", args[i + 1][3]>>,
               i + 2)
    ELSE BuildElement(args, i)

\* A key is wrapped, or raw.  PUT_VARIANT for a key, which is an assertion,
\* is not among the arguments.
KeyOf(arg) == IF IsPut(arg, "string") THEN arg[3][1] ELSE arg[2]

BuildObject(builder, args, i) ==
    IF Terminates(args[i], "}")
    THEN Built(<<"a{sv}", builder>>, After(args, i))
    ELSE LET member == BuildMember(args, i + 1)
         IN  BuildObject(Append(builder, <<KeyOf(args[i]), member.value>>),
                         args, member.next)

BuildArray(builder, args, i) ==
    IF Terminates(args[i], "]")
    THEN Built(<<"av", builder>>, After(args, i))
    ELSE LET element == BuildElement(args, i)
         IN  BuildArray(Append(builder, element.value), args, element.next)

\* jsonrpc_message_new and jsonrpc_message_new_array
Build(t) ==
    IF t[1] = "{" THEN BuildObject(<<>>, Arguments(t), 1).value
                  ELSE BuildArray(<<>>, Arguments(t), 1).value

-----------------------------------------------------------------------------
(* Parsing.                                                                *)

AnyType == {"s", "ms", "as", "mas", "i", "x", "b", "d", "v", "mv", "a{sv}",
            "av", "mav"}

\* The types that a GET_* takes, of a member of an object ...
MemberTypes ==
    [dict |-> {"a{sv}"}, iter |-> {"av", "a{sv}"}, variant |-> AnyType,
     string |-> {"s", "ms", "mv"},
     strv |-> {"as", "av", "mas", "mav", "mv"},
     int32 |-> {"i"}, int64 |-> {"x"}, boolean |-> {"b"}, double |-> {"d"}]

\* ... and of an element of an array, where GET_STRV is not known and is
\* compared with the element as if it were a raw string.
FaultyElementTypes ==
    [dict |-> {"a{sv}"}, iter |-> {"av"}, variant |-> AnyType,
     string |-> {"s"}, strv |-> {},
     int32 |-> {"i"}, int64 |-> {"x"}, boolean |-> {"b"}, double |-> {"d"}]

ElementTypes ==
    [dict |-> {"a{sv}"}, iter |-> {"av"}, variant |-> AnyType,
     string |-> {"s", "ms"}, strv |-> {},
     int32 |-> {"i"}, int64 |-> {"x"}, boolean |-> {"b"}, double |-> {"d"}]

\* What is stored for the program.  A vector of strings that came as an array
\* gets the strings of it; an object in a variant is taken out of it.
Taken(kind, v) ==
    CASE v[1] \in {"ms", "mas", "mav", "mv"} /\ kind \in {"string", "strv"} ->
            NoPointer
      [] kind = "strv" /\ v[1] = "av" ->
            FlattenSeq([i \in 1..Len(v[2]) |->
                            IF v[2][i][1] = "s" THEN v[2][i][2] ELSE <<>>])
      [] kind = "variant" -> IF v[1] = "v" /\ v[2][1] = "a{sv}" THEN v[2] ELSE v
      [] kind \in {"dict", "iter"} -> v
      [] OTHER -> v[2]

Parsed(ret, next, got) == [ret |-> ret, next |-> next, got |-> got]

RECURSIVE ParseObject(_, _, _, _), ParseArray(_, _, _, _)

\* A single argument: GET_* or a raw string to compare with.
ParseAtom(types, value, args, i, got) ==
    IF args[i][1] = "get"
    THEN IF value[1] \in types[args[i][2]]
         THEN Parsed("TRUE", i + 1, Append(got, Taken(args[i][2], value)))
         ELSE Parsed("FALSE", i + 1, got)
    ELSE Parsed(IF value = <<"s", <<args[i][2]>>>> THEN "TRUE" ELSE "FALSE",
                i + 1, got)

ParseMember(value, args, i, got) ==
    CASE args[i] = Raw("{") ->
            IF value[1] = "a{sv}" THEN ParseObject(value[2], args, i + 1, got)
                                  ELSE Parsed("FALSE", i + 1, got)
      [] args[i] = Raw("[") ->
            IF value[1] = "av" THEN ParseArray(value[2], args, i + 1, got)
                               ELSE Parsed("FALSE", i + 1, got)
      [] OTHER -> ParseAtom(MemberTypes, value, args, i, got)

\* GET_DICT is taken for a "{": what follows it is read as keys.
ParseElement(value, args, i, got) ==
    CASE args[i] = Raw("{") \/ IsGet(args[i], "dict") ->
            IF value[1] = "a{sv}" THEN ParseObject(value[2], args, i + 1, got)
                                  ELSE Parsed("FALSE", i + 1, got)
      [] args[i] = Raw("[") ->
            IF value[1] = "av" THEN ParseArray(value[2], args, i + 1, got)
                               ELSE Parsed("FALSE", i + 1, got)
      [] OTHER -> ParseAtom(ElementTypes, value, args, i, got)

ParseObject(dict, args, i, got) ==
    IF Terminates(args[i], "}")
    THEN Parsed("TRUE", After(args, i), got)
    ELSE IF args[i + 1] = Null
    THEN Parsed("abort", i + 1, got)
    ELSE LET field == ParseMember(Lookup(dict, args[i][2]), args, i + 1, got)
         IN  IF field.ret = "TRUE"
             THEN ParseObject(dict, args, field.next, field.got)
             ELSE field

\* Faulty: takes an element before it looks whether the pattern has ended.
FaultyParseArray(iter, args, i, got) ==
    IF iter = <<>>
    THEN Parsed("FALSE", i, got)
    ELSE IF Terminates(args[i], "]")
    THEN Parsed("TRUE", After(args, i), got)
    ELSE LET element == ParseElement(Head(iter), args, i, got)
         IN  IF element.ret = "TRUE"
             THEN ParseArray(Tail(iter), args, element.next, element.got)
             ELSE element

ParseArray(iter, args, i, got) ==
    IF Terminates(args[i], "]")
    THEN Parsed("TRUE", After(args, i), got)
    ELSE IF iter = <<>>
    THEN Parsed("FALSE", i, got)
    ELSE LET element == ParseElement(Head(iter), args, i, got)
         IN  IF element.ret = "TRUE"
             THEN ParseArray(Tail(iter), args, element.next, element.got)
             ELSE element

\* jsonrpc_message_parse takes an object, also one in a variant, and
\* jsonrpc_message_parse_array an iterator over an array.
ParseMessage(p, value) ==
    LET args    == Arguments(p)
        unboxed == IF value[1] = "v" THEN value[2] ELSE value
    IN  IF args[1] = Null THEN Parsed("FALSE", 1, <<>>)
        ELSE IF p[1] = "[" THEN ParseArray(unboxed[2], args, 1, <<>>)
        ELSE IF unboxed[1] # "a{sv}" THEN Parsed("FALSE", 1, <<>>)
        ELSE ParseObject(unboxed[2], args, 1, <<>>)

-----------------------------------------------------------------------------
(* A message is built, sent and parsed.                                    *)

Nowhere == <<"absent", <<>>>>

Init ==
    /\ message = Null
    /\ wire = Nowhere
    /\ encoding = "none"
    /\ pattern = Null
    /\ reply = Parsed("none", 0, <<>>)

\* The pattern that takes out of a message what was put into it.
RECURSIVE Mirror(_)
Mirror(t) ==
    CASE t[1] = "{" -> <<"{", [i \in 1..Len(t[2]) |->
                                  <<Raw(KeyOf(t[2][i][1])), Mirror(t[2][i][2])>>]>>
      [] t[1] = "[" -> <<"[", [i \in 1..Len(t[2]) |-> Mirror(t[2][i])]>>
      [] t[1] = "inject" -> Get("variant")
      [] t[1] = "put" -> Get(t[2])
      [] OTHER -> Get("string")

New(t) ==
    /\ message = Null
    /\ message' = t
    /\ wire' = Build(t)
    /\ UNCHANGED <<encoding, pattern, reply>>

\* "boxed": over GVariant, and in another variant when the other side has it.
Send(how) ==
    /\ message # Null /\ encoding = "none"
    /\ encoding' = how
    /\ wire' = CASE how = "json" -> OverJson(wire)
                 [] how = "boxed" -> <<"v", wire>>
                 [] OTHER -> wire
    /\ UNCHANGED <<message, pattern, reply>>

\* Only an array gives the iterator that jsonrpc_message_parse_array needs.
Parse(p) ==
    /\ encoding # "none" /\ pattern = Null
    /\ p[1] = "[" => message[1] = "["
    /\ pattern' = p
    /\ reply' = ParseMessage(p, wire)
    /\ UNCHANGED <<message, wire, encoding>>

Next ==
    \/ \E t \in Messages : New(t)
    \/ \E how \in {"gvariant", "boxed", "json"} : Send(how)
    \/ \E p \in Patterns \cup {Mirror(message)} : Parse(p)

Spec == Init /\ [][Next]_vars

-----------------------------------------------------------------------------
(* What the arguments mean: trees and values, without positions.           *)

RECURSIVE Matches(_, _, _), Takes(_, _), Puts(_, _)

\* A pattern asks for members and for a prefix of an array.
Matches(p, v, types) ==
    CASE p[1] = "{" ->
            /\ v[1] = "a{sv}"
            /\ \A i \in 1..Len(p[2]) :
                   Matches(p[2][i][2], Lookup(v[2], KeyOf(p[2][i][1])), MemberTypes)
      [] p[1] = "[" ->
            /\ v[1] = "av"
            /\ Len(p[2]) <= Len(v[2])
            /\ \A i \in 1..Len(p[2]) :
                   Matches(p[2][i], v[2][i], ElementTypes)
      [] p[1] = "get" -> v[1] \in types[p[2]]
      [] OTHER -> v = <<"s", <<p[2]>>>>

\* What a pattern that matches stores, in its order.
Takes(p, v) ==
    CASE p[1] = "{" ->
            FlattenSeq([i \in 1..Len(p[2]) |->
                            Takes(p[2][i][2], Lookup(v[2], KeyOf(p[2][i][1])))])
      [] p[1] = "[" ->
            FlattenSeq([i \in 1..Len(p[2]) |-> Takes(p[2][i], v[2][i])])
      [] p[1] = "get" -> <<Taken(p[2], v)>>
      [] OTHER -> <<>>

\* What the program put into a message.
Puts(t, how) ==
    CASE t[1] = "{" -> FlattenSeq([i \in 1..Len(t[2]) |-> Puts(t[2][i][2], how)])
      [] t[1] = "[" -> FlattenSeq([i \in 1..Len(t[2]) |-> Puts(t[2][i], how)])
      [] t[1] = "inject" ->
            <<IF t[2] = NoPointer THEN Nothing(IF how = "json" THEN "mv" ELSE "mav")
              ELSE IF how = "json" THEN OverJson(t[2]) ELSE t[2]>>
      [] t[1] = "put" -> <<t[3]>>
      [] OTHER -> <<<<t[2]>>>>

\* A tree and all that is nested in it, each with the parenthesis around it.
RECURSIVE Parts(_, _)
Parts(t, place) ==
    {<<t, place>>}
    \cup CASE t[1] = "{" ->
                UNION {Parts(t[2][i][2], "{") : i \in 1..Len(t[2])}
           [] t[1] = "[" -> UNION {Parts(t[2][i], "[") : i \in 1..Len(t[2])}
           [] OTHER -> {}

HasDictInArray(t) == <<Get("dict"), "[">> \in Parts(t, "{")

\* JSON has no integers of 32 bits, and no type for a null in an array.
LosesInJson(t) ==
    \E part \in Parts(t, "{") :
        IsPut(part[1], "int32") \/ part = <<Put("string", NoPointer), "[">>

\* Fields after a variant that was injected.
RECURSIVE EndsInjected(_)
EndsInjected(t) ==
    \/ t[1] = "inject"
    \/ t[1] = "{" /\ t[2] # <<>> /\ EndsInjected(Last(t[2])[2])

HasFieldsAfterInjected(t) ==
    \E part \in Parts(t, "{") :
        /\ part[1][1] = "{"
        /\ \E i \in 1..Len(part[1][2]) - 1 : EndsInjected(part[1][2][i][2])

-----------------------------------------------------------------------------
(* Properties.                                                             *)

\* jsonrpc_message_parse and jsonrpc_message_parse_array return TRUE exactly
\* if the value has what the pattern asks for at every depth, and then store
\* what belongs to each GET_*: no part of the pattern is taken for another,
\* however the functions leave the list of arguments to each other.  GET_DICT
\* in an array is not among this: it is read as the start of an object.
ParsesWhatIsMeant ==
    pattern # Null /\ ~ HasDictInArray(pattern) =>
        LET value == IF encoding = "boxed" THEN wire[2] ELSE wire
            matches == Arguments(pattern) # <<Null>>
                       /\ Matches(pattern, value, MemberTypes)
        IN  /\ reply.ret = IF matches THEN "TRUE" ELSE "FALSE"
            /\ matches => reply.got = Takes(pattern, value)

\* What was put into a message is what the matching GET_* take out of it on
\* the other side, in either encoding.  It is not for PUT_INT32, and for null
\* strings in an array, over JSON; nor for messages that have fields after a
\* variant that is injected.
RoundTrip ==
    /\ pattern # Null /\ pattern = Mirror(message)
    /\ encoding = "json" => ~ LosesInJson(message)
    /\ ~ HasFieldsAfterInjected(message)
    => /\ reply.ret = "TRUE"
       /\ reply.got = Puts(message, encoding)

\* "Try to build the next field in the object if there is one": every field
\* that the program passes to jsonrpc_message_new is in the message.
RECURSIVE Holds(_, _)
Holds(v, t) ==
    t[1] = "{" /\ v[1] = "a{sv}" =>
        \A i \in 1..Len(t[2]) :
            LET field == Lookup(v[2], KeyOf(t[2][i][1]))
            IN  field # Nowhere /\ Holds(field, t[2][i][2])

NextFieldIsBuilt ==
    message # Null /\ encoding = "none" => Holds(wire, message)

=============================================================================
