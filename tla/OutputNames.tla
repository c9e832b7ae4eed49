----------------------------- MODULE OutputNames -----------------------------
(***************************************************************************)
(* get_output_filename, modules/core/internal/common.bzl: the names of the *)
(* outputs that a plugin will have for a proto, predicted from a pattern   *)
(* like "{protopath|python}_pb2.py".  Of the filters those are here that a *)
(* plugin of the repository uses.                                          *)
(*                                                                         *)
(* The filters go through a name by character; what they tell apart are    *)
(* runs of letters, digits, and the signs between them.  A name is spelled *)
(* as a sequence of such parts: a word, in lower case or with a capital, a *)
(* digit, a sign.                                                          *)
(***************************************************************************)
EXTENDS Naturals, Sequences, SequencesExt

CONSTANTS
  Spelling,   \* the parts of a name
  Capital,    \* a lower-case word with its first letter in upper case
  Upper       \* the words of _objc_upper_segments, in upper case

Part(kind, text) == [kind |-> kind, text |-> text]

\* How a part is written; the text of a word is in lower case.
Spelled(part) ==
  CASE part.kind = "capital" -> Capital[part.text]
    [] part.kind = "upper"   -> Upper[part.text]
    [] OTHER                 -> part.text

Text(parts) == FoldLeft(LAMBDA text, part : text \o Spelled(part), "", parts)

Is(part, sign) == part.kind = "sign" /\ part.text = sign

\* Only the first letter changes, and only if it is in lower case.
Capitalized(part) == IF part.kind = "lower" THEN Part("capital", part.text) ELSE part

\* What is between underscores is capitalized, the underscores are dropped.
pascal_case(name) ==
  LET parts == [i \in 1..Len(name) |->
                  IF i = 1 \/ Is(name[i - 1], "_") THEN Capitalized(name[i]) ELSE name[i]]
  IN SelectSeq(parts, LAMBDA part : ~ Is(part, "_"))

(***************************************************************************)
(* Segments begin at every word, whether a sign is before it or a capital, *)
(* and at a digit that follows a digit; the first digit after a word stays *)
(* in its segment, even if a sign is between them.  Signs are dropped.     *)
(***************************************************************************)
Segments(name) ==
  LET Next(acc, part) ==
        IF part.kind = "sign" THEN [acc EXCEPT !.last = "sign"]
        ELSE IF part.kind = "digit" /\ acc.last # "digit"
        THEN [acc EXCEPT !.last = "digit",
                         !.segments[Len(acc.segments)] = Append(@, part)]
        ELSE [last |-> part.kind, segments |-> Append(acc.segments, <<part>>)]
  IN FoldLeft(Next, [last |-> "sign", segments |-> << << >> >>], name).segments

\* A segment that is a word of _objc_upper_segments is in upper case, any other
\* is capitalized.
pascal_objc(name) ==
  FlattenSeq([i \in 1..Len(Segments(name)) |->
    LET segment == Segments(name)[i] IN
    IF segment = << >> THEN << >>
    ELSE IF Len(segment) = 1 /\ segment[1].text \in DOMAIN Upper
    THEN <<Part("upper", segment[1].text)>>
    ELSE [segment EXCEPT ![1] = Capitalized(@)]])

\* Dashes become underscores, and a dot begins a new name of the path.
python_path(path) ==
  LET Next(names, part) ==
        IF Is(part, ".") THEN Append(names, << >>)
        ELSE [names EXCEPT ![Len(names)] =
                Append(@, IF Is(part, "-") THEN Part("sign", "_") ELSE part)]
  IN FlattenSeq([i \in 1..Len(path) |-> FoldLeft(Next, << << >> >>, path[i])])

\* A pattern: whether it names the path of the proto or only its base name, the
\* filter, and what follows; the extension is what follows the last dot.
Pattern(token, filter, suffix, ext) ==
  [token |-> token, filter |-> filter, suffix |-> suffix, ext |-> ext]

\* A prefix that a path does not have is not taken off; those of paths are
\* whole directories.
strip_path_prefix(path, prefix) ==
  IF IsPrefix(prefix, path) THEN SubSeq(path, Len(prefix) + 1, Len(path)) ELSE path

\* The directories that protoc finds a proto under: those of the file without
\* the source root of its proto_library, which has "_virtual_imports" in it if
\* the library sets prefixes, the root of generated files, and its repository.
descriptor_proto_path(proto) ==
  strip_path_prefix(
    strip_path_prefix(strip_path_prefix(proto.dir, proto.proto_source_root), proto.root),
    proto.workspace_root)

\* get_output_filename.  The filters for camel case leave directories alone.
OutputFilename(proto, pattern) ==
  LET within == descriptor_proto_path(proto)
      dirs == IF pattern.token = "basename" THEN << >>
              ELSE [i \in 1..Len(within) |-> Spelling[within[i]]]
      base == Spelling[proto.base]
      path == CASE pattern.filter = "none"   -> Append(dirs, base)
                [] pattern.filter = "pascal" -> Append(dirs, pascal_case(base))
                [] pattern.filter = "objc"   -> Append(dirs, pascal_objc(base))
                [] pattern.filter = "python" -> python_path(Append(dirs, base))
  IN [dir  |-> [i \in 1..Len(path) - 1 |-> Text(path[i])],
      base |-> Text(Last(path)) \o pattern.suffix,
      ext  |-> pattern.ext]
=============================================================================
