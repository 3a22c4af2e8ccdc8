----------------------------- MODULE FrameCodec -----------------------------
(***************************************************************************)
(* The frame envelope in its three languages: decode, validate and encode  *)
(* of scripts/vendor/runtime/rust/frame.rs, runtime/typescript/frame.ts    *)
(* and ridl/framing.py, as they read and write the members of one JSON     *)
(* object.  A frame travels: a peer that is none of the three may have     *)
(* written some members its own way, and each port that accepts the object *)
(* may pass on its own encoding of what it read.                           *)
(*                                                                         *)
(* A member's value is a token for the values no port tells apart: the     *)
(* text of a path is "slash", a string over 128 characters "long", [0] in  *)
(* a query "badpair".  The two orders of a meta object with two names are  *)
(* "sorted" and "unsorted".  The body as a whole is a value that the three  *)
(* languages hold alike ("text"), null, or one of two that TypeScript alone *)
(* can be given: "undefined" stands for what JSON.stringify leaves out      *)
(* (functions and symbols too), "nan" for the numbers it writes as null.    *)
(*                                                                         *)
(* Definitions marked Variant are faults of the code that the properties   *)
(* are tested against; no specification uses them.                         *)
(***************************************************************************)
EXTENDS Naturals

CONSTANT MaxAltered   \* bound on the members a peer writes its own way

Ports == {"rust", "typescript", "python"}

FrameTypes == {"call", "data", "end", "error", "cancel"}

Text == {"absent", "null", "empty", "text", "slash", "number"}

\* What may stand in each member; "other" is a name outside FIELD_ORDER.
Values == [
  v       |-> {"absent", "1", "1.0", "true", "257", "2"},
  id      |-> {"absent", "null", "empty", "text", "long", "number"},
  t       |-> FrameTypes \cup {"absent", "unknown"},
  key     |-> Text, method |-> Text, path |-> Text,
  query   |-> {"absent", "null", "falsy", "none", "pairs", "badpair"},
  body    |-> {"absent", "null", "text"},
  code    |-> Text, message |-> Text,
  meta    |-> {"absent", "null", "falsy", "none", "sorted", "unsorted", "nonstring"},
  other   |-> {"absent", "text"}]

Members == DOMAIN Values

VARIABLES
  built,    \* the frame a port built, until a foreign peer changes it
  object,   \* the members on the wire
  altered,  \* how many a foreign peer wrote
  by        \* the port that encoded the object last

codecVars == <<built, object, altered, by>>

-----------------------------------------------------------------------------
\* Reading the members.

\* A member of strings.  Rust reads what is not a string as no member;
\* TypeScript and Python take the value as it is, None being no member too.
StringOf(port, x) ==
  CASE port = "rust"   -> IF x \in {"null", "number"} THEN "absent" ELSE x
    [] port = "python" -> IF x = "null" THEN "absent" ELSE x
    [] OTHER           -> x

\* What the port holds for v, and so compares with FRAME_VERSION and writes:
\* `as u8` takes 257 for 1, a JavaScript number has no 1.0, and 1.0 and True
\* equal 1 in Python.
VersionOf(port, x) ==
  CASE port = "rust" /\ x = "257"       -> "1"
    [] port = "typescript" /\ x = "1.0" -> "1"
    [] OTHER                            -> x

Supported(port) == IF port = "python" THEN {"1", "1.0", "true"} ELSE {"1"}

\* Python's `or` takes every false value for an empty one.
EmptyFor(port) ==
  {"absent", "none"} \cup (IF port = "python" THEN {"null", "falsy"} ELSE {})

\* Rust and TypeScript read meta sorted, Python in the order of the object.
MetaOf(port, x) ==
  CASE x \in EmptyFor(port)                -> "none"
    [] x = "unsorted" /\ port # "python" -> "sorted"
    [] OTHER                             -> x

ReadBy(port, o) ==
  [m \in Members |->
     CASE m = "v"     -> VersionOf(port, o.v)
       [] m = "query" -> IF o.query \in EmptyFor(port) THEN "none" ELSE o.query
       [] m = "meta"  -> MetaOf(port, o.meta)
       [] m \in {"t", "body", "other"} -> o[m]
       [] OTHER -> StringOf(port, o[m])]

Truthy(x) == x \notin {"absent", "null", "empty"}

\* Whether a member a frame should not have counts as there: Rust asks
\* is_some, the others for a true value.
Given(port, x) == IF port = "rust" THEN x # "absent" ELSE Truthy(x)

\* Variant: TypeScript lets a data frame without a body through.
BodyThere_NotAsked(port, f) == f.t = "data" /\ port # "typescript" => f.body # "absent"

BodyThere(port, f) == f.t = "data" => f.body # "absent"

PathRooted(port, f) == f.path = "slash"

\* validate.  (An id or a path that is a number makes TypeScript or Python
\* raise another error than FrameError; the frame is not accepted either way.)
Valid(port, f) ==
  /\ f.v \in Supported(port)
  /\ f.id = "text"
  /\ f.t \in FrameTypes
  /\ IF f.t = "call"
     THEN Truthy(f.key) /\ Truthy(f.method) /\ PathRooted(port, f)
     ELSE /\ \A m \in {"key", "method", "path"} : ~Given(port, f[m])
          /\ f.query = "none"
  /\ BodyThere(port, f)
  /\ IF f.t = "error"
     THEN Truthy(f.code)
     ELSE ~Given(port, f.code) /\ ~Given(port, f.message)

\* decode accepts the object.
Accepts(port, o) ==
  LET f == ReadBy(port, o)
  IN /\ o.other = "absent"
     /\ f.query \in {"none", "pairs"}
     /\ f.meta \in {"none", "sorted", "unsorted"}
     /\ Valid(port, f)

-----------------------------------------------------------------------------
\* Variant: a null body is taken for no body.
Omitted_NullBody(f) ==
  (IF f.t = "call" THEN {} ELSE {"key", "method", "path", "query"})
  \cup (IF f.t = "error" THEN {} ELSE {"code", "message"})
  \cup {m \in {"query", "meta"} : f[m] = "none"}
  \cup {m \in {"body"} : f[m] \in {"null", "undefined"}}

\* The members encode leaves out: those the kind does not carry, empty
\* collections, and a body that JSON.stringify has no text for.
Omitted(f) ==
  (IF f.t = "call" THEN {} ELSE {"key", "method", "path", "query"})
  \cup (IF f.t = "error" THEN {} ELSE {"code", "message"})
  \cup {m \in {"query", "meta"} : f[m] = "none"}
  \cup {m \in {"body"} : f[m] = "undefined"}

\* encode.  Rust sorts the names of meta.  What the frame holds is written as
\* it is, a number in a member of strings too.
Encode(port, f) ==
  [m \in Members |->
     CASE m \in Omitted(f)                -> "absent"
       [] m = "meta" /\ m \notin Omitted(f) /\ port = "rust" -> "sorted"
       [] m = "body" /\ f.body = "nan"     -> "null"
       [] OTHER                           -> f[m]]

\* The frames the constructors make: call, data, end, error and cancel, with
\* the names of meta in any order.
Bare(kind, meta) ==
  [v |-> "1", id |-> "text", t |-> kind, key |-> "absent", method |-> "absent",
   path |-> "absent", query |-> "none", body |-> "absent", code |-> "absent",
   message |-> "absent", meta |-> meta, other |-> "absent"]

Metas == {"none", "sorted", "unsorted"}

CallFrame(meta, query, body) ==
  [Bare("call", meta) EXCEPT !.key = "text", !.method = "text", !.path = "slash",
                             !.query = query, !.body = body]
DataFrame(meta, body) == [Bare("data", meta) EXCEPT !.body = body]
ErrorFrame(meta, message, body) ==
  [Bare("error", meta) EXCEPT !.code = "text", !.message = message, !.body = body]

\* The bodies a frame can be given: TypeScript sets hasBody whatever the value
\* is.  (Python refuses to write a number that is none, Rust has no such value.)
Bodies(port) ==
  {"null", "text"} \cup (IF port = "typescript" THEN {"undefined", "nan"} ELSE {})

\* Python alone has a constructor of error frames with a body.
ErrorBodies(port) == {"absent"} \cup (IF port = "python" THEN Bodies(port) ELSE {})

Constructed(port) ==
  {CallFrame(meta, query, body) :
     meta \in Metas, query \in {"none", "pairs"}, body \in {"absent"} \cup Bodies(port)}
  \cup {DataFrame(meta, body) : meta \in Metas, body \in Bodies(port)}
  \cup {Bare(kind, meta) : kind \in {"end", "cancel"}, meta \in Metas}
  \cup {ErrorFrame(meta, message, body) :
           meta \in Metas, message \in {"absent", "empty", "text"}, body \in ErrorBodies(port)}

\* encode validates the frame before it writes it.
CodecInit ==
  /\ \E port \in Ports : \E f \in Constructed(port) :
       /\ Valid(port, f)
       /\ built = f
       /\ object = Encode(port, f)
       /\ by = port
  /\ altered = 0

\* A peer of another dialect wrote a member its own way: the frame is now none
\* that a port built.
Alter(m, x) ==
  /\ altered < MaxAltered
  /\ x # object[m]
  /\ object' = [object EXCEPT ![m] = x]
  /\ altered' = altered + 1
  /\ by' = "peer"
  /\ built' = Bare("unknown", "none")

\* A port that accepts the object passes on its encoding of it.
Relay(port) ==
  /\ Accepts(port, object)
  /\ object' = Encode(port, ReadBy(port, object))
  /\ by' = port
  /\ UNCHANGED <<built, altered>>

CodecNext ==
  \/ \E m \in Members : \E x \in Values[m] : Alter(m, x)
  \/ \E port \in Ports : Relay(port)

CodecSpec == CodecInit /\ [][CodecNext]_codecVars

-----------------------------------------------------------------------------
\* Two ports hold the same frame, the order of meta's names aside.
SameFrame(f, g) ==
  /\ \A m \in Members \ {"meta"} : f[m] = g[m]
  /\ (f.meta = "none") = (g.meta = "none")

AllRead(o) ==
  /\ \A port \in Ports : Accepts(port, o)
  /\ \A p, q \in Ports : SameFrame(ReadBy(p, o), ReadBy(q, o))

\* What can arrive of a frame: nothing of a body JSON has no text for, and null
\* for a number it has none for.
Arriving(f) ==
  [f EXCEPT !.body = CASE f.body = "undefined" -> "absent"
                       [] f.body = "nan"       -> "null"
                       [] OTHER                -> f.body]

\* TypeScript validates a data frame that has a body and writes one that has none.
LosesBody(f) == f.t = "data" /\ f.body = "undefined"

\* The frame a port built is the one every port reads, after any number of ports
\* passed it on: a null body stays a body, an absent one stays absent, and a body
\* that JSON cannot carry takes nothing else along.  A data frame that so lost its
\* body is refused everywhere, and never read as something else.  And a Rust port
\* in between makes a frame every port reads alike of whatever it accepted, its
\* own truncated version and dropped members included.
Interoperates ==
  /\ altered = 0 /\ ~LosesBody(built) =>
       AllRead(object) /\ \A port \in Ports : SameFrame(ReadBy(port, object), Arriving(built))
  /\ altered = 0 /\ LosesBody(built) => \A port \in Ports : ~Accepts(port, object)
  /\ by = "rust" => AllRead(object)

\* A member written irregularly: a version other than in digits of an integer
\* below 256, null or a false value for an absent member, another type than a
\* string, or an empty string where the kind has no such member.
Irregular(o) ==
  \/ o.v \in {"1.0", "true", "257"}
  \/ \E m \in {"key", "method", "path", "code", "message"} :
       o[m] \in {"null", "number"} \/ (o[m] = "empty" /\ m \in Omitted(o))
  \/ o.query \in {"null", "falsy"}
  \/ o.meta \in {"null", "falsy"}

\* On everything else the ports agree: all accept and read the same frame, or
\* none accepts.
RegularAgree ==
  ~Irregular(object) =>
    AllRead(object) \/ \A port \in Ports : ~Accepts(port, object)
=============================================================================
