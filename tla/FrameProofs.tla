----------------------------- MODULE FrameProofs -----------------------------
(***************************************************************************)
(* Proofs about frames: the envelope (FrameCodec) for any number of        *)
(* members that a foreign peer wrote its own way, and their way through a  *)
(* TCP stream (FrameStream) for prefixes and payloads of any length, any   *)
(* number of frames and every way to cut the stream into reads.            *)
(*                                                                         *)
(* The envelope: what is written regularly every port reads alike, and     *)
(* what a port of ours wrote of its own frames, or a Rust port of any, is  *)
(* regular and accepted.  Canonical says the last; it is kept when the     *)
(* object is passed on, where Interoperates alone is not: it does not say  *)
(* what the next port writes.  Carries says that the object still says     *)
(* what the frame that was built did.                                      *)
(***************************************************************************)
EXTENDS FrameCodec, FrameStream, Integers, FiniteSetTheorems, SequenceTheorems,
        WellFoundedInduction, TLAPS


Strings == {"key", "method", "path", "code", "message"}

IsObject(o) ==
  /\ DOMAIN o = Members
  /\ \A m \in Members : o[m] \in Values[m]

Canonical(o) == ~Irregular(o) /\ Accepts("rust", o)

LEMMA MembersAre ==
  Members = {"v", "id", "t", "key", "method", "path", "query", "body", "code",
             "message", "meta", "other"}
BY DEF Members, Values

\* What stands in the members of an object.
LEMMA ObjectFacts ==
  ASSUME NEW o, IsObject(o)
  PROVE  /\ o.v \in {"absent", "1", "1.0", "true", "257", "2"}
         /\ \A m \in Strings : o[m] \in Text
         /\ o.query \in {"absent", "null", "falsy", "none", "pairs", "badpair"}
         /\ o.body \in {"absent", "null", "text"}
         /\ o.meta \in {"absent", "null", "falsy", "none", "sorted", "unsorted", "nonstring"}
<1>1. \A m \in Members : o[m] \in Values[m]
  BY DEF IsObject
<1>2. Strings \cup {"v", "query", "body", "meta"} \subseteq Members
  BY MembersAre DEF Strings
<1>3. \A m \in Strings : Values[m] = Text
  BY DEF Strings, Values
<1>4. \A m \in Strings : o[m] \in Text
  BY <1>1, <1>2, <1>3
<1> QED
  BY <1>1, <1>2, <1>4 DEF Values

\* Read and Encode, member by member.
LEMMA ReadFacts ==
  ASSUME NEW port, NEW o
  PROVE  LET f == ReadBy(port, o)
         IN /\ DOMAIN f = Members
            /\ f.v = VersionOf(port, o.v)
            /\ f.id = StringOf(port, o.id)
            /\ f.t = o.t
            /\ \A m \in Strings : f[m] = StringOf(port, o[m])
            /\ f.query = IF o.query \in EmptyFor(port) THEN "none" ELSE o.query
            /\ f.body = o.body
            /\ f.meta = MetaOf(port, o.meta)
            /\ f.other = o.other
<1> DEFINE read(m) == CASE m = "v"     -> VersionOf(port, o.v)
                        [] m = "query" -> IF o.query \in EmptyFor(port) THEN "none" ELSE o.query
                        [] m = "meta"  -> MetaOf(port, o.meta)
                        [] m \in {"t", "body", "other"} -> o[m]
                        [] OTHER -> StringOf(port, o[m])
<1>1. ReadBy(port, o) = [m \in Members |-> read(m)]
  BY DEF ReadBy
<1>2. /\ read("v") = VersionOf(port, o.v)
      /\ read("id") = StringOf(port, o.id)
      /\ read("t") = o.t
      /\ \A m \in Strings : read(m) = StringOf(port, o[m])
  BY DEF Strings
<1>3. /\ read("query") = IF o.query \in EmptyFor(port) THEN "none" ELSE o.query
      /\ read("body") = o.body
      /\ read("meta") = MetaOf(port, o.meta)
      /\ read("other") = o.other
  OBVIOUS
<1> HIDE DEF read
<1>4. Strings \cup {"v", "id", "t", "query", "body", "meta", "other"} \subseteq Members
  BY MembersAre DEF Strings
<1>5. DOMAIN ReadBy(port, o) = Members /\ \A m \in Members : ReadBy(port, o)[m] = read(m)
  BY <1>1
<1> QED
  BY <1>2, <1>3, <1>4, <1>5

\* What encode makes of a body.
Written(body) ==
  CASE body = "undefined" -> "absent" [] body = "nan" -> "null" [] OTHER -> body

LEMMA EncodeFacts ==
  ASSUME NEW port, NEW f
  PROVE  LET e == Encode(port, f)
         IN /\ DOMAIN e = Members
            /\ e.v = f.v /\ e.id = f.id /\ e.t = f.t /\ e.other = f.other
            /\ e.body = Written(f.body)
            /\ \A m \in {"key", "method", "path"} :
                 e[m] = IF f.t = "call" THEN f[m] ELSE "absent"
            /\ \A m \in {"code", "message"} :
                 e[m] = IF f.t = "error" THEN f[m] ELSE "absent"
            /\ e.query = IF f.t = "call" /\ f.query # "none" THEN f.query ELSE "absent"
            /\ e.meta = IF f.meta = "none" THEN "absent"
                        ELSE IF port = "rust" THEN "sorted" ELSE f.meta
<1> DEFINE written(m) == CASE m \in Omitted(f) -> "absent"
                           [] m = "meta" /\ m \notin Omitted(f) /\ port = "rust" -> "sorted"
                           [] m = "body" /\ f.body = "nan" -> "null"
                           [] OTHER -> f[m]
<1>1. Encode(port, f) = [m \in Members |-> written(m)]
  BY DEF Encode
<1>2. /\ \A m \in {"v", "id", "t", "other"} : written(m) = f[m]
      /\ written("body") = Written(f.body)
  BY DEF Omitted, Written
<1>3. \A m \in {"key", "method", "path"} : written(m) = IF f.t = "call" THEN f[m] ELSE "absent"
  BY DEF Omitted
<1>4. \A m \in {"code", "message"} : written(m) = IF f.t = "error" THEN f[m] ELSE "absent"
  BY DEF Omitted
<1>5. written("query") = IF f.t = "call" /\ f.query # "none" THEN f.query ELSE "absent"
  BY DEF Omitted
<1>6. written("meta") = IF f.meta = "none" THEN "absent"
                        ELSE IF port = "rust" THEN "sorted" ELSE f.meta
  BY DEF Omitted
<1> HIDE DEF written
<1>7. DOMAIN Encode(port, f) = Members /\ \A m \in Members : Encode(port, f)[m] = written(m)
  BY <1>1
<1> QED
  BY <1>2, <1>3, <1>4, <1>5, <1>6, <1>7, MembersAre

-----------------------------------------------------------------------------
(***************************************************************************)
(* Reading what is regular.                                                *)
(***************************************************************************)

LEMMA RegularFacts ==
  ASSUME NEW o, IsObject(o), ~Irregular(o)
  PROVE  /\ o.v \in {"absent", "1", "2"}
         /\ \A m \in Strings : o[m] \in {"absent", "empty", "text", "slash"}
         /\ \A m \in {"key", "method", "path"} : o.t # "call" => o[m] # "empty"
         /\ \A m \in {"code", "message"} : o.t # "error" => o[m] # "empty"
         /\ o.query \in {"absent", "none", "pairs", "badpair"}
         /\ o.meta \in {"absent", "none", "sorted", "unsorted", "nonstring"}
<1>1. /\ o.v \notin {"1.0", "true", "257"}
      /\ \A m \in Strings : o[m] \notin {"null", "number"} /\ ~(o[m] = "empty" /\ m \in Omitted(o))
      /\ o.query \notin {"null", "falsy"}
      /\ o.meta \notin {"null", "falsy"}
  BY DEF Irregular, Strings
<1>2. /\ o.t # "call" => {"key", "method", "path"} \subseteq Omitted(o)
      /\ o.t # "error" => {"code", "message"} \subseteq Omitted(o)
  BY DEF Omitted
<1> QED
  BY <1>1, <1>2, ObjectFacts DEF Strings, Text

\* Whatever port reads it, the frame is this one.
LEMMA RegularRead ==
  ASSUME NEW o, IsObject(o), ~Irregular(o), NEW port \in Ports
  PROVE  LET f == ReadBy(port, o)
         IN /\ f.v = o.v /\ f.t = o.t /\ f.body = o.body /\ f.other = o.other
            /\ \A m \in Strings : f[m] = o[m]
            /\ f.id = "text" <=> o.id = "text"
            /\ f.query = IF o.query = "absent" THEN "none" ELSE o.query
            /\ f.meta = "none" <=> o.meta \in {"absent", "none"}
            /\ f.meta \in {"none", "sorted", "unsorted"} <=> o.meta # "nonstring"
<1>1. VersionOf(port, o.v) = o.v
  BY RegularFacts DEF VersionOf
<1>2. \A m \in Strings : StringOf(port, o[m]) = o[m]
  BY RegularFacts DEF StringOf
<1>3. StringOf(port, o.id) = "text" <=> o.id = "text"
  BY DEF StringOf
<1>4. o.query \in EmptyFor(port) <=> o.query \in {"absent", "none"}
  BY RegularFacts DEF EmptyFor
<1>5. /\ MetaOf(port, o.meta) = "none" <=> o.meta \in {"absent", "none"}
      /\ MetaOf(port, o.meta) \in {"none", "sorted", "unsorted"} <=> o.meta # "nonstring"
  BY RegularFacts DEF MetaOf, EmptyFor
<1> QED
  BY <1>1, <1>2, <1>3, <1>4, <1>5, ReadFacts

\* What makes any port accept a regular object.
Acceptable(o) ==
  /\ o.v = "1" /\ o.id = "text" /\ o.t \in FrameTypes /\ o.other = "absent"
  /\ o.query \in {"absent", "none", "pairs"} /\ o.meta # "nonstring"
  /\ IF o.t = "call"
     THEN o.key \notin {"absent", "empty"} /\ o.method \notin {"absent", "empty"} /\ o.path = "slash"
     ELSE /\ o.key = "absent" /\ o.method = "absent" /\ o.path = "absent"
          /\ o.query # "pairs"
  /\ o.t = "data" => o.body # "absent"
  /\ IF o.t = "error" THEN o.code \notin {"absent", "empty"}
     ELSE o.code = "absent" /\ o.message = "absent"

LEMMA RegularAccepted ==
  ASSUME NEW o, IsObject(o), ~Irregular(o), NEW port \in Ports
  PROVE  Accepts(port, o) <=> Acceptable(o)
<1> DEFINE f == ReadBy(port, o)
<1>1. f.v \in Supported(port) <=> o.v = "1"
  BY RegularRead, RegularFacts DEF Supported
<1>2. f.key = o.key /\ f.method = o.method /\ f.path = o.path /\ f.code = o.code /\ f.message = o.message
  BY RegularRead DEF Strings
<1>3. /\ {o.key, o.method, o.path, o.code, o.message} \subseteq {"absent", "empty", "text", "slash"}
      /\ o.t # "call" => o.key # "empty" /\ o.method # "empty" /\ o.path # "empty"
      /\ o.t # "error" => o.code # "empty" /\ o.message # "empty"
  BY RegularFacts DEF Strings
<1>4. /\ Truthy(f.key) <=> o.key \notin {"absent", "empty"}
      /\ Truthy(f.method) <=> o.method \notin {"absent", "empty"}
      /\ Truthy(f.code) <=> o.code \notin {"absent", "empty"}
  BY <1>2, <1>3 DEF Truthy
<1>5. /\ o.t # "call" => \A m \in {"key", "method", "path"} : Given(port, f[m]) <=> o[m] # "absent"
      /\ o.t # "error" => \A m \in {"code", "message"} : Given(port, f[m]) <=> o[m] # "absent"
  BY <1>2, <1>3 DEF Given, Truthy
<1>6. /\ f.query = "none" <=> o.query \in {"absent", "none"}
      /\ f.query \in {"none", "pairs"} <=> o.query \in {"absent", "none", "pairs"}
  BY RegularRead, RegularFacts
<1>7. /\ f.t = o.t /\ f.body = o.body /\ (f.id = "text" <=> o.id = "text")
      /\ f.meta \in {"none", "sorted", "unsorted"} <=> o.meta # "nonstring"
  BY RegularRead
<1> HIDE DEF f
<1>8. Valid(port, f) <=>
        /\ o.v = "1" /\ o.id = "text" /\ o.t \in FrameTypes
        /\ IF o.t = "call"
           THEN o.key \notin {"absent", "empty"} /\ o.method \notin {"absent", "empty"} /\ o.path = "slash"
           ELSE /\ o.key = "absent" /\ o.method = "absent" /\ o.path = "absent"
                /\ o.query \in {"absent", "none"}
        /\ o.t = "data" => o.body # "absent"
        /\ IF o.t = "error" THEN o.code \notin {"absent", "empty"}
           ELSE o.code = "absent" /\ o.message = "absent"
  BY <1>1, <1>2, <1>4, <1>5, <1>6, <1>7 DEF Valid, BodyThere, PathRooted
<1>9. Accepts(port, o) <=>
        /\ o.other = "absent"
        /\ f.query \in {"none", "pairs"}
        /\ f.meta \in {"none", "sorted", "unsorted"}
        /\ Valid(port, f)
  BY DEF Accepts, f
<1> QED
  BY <1>6, <1>7, <1>8, <1>9 DEF Acceptable

\* All ports accept a regular object and read the same frame, or none does.
LEMMA RegularAlike ==
  ASSUME NEW o, IsObject(o), ~Irregular(o)
  PROVE  AllRead(o) \/ \A port \in Ports : ~Accepts(port, o)
<1>1. CASE ~Acceptable(o)
  BY <1>1, RegularAccepted
<1>2. CASE Acceptable(o)
  <2>1. \A port \in Ports : Accepts(port, o)
    BY <1>2, RegularAccepted
  <2>2. ASSUME NEW p \in Ports, NEW q \in Ports
        PROVE  SameFrame(ReadBy(p, o), ReadBy(q, o))
    <3>1. ASSUME NEW m \in Members \ {"meta"}
          PROVE  ReadBy(p, o)[m] = ReadBy(q, o)[m]
      <4>1. m \in Strings \cup {"v", "id", "t", "query", "body", "other"}
        BY MembersAre DEF Strings
      <4>2. o.id = "text"
        BY <1>2 DEF Acceptable
      <4> QED
        BY <4>1, <4>2, RegularRead
    <3>2. (ReadBy(p, o).meta = "none") = (ReadBy(q, o).meta = "none")
      BY RegularRead
    <3> QED
      BY <3>1, <3>2 DEF SameFrame
  <2> QED
    BY <2>1, <2>2 DEF AllRead
<1> QED
  BY <1>1, <1>2

-----------------------------------------------------------------------------
(***************************************************************************)
(* Writing.  A Legible frame is one that our constructors make; it is Tidy *)
(* unless it loses its body.  So is one a port reads from a regular object *)
(* and one that Rust reads from any.                                       *)
(***************************************************************************)
Legible(f) ==
  /\ f.v = "1" /\ f.id = "text" /\ f.t \in FrameTypes /\ f.other = "absent"
  /\ \A m \in Strings : f[m] \in {"absent", "empty", "text", "slash"}
  /\ f.query \in {"none", "pairs"}
  /\ f.body \in {"absent", "null", "text", "nan", "undefined"}
  /\ f.meta \in Metas
  /\ f.t = "call" => /\ f.key \notin {"absent", "empty"} /\ f.method \notin {"absent", "empty"}
                     /\ f.path = "slash"
  /\ f.t = "error" => f.code \notin {"absent", "empty"}

Tidy(f) == Legible(f) /\ (f.t = "data" => Written(f.body) # "absent")

\* What any port writes of such a frame is regular, and accepted unless it is a
\* data frame without a body.
LEMMA LegibleWritten ==
  ASSUME NEW port \in Ports, NEW f, Legible(f)
  PROVE  /\ IsObject(Encode(port, f)) /\ ~Irregular(Encode(port, f))
         /\ Tidy(f) => Canonical(Encode(port, f))
<1> DEFINE e == Encode(port, f)
<1>1. /\ DOMAIN e = Members
      /\ e.v = "1" /\ e.id = "text" /\ e.t = f.t /\ e.other = "absent"
      /\ e.body = Written(f.body) /\ Written(f.body) \in {"absent", "null", "text"}
      /\ e.query = IF f.t = "call" /\ f.query # "none" THEN f.query ELSE "absent"
      /\ e.meta \in {"absent", "sorted", "unsorted"}
  BY EncodeFacts DEF Legible, Metas, Written
<1>2. /\ f.t = "call" => e.key = f.key /\ e.method = f.method /\ e.path = f.path
      /\ f.t # "call" => e.key = "absent" /\ e.method = "absent" /\ e.path = "absent"
      /\ f.t = "error" => e.code = f.code /\ e.message = f.message
      /\ f.t # "error" => e.code = "absent" /\ e.message = "absent"
  BY EncodeFacts
<1>3. {f.key, f.method, f.path, f.code, f.message} \subseteq {"absent", "empty", "text", "slash"}
  BY DEF Legible, Strings
<1> HIDE DEF e
<1>4. \A m \in Strings : e[m] \in {"absent", "empty", "text", "slash"}
  BY <1>2, <1>3 DEF Strings
<1>5. IsObject(e)
  <2>1. ASSUME NEW m \in Strings
        PROVE  e[m] \in Values[m]
    BY <1>4 DEF Values, Text, Strings
  <2>2. /\ e.v \in Values.v /\ e.id \in Values.id /\ e.t \in Values.t
        /\ e.query \in Values.query /\ e.body \in Values.body
        /\ e.meta \in Values.meta /\ e.other \in Values.other
    BY <1>1 DEF Values, Legible
  <2> QED
    BY <1>1, <2>1, <2>2, MembersAre DEF IsObject, Strings
<1>6. ~Irregular(e)
  <2>1. \A m \in Strings : e[m] = "empty" => m \notin Omitted(e)
    BY <1>1, <1>2 DEF Omitted, Strings
  <2> QED
    BY <1>1, <1>4, <2>1 DEF Irregular, Strings, Legible
<1>7. Tidy(f) => Acceptable(e)
  BY <1>1, <1>2 DEF Acceptable, Tidy, Legible
<1> QED
  BY <1>5, <1>6, <1>7, RegularAccepted DEF Canonical, Ports, e

\* What encode makes of a body it makes nothing else of.
LEMMA WrittenFacts ==
  ASSUME NEW b \in {"absent", "null", "text", "nan", "undefined"}
  PROVE  /\ Written(b) \in {"absent", "null", "text"}
         /\ b \in {"absent", "null", "text"} => Written(b) = b
         /\ Written(b) = "absent" <=> b \in {"absent", "undefined"}
BY DEF Written

\* A frame of a constructor has no member that its kind does not carry.
Neat(f) ==
  /\ DOMAIN f = Members
  /\ Legible(f)
  /\ f.t # "call" => f.key = "absent" /\ f.method = "absent" /\ f.path = "absent"
                      /\ f.query = "none"
  /\ f.t # "error" => f.code = "absent" /\ f.message = "absent"
  /\ f.t = "data" => f.body # "absent"

\* What the constructors make.
LEMMA ConstructedAreNeat ==
  ASSUME NEW port \in Ports, NEW f \in Constructed(port)
  PROVE  Neat(f)
<1> DEFINE bodies == {"absent", "null", "text", "nan", "undefined"}
<1>1. /\ Bodies(port) \subseteq bodies \ {"absent"} /\ ErrorBodies(port) \subseteq bodies
      /\ "absent" \in bodies
  BY DEF Bodies, ErrorBodies
<1>2. \A meta \in Metas, query \in {"none", "pairs"}, body \in bodies :
        Neat(CallFrame(meta, query, body))
  BY MembersAre DEF CallFrame, Neat, Legible, Bare, Strings, FrameTypes
<1>3. \A meta \in Metas, body \in bodies \ {"absent"} : Neat(DataFrame(meta, body))
  BY MembersAre DEF DataFrame, Neat, Legible, Bare, Strings, FrameTypes
<1>4. \A kind \in {"end", "cancel"}, meta \in Metas : Neat(Bare(kind, meta))
  BY MembersAre DEF Neat, Legible, Bare, Strings, FrameTypes
<1>5. \A meta \in Metas, message \in {"absent", "empty", "text"}, body \in bodies :
        Neat(ErrorFrame(meta, message, body))
  BY MembersAre DEF ErrorFrame, Neat, Legible, Bare, Strings, FrameTypes
<1> HIDE DEF bodies
<1>6. \/ \E meta \in Metas, query \in {"none", "pairs"}, body \in {"absent"} \cup Bodies(port) :
           f = CallFrame(meta, query, body)
      \/ \E meta \in Metas, body \in Bodies(port) : f = DataFrame(meta, body)
      \/ \E kind \in {"end", "cancel"}, meta \in Metas : f = Bare(kind, meta)
      \/ \E meta \in Metas, message \in {"absent", "empty", "text"}, body \in ErrorBodies(port) :
           f = ErrorFrame(meta, message, body)
  BY DEF Constructed
<1> QED
  BY <1>1, <1>2, <1>3, <1>4, <1>5, <1>6

LEMMA RegularReadIsTidy ==
  ASSUME NEW o, IsObject(o), ~Irregular(o), NEW port \in Ports, Accepts(port, o)
  PROVE  Tidy(ReadBy(port, o))
<1>1. Acceptable(o)
  BY RegularAccepted
<1>2. \A m \in Strings : ReadBy(port, o)[m] = o[m]
  BY RegularRead
<1>3. \A m \in Strings : o[m] \in {"absent", "empty", "text", "slash"}
  BY RegularFacts
<1>4. /\ ReadBy(port, o).key = o.key /\ ReadBy(port, o).method = o.method
      /\ ReadBy(port, o).path = o.path /\ ReadBy(port, o).code = o.code
  BY <1>2 DEF Strings
<1>5. ReadBy(port, o).body \in {"absent", "null", "text"}
  BY RegularRead, ObjectFacts
<1>6. ReadBy(port, o).query \in {"none", "pairs"} /\ ReadBy(port, o).meta \in Metas
  BY DEF Accepts, Metas
<1>7. Written(ReadBy(port, o).body) = o.body
  BY <1>5, WrittenFacts, RegularRead
<1> QED
  BY <1>1, <1>2, <1>3, <1>4, <1>5, <1>6, <1>7, RegularRead DEF Tidy, Legible, Acceptable

\* Whatever a peer wrote: what Rust holds has no member that is not a string
\* and no version that is not 1.
LEMMA RustReadIsTidy ==
  ASSUME NEW o, IsObject(o), Accepts("rust", o)
  PROVE  Tidy(ReadBy("rust", o))
<1> DEFINE f == ReadBy("rust", o)
<1>1. \A m \in Strings : f[m] \in {"absent", "empty", "text", "slash"}
  <2> SUFFICES ASSUME NEW m \in Strings PROVE f[m] \in {"absent", "empty", "text", "slash"}
    OBVIOUS
  <2>1. f[m] = StringOf("rust", o[m]) /\ o[m] \in Text
    BY ReadFacts, ObjectFacts
  <2> QED
    BY <2>1 DEF StringOf, Text
<1>2. f.body \in {"absent", "null", "text"} /\ f.other = "absent"
  BY ReadFacts, ObjectFacts DEF Accepts
<1>3. f.query \in {"none", "pairs"} /\ f.meta \in Metas /\ Valid("rust", f)
  BY DEF Accepts, Metas
<1> HIDE DEF f
<1>4. f.v = "1" /\ f.id = "text" /\ f.t \in FrameTypes
  BY <1>3 DEF Valid, Supported
<1>5. /\ f.t = "call" => /\ f.key \notin {"absent", "empty"} /\ f.method \notin {"absent", "empty"}
                         /\ f.path = "slash"
      /\ f.t = "data" => f.body # "absent"
      /\ f.t = "error" => f.code \notin {"absent", "empty"}
  BY <1>3 DEF Valid, Truthy, PathRooted, BodyThere
<1>6. Written(f.body) = f.body
  BY <1>2, WrittenFacts
<1> QED
  BY <1>1, <1>2, <1>3, <1>4, <1>5, <1>6 DEF Tidy, Legible, f

\* What any port writes of what it accepted is an object.
LEMMA RelayIsObject ==
  ASSUME NEW o, IsObject(o), NEW port \in Ports, Accepts(port, o)
  PROVE  IsObject(Encode(port, ReadBy(port, o)))
<1> DEFINE f == ReadBy(port, o)
           e == Encode(port, f)
<1>1. \A m \in Strings : f[m] \in Text
  <2> SUFFICES ASSUME NEW m \in Strings PROVE f[m] \in Text
    OBVIOUS
  <2>1. f[m] = StringOf(port, o[m]) /\ o[m] \in Text
    BY ReadFacts, ObjectFacts
  <2> QED
    BY <2>1 DEF StringOf, Text
<1>2. f.v = VersionOf(port, o.v) /\ f.t = o.t /\ f.body = o.body /\ f.other = o.other
  BY ReadFacts
<1>3. f.v \in Values.v
  BY <1>2, ObjectFacts DEF VersionOf, Values
<1>4. f.t \in Values.t /\ f.other \in Values.other
  BY <1>2, MembersAre DEF IsObject
<1>10. Written(f.body) \in Values.body
  BY <1>2, ObjectFacts, WrittenFacts DEF Values
<1>5. f.query \in {"none", "pairs"} /\ f.meta \in Metas /\ f.id = "text"
  BY DEF Accepts, Valid, Metas
<1> HIDE DEF f
<1>6. /\ DOMAIN e = Members
      /\ e.v = f.v /\ e.id = f.id /\ e.t = f.t /\ e.other = f.other
      /\ e.body = Written(f.body)
      /\ \A m \in Strings : e[m] \in {f[m], "absent"}
      /\ e.query \in {f.query, "absent"} /\ (e.query = f.query => f.query # "none")
      /\ e.meta \in {"absent", "sorted", "unsorted"}
  BY <1>5, EncodeFacts DEF Strings, Metas
<1> HIDE DEF e
<1>7. ASSUME NEW m \in Strings
      PROVE  e[m] \in Values[m]
  <2>1. e[m] \in Text
    BY <1>1, <1>6 DEF Text
  <2> QED
    BY <2>1 DEF Values, Strings
<1>8. e.id \in Values.id /\ e.query \in Values.query /\ e.meta \in Values.meta
  BY <1>5, <1>6 DEF Values
<1>9. IsObject(e)
  BY <1>3, <1>4, <1>10, <1>6, <1>7, <1>8, MembersAre DEF IsObject, Strings
<1> QED
  BY <1>9 DEF e, f

-----------------------------------------------------------------------------
(***************************************************************************)
(* The travelling object.                                                  *)
(***************************************************************************)

\* The object says what a frame that was built says.
Carries(o, f) ==
  /\ o.v = f.v /\ o.id = f.id /\ o.t = f.t /\ o.other = f.other
  /\ \A m \in Strings : o[m] = f[m]
  /\ o.query = IF f.query = "none" THEN "absent" ELSE f.query
  /\ o.body = Written(f.body)
  /\ IF f.meta = "none" THEN o.meta = "absent" ELSE o.meta \in {"sorted", "unsorted"}

\* What a port writes of a frame it built says what the frame says.
LEMMA BuiltCarries ==
  ASSUME NEW port \in Ports, NEW f, Neat(f)
  PROVE  Carries(Encode(port, f), f)
<1>1. \A m \in Strings : Encode(port, f)[m] = f[m]
  BY EncodeFacts DEF Neat, Strings
<1>2. f.t # "call" => f.query = "none"
  BY DEF Neat
<1>3. f.meta \in {"none", "sorted", "unsorted"}
  BY DEF Neat, Legible, Metas
<1> QED
  BY <1>1, <1>2, <1>3, EncodeFacts DEF Carries

\* And so does what a port writes of what it read of it.
LEMMA RelayCarries ==
  ASSUME NEW o, IsObject(o), ~Irregular(o), NEW port \in Ports, NEW f, Neat(f), Carries(o, f)
  PROVE  Carries(Encode(port, ReadBy(port, o)), f)
<1> DEFINE g == ReadBy(port, o)
<1>1. /\ g.v = f.v /\ g.id = f.id /\ g.t = f.t /\ g.other = f.other /\ g.body = Written(f.body)
      /\ \A m \in Strings : g[m] = f[m]
  BY RegularRead DEF Carries, Neat, Legible
<1>2. g.query = f.query
  BY RegularRead DEF Carries, Neat, Legible
<1>3. /\ g.meta = "none" <=> f.meta = "none"
      /\ g.meta \in {"none", "sorted", "unsorted"}
  BY RegularRead DEF Carries
<1> HIDE DEF g
<1>4. Written(g.body) = Written(f.body)
  BY <1>1, WrittenFacts DEF Neat, Legible
<1>5. \A m \in Strings : Encode(port, g)[m] = f[m]
  BY <1>1, EncodeFacts DEF Neat, Strings
<1>6. f.t # "call" => f.query = "none"
  BY DEF Neat
<1>7. Carries(Encode(port, g), f)
  BY <1>1, <1>2, <1>3, <1>4, <1>5, <1>6, EncodeFacts DEF Carries
<1> QED
  BY <1>7 DEF g

\* Every port reads off such an object what can arrive of the frame.
LEMMA CarriedIsRead ==
  ASSUME NEW o, IsObject(o), ~Irregular(o), NEW port \in Ports, NEW f, Neat(f), Carries(o, f)
  PROVE  SameFrame(ReadBy(port, o), Arriving(f))
<1> DEFINE g == ReadBy(port, o)
           a == Arriving(f)
<1>1. /\ \A m \in Members \ {"body"} : a[m] = f[m]
      /\ a.body = Written(f.body)
  BY MembersAre DEF Arriving, Neat, Written
<1>2. /\ g.v = f.v /\ g.id = f.id /\ g.t = f.t /\ g.other = f.other /\ g.body = Written(f.body)
      /\ \A m \in Strings : g[m] = f[m]
  BY RegularRead DEF Carries, Neat, Legible
<1>3. g.query = f.query
  BY RegularRead DEF Carries, Neat, Legible
<1>4. g.meta = "none" <=> f.meta = "none"
  BY RegularRead DEF Carries
<1> HIDE DEF g, a
<1>5. ASSUME NEW m \in Members \ {"meta"} PROVE g[m] = a[m]
  <2>1. m \in Strings \cup {"v", "id", "t", "query", "body", "other"}
    BY MembersAre DEF Strings
  <2> QED
    BY <1>1, <1>2, <1>3, <2>1
<1>6. (g.meta = "none") = (a.meta = "none")
  BY <1>1, <1>4, MembersAre
<1> QED
  BY <1>5, <1>6 DEF SameFrame, g, a

CodecInv ==
  /\ IsObject(object)
  /\ altered \in Nat
  /\ altered = 0 => /\ Neat(built)
                    /\ ~Irregular(object) /\ Carries(object, built)
                    /\ ~LosesBody(built) => Canonical(object)
  /\ by = "rust" => Canonical(object)

LEMMA CodecInvInit == CodecInit => CodecInv
<1> SUFFICES ASSUME CodecInit PROVE CodecInv
  OBVIOUS
<1>1. PICK port \in Ports : \E f \in Constructed(port) :
               built = f /\ object = Encode(port, f) /\ by = port
  BY DEF CodecInit
<1>2. built \in Constructed(port) /\ object = Encode(port, built) /\ by = port /\ altered = 0
  BY <1>1 DEF CodecInit
<1>3. Neat(built) /\ Legible(built)
  BY <1>2, ConstructedAreNeat DEF Neat
<1>4. IsObject(object) /\ ~Irregular(object) /\ Carries(object, built)
  BY <1>2, <1>3, LegibleWritten, BuiltCarries
<1>5. ~LosesBody(built) => Tidy(built)
  BY <1>3, WrittenFacts DEF LosesBody, Tidy, Neat, Legible
<1>6. ~LosesBody(built) => Canonical(object)
  BY <1>2, <1>3, <1>5, LegibleWritten
<1>7. port = "rust" => ~LosesBody(built)
  <2> SUFFICES ASSUME port = "rust", built.t = "data" PROVE built.body # "undefined"
    BY DEF LosesBody
  <2>1. Bodies(port) = {"null", "text"} /\ ErrorBodies(port) = {"absent"}
    BY DEF Bodies, ErrorBodies
  <2>2. \A meta, query, body : CallFrame(meta, query, body).t = "call"
    BY DEF CallFrame, Bare
  <2>3. \A meta, body : DataFrame(meta, body).body = body
    BY DEF DataFrame, Bare
  <2>4. \A kind, meta : Bare(kind, meta).body = "absent"
    BY DEF Bare
  <2>5. \A meta, message, body : ErrorFrame(meta, message, body).t = "error"
    BY DEF ErrorFrame, Bare
  <2> QED
    BY <1>2, <2>1, <2>2, <2>3, <2>4, <2>5 DEF Constructed
<1> QED
  BY <1>2, <1>3, <1>4, <1>6, <1>7 DEF CodecInv

LEMMA CodecInvStep == CodecInv /\ [CodecNext]_codecVars => CodecInv'
<1> SUFFICES ASSUME CodecInv, [CodecNext]_codecVars PROVE CodecInv'
  OBVIOUS
<1>1. ASSUME NEW m \in Members, NEW x \in Values[m], Alter(m, x)
      PROVE  CodecInv'
  <2>1. IsObject(object')
    BY <1>1 DEF Alter, CodecInv, IsObject
  <2>2. altered' \in Nat /\ altered' # 0 /\ by' # "rust"
    BY <1>1 DEF Alter, CodecInv
  <2> QED
    BY <2>1, <2>2 DEF CodecInv
<1>2. ASSUME NEW port \in Ports, Relay(port)
      PROVE  CodecInv'
  <2>1. /\ Accepts(port, object)
        /\ object' = Encode(port, ReadBy(port, object))
        /\ by' = port /\ altered' = altered /\ built' = built
    BY <1>2 DEF Relay
  <2>2. IsObject(object')
    BY <2>1, RelayIsObject DEF CodecInv
  <2>3. port = "rust" \/ altered = 0 => Canonical(object')
    <3> SUFFICES ASSUME port = "rust" \/ altered = 0 PROVE Canonical(object')
      OBVIOUS
    <3>1. Tidy(ReadBy(port, object))
      BY <2>1, RustReadIsTidy, RegularReadIsTidy DEF CodecInv
    <3> QED
      BY <2>1, <3>1, LegibleWritten DEF Tidy
  <2>4. altered = 0 => Neat(built) /\ Carries(object', built)
    BY <2>1, RelayCarries DEF CodecInv
  <2>5. altered = 0 => ~Irregular(object')
    BY <2>3 DEF Canonical
  <2>6. altered \in Nat
    BY DEF CodecInv
  <2> QED
    BY <2>1, <2>2, <2>3, <2>4, <2>5, <2>6 DEF CodecInv
<1>3. CASE UNCHANGED codecVars
  <2>1. object' = object /\ altered' = altered /\ by' = by /\ built' = built
    BY <1>3 DEF codecVars
  <2> QED
    BY <2>1 DEF CodecInv
<1> QED
  BY <1>1, <1>2, <1>3 DEF CodecNext

\* The frame a port built is the one all ports read, after any number of ports
\* passed it on, or else none reads it, since it is a data frame that lost its
\* body on the way out; and after a Rust port all read alike whatever a peer had
\* written (constructors, validate, encode and decode of the three ports).
THEOREM InteroperatesHolds == CodecSpec => []Interoperates
<1>1. CodecInv => Interoperates
  <2> SUFFICES ASSUME CodecInv PROVE Interoperates
    OBVIOUS
  <2>1. Canonical(object) => AllRead(object)
    BY RegularAlike DEF CodecInv, Canonical, Ports
  <2>2. ASSUME altered = 0, NEW port \in Ports
        PROVE  SameFrame(ReadBy(port, object), Arriving(built))
    BY <2>2, CarriedIsRead DEF CodecInv
  <2>3. ASSUME altered = 0, LosesBody(built), NEW port \in Ports
        PROVE  ~Accepts(port, object)
    <3>1. object.t = "data" /\ object.body = "absent"
      BY <2>3 DEF CodecInv, Carries, LosesBody, Written
    <3>2. ~Acceptable(object)
      BY <3>1 DEF Acceptable
    <3> QED
      BY <2>3, <3>2, RegularAccepted DEF CodecInv
  <2> QED
    BY <2>1, <2>2, <2>3 DEF CodecInv, Interoperates
<1> QED
  BY CodecInvInit, CodecInvStep, <1>1, PTL DEF CodecSpec

\* On an object written regularly the three ports agree, however many members
\* a peer wrote (decode and validate).
THEOREM RegularAgreeHolds == CodecSpec => []RegularAgree
<1>1. CodecInv => RegularAgree
  BY RegularAlike DEF CodecInv, RegularAgree
<1> QED
  BY CodecInvInit, CodecInvStep, <1>1, PTL DEF CodecSpec


-----------------------------------------------------------------------------
(***************************************************************************)
(* Induction, by the least number of a set: strict inclusion among finite  *)
(* sets is well-founded.                                                   *)
(***************************************************************************)
LEMMA LeastNumber ==
  ASSUME NEW S \in SUBSET Nat, S # {}
  PROVE  \E m \in S : \A k \in S : m <= k
<1> DEFINE below == {1 .. n : n \in S}
<1>1. \A n \in S : IsFiniteSet(1 .. n) /\ 1 .. n \subseteq Nat
  BY FS_Interval
<1>2. below \subseteq FiniteSubsetsOf(Nat)
  BY <1>1, Zenon DEF FiniteSubsetsOf
<1>3. below # {}
  OBVIOUS
<1> HIDE DEF below
<1>4. PICK b \in below : \A c \in below : <<c, b>> \notin StrictSubsetOrdering(Nat)
  BY <1>2, <1>3, FS_StrictSubsetOrderingWellFounded, WFMin
<1>5. PICK m \in S : b = 1 .. m
  BY DEF below
<1>6. ASSUME NEW k \in S, k < m PROVE FALSE
  <2> DEFINE c == 1 .. k
  <2>1. c \in below
    BY DEF below
  <2>2. c \subseteq b /\ c # b
    <3>1. m \in b /\ m \notin c
      BY <1>5, <1>6
    <3> QED BY <1>5, <1>6, <3>1
  <2>3. c \in SUBSET Nat /\ b \in SUBSET Nat
    BY <1>5
  <2> HIDE DEF c
  <2>4. <<c, b>> \in StrictSubsetOrdering(Nat)
    BY <2>2, <2>3 DEF StrictSubsetOrdering
  <2> QED BY <1>4, <2>1, <2>4
<1> QED BY <1>6

\* A set that holds 0 and with every number below n the next holds all to n.
LEMMA UpTo ==
  ASSUME NEW n \in Nat, NEW S, 0 \in S, \A k \in 1 .. n : k - 1 \in S => k \in S
  PROVE  0 .. n \subseteq S
<1> DEFINE missed == (0 .. n) \ S
<1>1. SUFFICES ASSUME missed # {} PROVE FALSE
  OBVIOUS
<1>2. PICK m \in missed : \A k \in missed : m <= k
  <2>1. missed \in SUBSET Nat
    OBVIOUS
  <2> HIDE DEF missed
  <2> QED BY <1>1, <2>1, LeastNumber
<1>3. m \in 1 .. n
  BY <1>2
<1>4. m - 1 \in 0 .. n /\ m - 1 \notin missed
  BY <1>2, <1>3
<1> QED BY <1>2, <1>3, <1>4

\* Values computed one after the other, each by a function of its number and
\* the one before, exist.
Follows(n, first, step, f) ==
  f = [k \in 0 .. n |-> IF k = 0 THEN first ELSE step[<<k, f[k - 1]>>]]

LEMMA SomeFollow ==
  ASSUME NEW n \in Nat, NEW first, NEW step
  PROVE  \E f : Follows(n, first, step, f)
<1> DEFINE S == {m \in 0 .. n : \E f : Follows(m, first, step, f)}
<1>1. 0 \in S
  <2>1. Follows(0, first, step, [k \in 0 .. 0 |-> first])
    BY DEF Follows
  <2> QED BY <2>1
<1>2. ASSUME NEW m \in 1 .. n, m - 1 \in S PROVE m \in S
  <2>1. PICK g : Follows(m - 1, first, step, g)
    BY <1>2
  <2> DEFINE f == [k \in 0 .. m |-> IF k = 0 THEN first ELSE step[<<k, g[k - 1]>>]]
  <2>2. ASSUME NEW k \in 0 .. m - 1 PROVE f[k] = g[k]
    <3>1. k \in 0 .. m
      BY <1>2
    <3> QED BY <2>1, <3>1 DEF Follows
  <2>3. ASSUME NEW k \in 0 .. m, k # 0 PROVE f[k - 1] = g[k - 1]
    <3>1. k - 1 \in 0 .. m - 1
      BY <1>2, <2>3
    <3> HIDE DEF f
    <3> QED BY <2>2, <3>1
  <2>4. Follows(m, first, step, f)
    BY <2>3 DEF Follows
  <2> QED BY <1>2, <2>4
<1> HIDE DEF S
<1>3. 0 .. n \subseteq S
  BY <1>1, <1>2, UpTo
<1>4. n \in S
  BY <1>3
<1> QED BY <1>4 DEF S

-----------------------------------------------------------------------------
(***************************************************************************)
(* What encode_tcp writes as the length, decode_stream reads.              *)
(***************************************************************************)
LEMMA DivMod ==
  ASSUME NEW number \in Nat
  PROVE  /\ number \div Base \in Nat
         /\ number % Base \in Bytes
         /\ number = (number \div Base) * Base + (number % Base)
BY StreamAssumption DEF Bytes

LEMMA ShiftedFacts ==
  ASSUME NEW length \in Nat
  PROVE  /\ Shifted(length)[0] = length
         /\ \A k \in 0 .. PrefixBytes : Shifted(length)[k] \in Nat
         /\ \A k \in 1 .. PrefixBytes : Shifted(length)[k] = Shifted(length)[k - 1] \div Base
<1> DEFINE body(h) == [k \in 0 .. PrefixBytes |-> IF k = 0 THEN length ELSE h[k - 1] \div Base]
           step == [x \in (0 .. PrefixBytes) \X Nat |-> x[2] \div Base]
<1>0. PrefixBytes \in Nat /\ \A x \in Nat : x \div Base \in Nat
  BY StreamAssumption, DivMod
<1>1. PICK f : Follows(PrefixBytes, length, step, f)
  BY <1>0, SomeFollow
<1> HIDE DEF step
<1>2. /\ f[0] = length
      /\ \A k \in 1 .. PrefixBytes : f[k] = step[<<k, f[k - 1]>>]
      /\ f = [k \in 0 .. PrefixBytes |-> f[k]]
  BY <1>0, <1>1 DEF Follows
<1>3. \A k \in 1 .. PrefixBytes, x \in Nat : step[<<k, x>>] = x \div Base
  BY DEF step
<1>4. \A k \in 0 .. PrefixBytes : f[k] \in Nat
  <2> DEFINE S == {k \in 0 .. PrefixBytes : f[k] \in Nat}
  <2>1. 0 \in S
    BY <1>0, <1>2
  <2>2. ASSUME NEW k \in 1 .. PrefixBytes, k - 1 \in S PROVE k \in S
    <3>1. f[k - 1] \in Nat /\ k \in 0 .. PrefixBytes
      BY <1>0, <2>2
    <3>2. f[k] = f[k - 1] \div Base
      BY <1>2, <1>3, <3>1
    <3> QED BY <1>0, <3>1, <3>2
  <2> HIDE DEF S
  <2>3. 0 .. PrefixBytes \subseteq S
    BY <1>0, <2>1, <2>2, UpTo
  <2> QED BY <2>3 DEF S
<1>5. \A k \in 1 .. PrefixBytes : f[k] = f[k - 1] \div Base
  <2> SUFFICES ASSUME NEW k \in 1 .. PrefixBytes PROVE f[k] = f[k - 1] \div Base
    OBVIOUS
  <2>1. f[k - 1] \in Nat
    BY <1>0, <1>4
  <2> QED BY <1>2, <1>3, <2>1
<1>6. f = body(f)
  <2>1. \A k \in 0 .. PrefixBytes : k # 0 => k \in 1 .. PrefixBytes
    BY <1>0
  <2>2. \A k \in 0 .. PrefixBytes : f[k] = IF k = 0 THEN length ELSE f[k - 1] \div Base
    BY <1>5, <1>2, <2>1
  <2> QED BY <1>2, <2>2
<1> HIDE DEF body
<1>7. Shifted(length) = CHOOSE h : h = body(h)
  BY DEF Shifted, body
<1>8. Shifted(length) = body(Shifted(length))
  BY <1>6, <1>7
<1>9. /\ Shifted(length)[0] = length
      /\ \A k \in 1 .. PrefixBytes : Shifted(length)[k] = Shifted(length)[k - 1] \div Base
  <2> DEFINE h == Shifted(length)
  <2>1. h = [k \in 0 .. PrefixBytes |-> IF k = 0 THEN length ELSE h[k - 1] \div Base]
    BY <1>8 DEF body
  <2> HIDE DEF h
  <2>2. \A k \in 0 .. PrefixBytes : h[k] = IF k = 0 THEN length ELSE h[k - 1] \div Base
    BY <2>1
  <2>3. 0 \in 0 .. PrefixBytes /\ \A k \in 1 .. PrefixBytes : k \in 0 .. PrefixBytes /\ k # 0
    BY <1>0
  <2>4. h[0] = length /\ \A k \in 1 .. PrefixBytes : h[k] = h[k - 1] \div Base
    BY <2>2, <2>3
  <2> QED BY <2>4 DEF h
<1>10. \A k \in 0 .. PrefixBytes : Shifted(length)[k] \in Nat
  <2> DEFINE S == {k \in 0 .. PrefixBytes : Shifted(length)[k] \in Nat}
  <2>1. 0 \in S
    BY <1>0, <1>9
  <2>2. \A k \in 1 .. PrefixBytes : k - 1 \in S => k \in S
    BY <1>0, <1>9
  <2> HIDE DEF S
  <2>3. 0 .. PrefixBytes \subseteq S
    BY <1>0, <2>1, <2>2, UpTo
  <2> QED BY <2>3 DEF S
<1> QED BY <1>9, <1>10

LEMMA PrefixFacts ==
  ASSUME NEW length \in Nat
  PROVE  Prefix(length) \in Seq(Bytes) /\ Len(Prefix(length)) = PrefixBytes
<1>1. \A k \in 1 .. PrefixBytes : Shifted(length)[PrefixBytes - k] % Base \in Bytes
  <2> SUFFICES ASSUME NEW k \in 1 .. PrefixBytes
               PROVE  Shifted(length)[PrefixBytes - k] % Base \in Bytes
    OBVIOUS
  <2>1. PrefixBytes - k \in 0 .. PrefixBytes
    BY StreamAssumption
  <2>2. Shifted(length)[PrefixBytes - k] \in Nat
    BY <2>1, ShiftedFacts
  <2> QED BY <2>2, DivMod
<1> QED BY <1>1, StreamAssumption DEF Prefix

\* Horner's rule, as far as any digit.
HornerRun(buffer, offset, value) ==
  value = [k \in 0 .. PrefixBytes |->
             IF k = 0 THEN 0 ELSE value[k - 1] * Base + buffer[offset + k]]

LEMMA DeclaredIsHorner ==
  ASSUME NEW buffer, NEW offset, NEW value, HornerRun(buffer, offset, value)
  PROVE  \E f : HornerRun(buffer, offset, f) /\ DeclaredLength(buffer, offset) = f[PrefixBytes]
<1> DEFINE body(h) == [k \in 0 .. PrefixBytes |->
                         IF k = 0 THEN 0 ELSE h[k - 1] * Base + buffer[offset + k]]
           f == CHOOSE h : h = body(h)
<1>1. DeclaredLength(buffer, offset) = f[PrefixBytes]
  BY DEF DeclaredLength
<1>2. value = body(value)
  BY DEF HornerRun
<1> HIDE DEF body
<1>3. f = body(f)
  BY <1>2
<1> QED BY <1>1, <1>3 DEF body, HornerRun

\* The bytes of a prefix that stand at an offset are read as the length.
LEMMA PrefixIsRead ==
  ASSUME NEW length \in Nat, Shifted(length)[PrefixBytes] = 0, NEW buffer, NEW offset,
         \A k \in 1 .. PrefixBytes : buffer[offset + k] = Prefix(length)[k]
  PROVE  DeclaredLength(buffer, offset) = length
<1> DEFINE value == [k \in 0 .. PrefixBytes |-> Shifted(length)[PrefixBytes - k]]
<1>0. PrefixBytes \in Nat \ {0}
  BY StreamAssumption
<1>1. ASSUME NEW k \in 1 .. PrefixBytes
      PROVE  Shifted(length)[PrefixBytes - k]
               = Shifted(length)[PrefixBytes - (k - 1)] * Base + buffer[offset + k]
  <2> DEFINE high == Shifted(length)[PrefixBytes - k]
  <2>1. PrefixBytes - k \in 0 .. PrefixBytes /\ PrefixBytes - k + 1 \in 1 .. PrefixBytes
    BY <1>0
  <2>2. high \in Nat
    BY <2>1, ShiftedFacts
  <2>3. Shifted(length)[PrefixBytes - k + 1] = high \div Base
    <3>1. (PrefixBytes - k + 1) - 1 = PrefixBytes - k
      BY <1>0
    <3> QED BY <2>1, <3>1, ShiftedFacts
  <2>4. PrefixBytes - (k - 1) = PrefixBytes - k + 1
    BY <1>0
  <2>5. buffer[offset + k] = high % Base
    BY DEF Prefix
  <2> HIDE DEF high
  <2>6. high = (high \div Base) * Base + (high % Base)
    BY <2>2, DivMod
  <2> QED BY <2>3, <2>4, <2>5, <2>6 DEF high
<1>2. HornerRun(buffer, offset, value)
  <2>1. value[0] = 0
    BY <1>0
  <2>2. ASSUME NEW k \in 1 .. PrefixBytes
        PROVE  value[k] = value[k - 1] * Base + buffer[offset + k]
    <3>1. k - 1 \in 0 .. PrefixBytes /\ k \in 0 .. PrefixBytes
      BY <1>0
    <3>2. value[k - 1] = Shifted(length)[PrefixBytes - (k - 1)]
      BY <3>1
    <3>3. value[k] = Shifted(length)[PrefixBytes - k]
      BY <3>1
    <3> QED BY <1>1, <3>2, <3>3
  <2>3. DOMAIN value = 0 .. PrefixBytes /\ value = [k \in 0 .. PrefixBytes |-> value[k]]
    OBVIOUS
  <2> HIDE DEF value
  <2>4. \A k \in 0 .. PrefixBytes :
          value[k] = IF k = 0 THEN 0 ELSE value[k - 1] * Base + buffer[offset + k]
    BY <1>0, <2>1, <2>2
  <2> QED BY <2>3, <2>4 DEF HornerRun
<1>3. PICK f : HornerRun(buffer, offset, f) /\ DeclaredLength(buffer, offset) = f[PrefixBytes]
  BY <1>2, DeclaredIsHorner
<1>4. \A k \in 0 .. PrefixBytes : f[k] = value[k]
  <2> DEFINE S == {k \in 0 .. PrefixBytes : f[k] = value[k]}
  <2>1. 0 \in S
    <3>1. f[0] = 0 /\ value[0] = 0 /\ 0 \in 0 .. PrefixBytes
      BY <1>0, <1>2, <1>3 DEF HornerRun
    <3> QED BY <3>1
  <2>2. ASSUME NEW k \in 1 .. PrefixBytes, k - 1 \in S PROVE k \in S
    <3>1. k \in 0 .. PrefixBytes /\ k # 0 /\ f[k - 1] = value[k - 1]
      BY <1>0, <2>2
    <3>2. f[k] = f[k - 1] * Base + buffer[offset + k]
      BY <1>3, <3>1 DEF HornerRun
    <3>3. value[k] = value[k - 1] * Base + buffer[offset + k]
      BY <1>2, <3>1 DEF HornerRun
    <3> QED BY <3>1, <3>2, <3>3
  <2> HIDE DEF S
  <2>3. 0 .. PrefixBytes \subseteq S
    BY <1>0, <2>1, <2>2, UpTo
  <2> QED BY <2>3 DEF S
<1>5. value[PrefixBytes] = Shifted(length)[0]
  BY <1>0
<1> QED BY <1>0, <1>3, <1>4, <1>5, ShiftedFacts

-----------------------------------------------------------------------------
(***************************************************************************)
(* The stream of what was sent.                                            *)
(***************************************************************************)
LEMMA WireFacts ==
  ASSUME NEW p \in Payloads
  PROVE  /\ Len(p) \in Nat
         /\ p \in Seq(Bytes)
         /\ Wire(p) \in Seq(Bytes)
         /\ Len(Wire(p)) = PrefixBytes + Len(p)
         /\ \A i \in 1 .. PrefixBytes : Wire(p)[i] = Prefix(Len(p))[i]
         /\ \A i \in 1 .. Len(p) : Wire(p)[PrefixBytes + i] = p[i]
<1>1. p \in Seq(Bytes) /\ Len(p) \in Nat /\ PrefixBytes \in Nat
  BY StreamAssumption
<1>2. Prefix(Len(p)) \in Seq(Bytes) /\ Len(Prefix(Len(p))) = PrefixBytes
  BY <1>1, PrefixFacts
<1>3. /\ Wire(p) \in Seq(Bytes)
      /\ Len(Wire(p)) = PrefixBytes + Len(p)
      /\ \A i \in 1 .. PrefixBytes + Len(p) :
           Wire(p)[i] = IF i <= PrefixBytes THEN Prefix(Len(p))[i] ELSE p[i - PrefixBytes]
  BY <1>1, <1>2, ConcatProperties DEF Wire
<1>4. ASSUME NEW i \in 1 .. Len(p)
      PROVE  Wire(p)[PrefixBytes + i] = p[i]
  <2>1. PrefixBytes + i \in 1 .. PrefixBytes + Len(p) /\ ~(PrefixBytes + i <= PrefixBytes)
        /\ (PrefixBytes + i) - PrefixBytes = i
    BY <1>1
  <2> QED BY <1>3, <2>1
<1>5. ASSUME NEW i \in 1 .. PrefixBytes
      PROVE  Wire(p)[i] = Prefix(Len(p))[i]
  <2>1. i \in 1 .. PrefixBytes + Len(p) /\ i <= PrefixBytes
    BY <1>1
  <2> QED BY <1>3, <2>1
<1> QED BY <1>1, <1>3, <1>4, <1>5

StreamRun(payloads, f) ==
  /\ f = [k \in 0 .. Len(payloads) |-> f[k]]
  /\ f[0] = <<>>
  /\ \A k \in 1 .. Len(payloads) : f[k] = f[k - 1] \o Wire(payloads[k])
  /\ \A k \in 0 .. Len(payloads) : f[k] \in Seq(Bytes)

LEMMA StreamIsRun ==
  ASSUME NEW payloads \in Seq(Payloads)
  PROVE  \E f : StreamRun(payloads, f) /\ Stream(payloads) = f[Len(payloads)]
<1> DEFINE n == Len(payloads)
           body(h) == [k \in 0 .. n |-> IF k = 0 THEN <<>> ELSE h[k - 1] \o Wire(payloads[k])]
           step == [x \in (0 .. n) \X Seq(Bytes) |-> x[2] \o Wire(payloads[x[1]])]
<1>0. n \in Nat /\ \A k \in 1 .. n : payloads[k] \in Payloads
  OBVIOUS
<1>1. ASSUME NEW k \in 1 .. n, NEW x \in Seq(Bytes)
      PROVE  /\ x \o Wire(payloads[k]) \in Seq(Bytes)
             /\ step[<<k, x>>] = x \o Wire(payloads[k])
  <2>1. Wire(payloads[k]) \in Seq(Bytes)
    BY <1>0, WireFacts
  <2>2. k \in 0 .. n
    BY <1>0
  <2>3. step[<<k, x>>] = x \o Wire(payloads[k])
    BY <2>2
  <2> QED BY <2>1, <2>3, ConcatProperties
<1> HIDE DEF step
<1>2. PICK f : Follows(n, <<>>, step, f)
  BY <1>0, SomeFollow
<1>3. /\ f[0] = <<>>
      /\ \A k \in 1 .. n : f[k] = step[<<k, f[k - 1]>>]
      /\ f = [k \in 0 .. n |-> f[k]]
  BY <1>0, <1>2 DEF Follows
<1>4. \A k \in 0 .. n : f[k] \in Seq(Bytes)
  <2> DEFINE S == {k \in 0 .. n : f[k] \in Seq(Bytes)}
  <2>1. 0 \in S
    <3>1. 0 \in 0 .. n /\ <<>> \in Seq(Bytes)
      BY <1>0
    <3> QED BY <1>3, <3>1
  <2>2. ASSUME NEW k \in 1 .. n, k - 1 \in S PROVE k \in S
    <3>1. f[k - 1] \in Seq(Bytes) /\ k \in 0 .. n
      BY <1>0, <2>2
    <3>2. f[k] = f[k - 1] \o Wire(payloads[k])
      BY <1>1, <1>3, <3>1
    <3> QED BY <1>1, <3>1, <3>2
  <2> HIDE DEF S
  <2>3. 0 .. n \subseteq S
    BY <1>0, <2>1, <2>2, UpTo
  <2> QED BY <2>3 DEF S
<1>5. \A k \in 1 .. n : f[k] = f[k - 1] \o Wire(payloads[k])
  <2> SUFFICES ASSUME NEW k \in 1 .. n PROVE f[k] = f[k - 1] \o Wire(payloads[k])
    OBVIOUS
  <2>1. f[k - 1] \in Seq(Bytes)
    BY <1>0, <1>4
  <2> QED BY <1>1, <1>3, <2>1
<1>6. f = body(f)
  <2>1. \A k \in 0 .. n : k # 0 => k \in 1 .. n
    BY <1>0
  <2>2. \A k \in 0 .. n : f[k] = IF k = 0 THEN <<>> ELSE f[k - 1] \o Wire(payloads[k])
    BY <1>3, <1>5, <2>1
  <2> QED BY <1>3, <2>2
<1> DEFINE g == CHOOSE h : h = body(h)
<1>7. Stream(payloads) = g[n]
  BY DEF Stream
<1> HIDE DEF body
<1>8. g = body(g)
  BY <1>6
<1> HIDE DEF g
<1>9. /\ g = [k \in 0 .. n |-> g[k]] /\ g[0] = <<>>
      /\ \A k \in 1 .. n : g[k] = g[k - 1] \o Wire(payloads[k])
  BY <1>0, <1>8 DEF body
<1>10. \A k \in 0 .. n : g[k] = f[k]
  <2> DEFINE S == {k \in 0 .. n : g[k] = f[k]}
  <2>1. 0 \in S
    <3>1. 0 \in 0 .. n
      BY <1>0
    <3>2. g[0] = f[0]
      BY <1>3, <1>9
    <3> QED BY <3>1, <3>2
  <2>2. ASSUME NEW k \in 1 .. n, k - 1 \in S PROVE k \in S
    <3>1. g[k - 1] = f[k - 1] /\ k \in 0 .. n
      BY <1>0, <2>2
    <3> QED BY <1>5, <1>9, <3>1
  <2> HIDE DEF S
  <2>3. 0 .. n \subseteq S
    BY <1>0, <2>1, <2>2, UpTo
  <2> QED BY <2>3 DEF S
<1>11. n \in 0 .. n
  BY <1>0
<1>12. StreamRun(payloads, f)
  BY <1>3, <1>4, <1>5 DEF StreamRun
<1> QED BY <1>7, <1>10, <1>11, <1>12

\* Runs over sequences that agree on their first places agree there.
LEMMA RunsAgree ==
  ASSUME NEW ps \in Seq(Payloads), NEW qs \in Seq(Payloads), Len(ps) <= Len(qs),
         \A k \in 1 .. Len(ps) : ps[k] = qs[k],
         NEW f, StreamRun(ps, f), NEW g, StreamRun(qs, g)
  PROVE  \A k \in 0 .. Len(ps) : f[k] = g[k]
<1> DEFINE S == {k \in 0 .. Len(ps) : f[k] = g[k]}
<1>0. Len(ps) \in Nat /\ Len(qs) \in Nat
  OBVIOUS
<1>1. 0 \in S
  BY <1>0 DEF StreamRun
<1>2. ASSUME NEW k \in 1 .. Len(ps), k - 1 \in S PROVE k \in S
  <2>1. f[k - 1] = g[k - 1] /\ k \in 0 .. Len(ps) /\ k \in 1 .. Len(qs)
    BY <1>0, <1>2
  <2> QED BY <2>1 DEF StreamRun
<1> HIDE DEF S
<1>3. 0 .. Len(ps) \subseteq S
  BY <1>0, <1>1, <1>2, UpTo
<1> QED BY <1>3 DEF S

LEMMA StreamEmpty == Stream(<<>>) = <<>>
<1>1. <<>> \in Seq(Payloads) /\ Len(<<>>) = 0
  OBVIOUS
<1> QED BY <1>1, StreamIsRun DEF StreamRun

LEMMA StreamBytes ==
  ASSUME NEW ps \in Seq(Payloads)
  PROVE  Stream(ps) \in Seq(Bytes)
<1>1. Len(ps) \in 0 .. Len(ps)
  OBVIOUS
<1> QED BY <1>1, StreamIsRun DEF StreamRun

LEMMA StreamAppend ==
  ASSUME NEW ps \in Seq(Payloads), NEW p \in Payloads
  PROVE  Stream(Append(ps, p)) = Stream(ps) \o Wire(p)
<1> DEFINE qs == Append(ps, p)
           n == Len(ps)
<1>1. /\ qs \in Seq(Payloads) /\ n \in Nat /\ Len(qs) = n + 1 /\ qs[n + 1] = p
      /\ \A k \in 1 .. n : ps[k] = qs[k]
  OBVIOUS
<1> HIDE DEF qs
<1>2. PICK f : StreamRun(ps, f) /\ Stream(ps) = f[n]
  BY StreamIsRun
<1>3. PICK g : StreamRun(qs, g) /\ Stream(qs) = g[n + 1]
  BY <1>1, StreamIsRun
<1>4. f[n] = g[n]
  BY <1>1, <1>2, <1>3, RunsAgree
<1>5. g[n + 1] = g[n] \o Wire(p)
  <2>1. n + 1 \in 1 .. Len(qs) /\ (n + 1) - 1 = n
    BY <1>1
  <2> QED BY <1>1, <1>3, <2>1 DEF StreamRun
<1> QED BY <1>2, <1>3, <1>4, <1>5 DEF qs

\* The stream of two parts is that of the first with that of the second.
LEMMA StreamSplit ==
  ASSUME NEW ps \in Seq(Payloads), NEW qs \in Seq(Payloads)
  PROVE  Stream(ps \o qs) = Stream(ps) \o Stream(qs)
<1> DEFINE n == Len(qs)
           part(k) == SubSeq(qs, 1, k)
           S == {k \in 0 .. n : Stream(ps \o part(k)) = Stream(ps) \o Stream(part(k))}
<1>0. n \in Nat
  OBVIOUS
<1>1. part(0) = <<>> /\ part(n) = qs
  BY SubSeqEmpty, SubSeqFull
<1>2. \A k \in 0 .. n : part(k) \in Seq(Payloads)
  BY <1>0, SubSeqProperties
<1>3. 0 \in S
  <2>1. Stream(ps) \o <<>> = Stream(ps) /\ ps \o <<>> = ps
    BY ConcatEmptySeq, StreamBytes
  <2>2. 0 \in 0 .. n
    BY <1>0
  <2> QED BY <1>1, <2>1, <2>2, StreamEmpty
<1>4. ASSUME NEW k \in 1 .. n, k - 1 \in S PROVE k \in S
  <2>1. k \in 0 .. n /\ k - 1 \in 0 .. n /\ qs[k] \in Payloads
        /\ Stream(ps \o part(k - 1)) = Stream(ps) \o Stream(part(k - 1))
    BY <1>0, <1>4
  <2>2. part(k) = Append(part(k - 1), qs[k])
    <3>1. part(k) = part(k - 1) \o <<qs[k]>>
      BY <1>0, SubSeqRecursiveSecond
    <3> QED BY <1>2, <2>1, <3>1, AppendIsConcat
  <2> DEFINE a == part(k - 1)
             p == qs[k]
  <2>3. a \in Seq(Payloads) /\ p \in Payloads /\ part(k) = Append(a, p)
    BY <1>2, <2>1, <2>2
  <2>4. Stream(ps \o a) = Stream(ps) \o Stream(a)
    BY <2>1
  <2> HIDE DEF a, p, part
  <2>5. ps \o Append(a, p) = Append(ps \o a, p)
    <3>1. <<p>> \in Seq(Payloads)
      BY <2>3
    <3>2. ps \o (a \o <<p>>) = (ps \o a) \o <<p>>
      BY <2>3, <3>1, ConcatAssociative
    <3>3. ps \o a \in Seq(Payloads)
      BY <2>3, ConcatProperties
    <3> QED BY <2>3, <3>2, <3>3, AppendIsConcat
  <2>6. Stream(ps \o Append(a, p)) = (Stream(ps) \o Stream(a)) \o Wire(p)
    <3>1. ps \o a \in Seq(Payloads)
      BY <2>3, ConcatProperties
    <3> QED BY <2>3, <2>4, <2>5, <3>1, StreamAppend
  <2>7. (Stream(ps) \o Stream(a)) \o Wire(p) = Stream(ps) \o (Stream(a) \o Wire(p))
    <3>1. Stream(ps) \in Seq(Bytes) /\ Stream(a) \in Seq(Bytes) /\ Wire(p) \in Seq(Bytes)
      BY <2>3, StreamBytes, WireFacts
    <3> QED BY <3>1, ConcatAssociative
  <2>8. Stream(Append(a, p)) = Stream(a) \o Wire(p)
    BY <2>3, StreamAppend
  <2> QED BY <2>1, <2>3, <2>6, <2>7, <2>8
<1> HIDE DEF S
<1>5. 0 .. n \subseteq S
  BY <1>0, <1>3, <1>4, UpTo
<1>6. n \in S
  BY <1>0, <1>5
<1> QED BY <1>1, <1>6 DEF S

\* Where the frame after the first k begins.
Pos(ps, k) == Len(Stream(SubSeq(ps, 1, k)))

LEMMA PosFacts ==
  ASSUME NEW ps \in Seq(Payloads)
  PROVE  /\ Pos(ps, 0) = 0
         /\ Pos(ps, Len(ps)) = Len(Stream(ps))
         /\ \A k \in 0 .. Len(ps) : Pos(ps, k) \in Nat
         /\ \A k \in 1 .. Len(ps) :
              /\ Pos(ps, k) = Pos(ps, k - 1) + PrefixBytes + Len(ps[k])
              /\ \A i \in 1 .. PrefixBytes + Len(ps[k]) :
                   Stream(ps)[Pos(ps, k - 1) + i] = Wire(ps[k])[i]
<1> DEFINE n == Len(ps)
           part(k) == SubSeq(ps, 1, k)
<1>0. n \in Nat
  OBVIOUS
<1>1. part(0) = <<>> /\ part(n) = ps
  BY SubSeqEmpty, SubSeqFull
<1>2. \A k \in 0 .. n : part(k) \in Seq(Payloads)
  BY <1>0, SubSeqProperties
<1>3. \A k \in 0 .. n : Stream(part(k)) \in Seq(Bytes) /\ Len(Stream(part(k))) \in Nat
  <2> SUFFICES ASSUME NEW k \in 0 .. n
               PROVE  Stream(part(k)) \in Seq(Bytes) /\ Len(Stream(part(k))) \in Nat
    OBVIOUS
  <2>1. Stream(part(k)) \in Seq(Bytes)
    BY <1>2, StreamBytes
  <2> QED BY <2>1
<1>4. ASSUME NEW k \in 1 .. n
      PROVE  /\ Pos(ps, k) = Pos(ps, k - 1) + PrefixBytes + Len(ps[k])
             /\ \A i \in 1 .. PrefixBytes + Len(ps[k]) :
                  Stream(ps)[Pos(ps, k - 1) + i] = Wire(ps[k])[i]
  <2> DEFINE p == ps[k]
             before == Stream(part(k - 1))
             after == Stream(SubSeq(ps, k + 1, n))
  <2>1. k \in 0 .. n /\ k - 1 \in 0 .. n /\ p \in Payloads
    BY <1>0
  <2>2. part(k) = Append(part(k - 1), p)
    <3>1. part(k) = part(k - 1) \o <<p>>
      BY <1>0, SubSeqRecursiveSecond
    <3> QED BY <1>2, <2>1, <3>1, AppendIsConcat
  <2>3. Stream(part(k)) = before \o Wire(p)
    BY <1>2, <2>1, <2>2, StreamAppend
  <2>4. Stream(ps) = Stream(part(k)) \o after
    <3>1. SubSeq(ps, k + 1, n) \in Seq(Payloads)
      BY <1>0, SubSeqProperties
    <3>2. part(k) \o SubSeq(ps, k + 1, n) = ps
      <4>1. 1 \in 1 .. Len(ps) + 1 /\ k \in 1 - 1 .. Len(ps) /\ n \in k .. Len(ps)
        BY <1>0
      <4>2. SubSeq(ps, 1, k) \o SubSeq(ps, k + 1, n) = SubSeq(ps, 1, n)
        BY <4>1, ConcatAdjacentSubSeq
      <4> QED BY <1>1, <4>2
    <3> QED BY <1>2, <2>1, <3>1, <3>2, StreamSplit
  <2>5. before \in Seq(Bytes) /\ after \in Seq(Bytes) /\ Wire(p) \in Seq(Bytes)
    <3>1. SubSeq(ps, k + 1, n) \in Seq(Payloads)
      BY <1>0, SubSeqProperties
    <3> QED BY <1>3, <2>1, <3>1, StreamBytes, WireFacts
  <2>6. Len(Wire(p)) = PrefixBytes + Len(p) /\ Len(p) \in Nat /\ PrefixBytes \in Nat
    BY <2>1, WireFacts, StreamAssumption
  <2>7. Pos(ps, k - 1) = Len(before) /\ Pos(ps, k) = Len(before \o Wire(p))
        /\ Stream(ps) = (before \o Wire(p)) \o after
    BY <2>3, <2>4 DEF Pos
  <2> HIDE DEF p, before, after, part
  <2>8. Len(before \o Wire(p)) = Len(before) + PrefixBytes + Len(p)
    BY <2>5, <2>6
  <2>9. ASSUME NEW i \in 1 .. PrefixBytes + Len(p)
        PROVE  ((before \o Wire(p)) \o after)[Len(before) + i] = Wire(p)[i]
    BY <2>5, <2>6
  <2> QED BY <2>7, <2>8, <2>9 DEF p
<1>5. Pos(ps, 0) = 0 /\ Pos(ps, n) = Len(Stream(ps))
  <2>1. Pos(ps, 0) = Len(Stream(part(0))) /\ Pos(ps, n) = Len(Stream(part(n)))
    BY DEF Pos
  <2>2. Len(Stream(<<>>)) = 0
    BY StreamEmpty
  <2> HIDE DEF part
  <2> QED BY <1>1, <2>1, <2>2
<1>6. \A k \in 0 .. n : Pos(ps, k) \in Nat
  BY <1>3 DEF Pos
<1> QED BY <1>4, <1>5, <1>6

-----------------------------------------------------------------------------
(***************************************************************************)
(* The loop of decode_stream.                                              *)
(***************************************************************************)

\* What a prefix declares is a number, whatever its bytes.
LEMMA DeclaredIsNat ==
  ASSUME NEW buffer \in Seq(Bytes), NEW offset \in Nat, offset + PrefixBytes <= Len(buffer)
  PROVE  DeclaredLength(buffer, offset) \in Nat
<1> DEFINE step == [x \in (0 .. PrefixBytes) \X Nat |-> x[2] * Base + buffer[offset + x[1]]]
<1>0. PrefixBytes \in Nat \ {0} /\ Base \in Nat
  BY StreamAssumption
<1>1. \A k \in 1 .. PrefixBytes : buffer[offset + k] \in Nat
  <2> SUFFICES ASSUME NEW k \in 1 .. PrefixBytes PROVE buffer[offset + k] \in Nat
    OBVIOUS
  <2>1. offset + k \in 1 .. Len(buffer)
    BY <1>0
  <2>2. buffer[offset + k] \in Bytes
    BY <2>1
  <2> QED BY <1>0, <2>2 DEF Bytes
<1>2. \A k \in 1 .. PrefixBytes, x \in Nat :
        step[<<k, x>>] = x * Base + buffer[offset + k] /\ step[<<k, x>>] \in Nat
  <2> SUFFICES ASSUME NEW k \in 1 .. PrefixBytes, NEW x \in Nat
               PROVE  step[<<k, x>>] = x * Base + buffer[offset + k] /\ step[<<k, x>>] \in Nat
    OBVIOUS
  <2>1. step[<<k, x>>] = x * Base + buffer[offset + k]
    <3>1. k \in 0 .. PrefixBytes
      BY <1>0
    <3> QED BY <3>1
  <2>2. x * Base \in Nat
    BY <1>0
  <2> HIDE DEF step
  <2> QED BY <1>1, <2>1, <2>2
<1> HIDE DEF step
<1>3. PICK f : Follows(PrefixBytes, 0, step, f)
  BY <1>0, SomeFollow
<1>4. /\ f[0] = 0
      /\ \A k \in 1 .. PrefixBytes : f[k] = step[<<k, f[k - 1]>>]
      /\ f = [k \in 0 .. PrefixBytes |-> f[k]]
  BY <1>0, <1>3 DEF Follows
<1>5. \A k \in 0 .. PrefixBytes : f[k] \in Nat
  <2> DEFINE S == {k \in 0 .. PrefixBytes : f[k] \in Nat}
  <2>1. 0 \in S
    BY <1>0, <1>4
  <2>2. ASSUME NEW k \in 1 .. PrefixBytes, k - 1 \in S PROVE k \in S
    <3>1. f[k - 1] \in Nat /\ k \in 0 .. PrefixBytes
      BY <1>0, <2>2
    <3> QED BY <1>2, <1>4, <3>1
  <2> HIDE DEF S
  <2>3. 0 .. PrefixBytes \subseteq S
    BY <1>0, <2>1, <2>2, UpTo
  <2> QED BY <2>3 DEF S
<1>6. HornerRun(buffer, offset, f)
  <2>1. ASSUME NEW k \in 1 .. PrefixBytes
        PROVE  f[k] = f[k - 1] * Base + buffer[offset + k]
    <3>1. f[k - 1] \in Nat
      BY <1>0, <1>5
    <3> QED BY <1>2, <1>4, <3>1
  <2>2. \A k \in 0 .. PrefixBytes : k # 0 => k \in 1 .. PrefixBytes
    BY <1>0
  <2>3. \A k \in 0 .. PrefixBytes :
          f[k] = IF k = 0 THEN 0 ELSE f[k - 1] * Base + buffer[offset + k]
    BY <1>4, <2>1, <2>2
  <2> QED BY <1>4, <2>3 DEF HornerRun
<1>7. PICK g : HornerRun(buffer, offset, g) /\ DeclaredLength(buffer, offset) = g[PrefixBytes]
  BY <1>6, DeclaredIsHorner
<1>8. /\ g[0] = 0
      /\ \A k \in 1 .. PrefixBytes : g[k] = g[k - 1] * Base + buffer[offset + k]
  BY <1>0, <1>7 DEF HornerRun
<1>9. PrefixBytes \in {k \in 0 .. PrefixBytes : g[k] \in Nat}
  <2> DEFINE S == {k \in 0 .. PrefixBytes : g[k] \in Nat}
  <2>1. 0 \in S
    BY <1>0, <1>8
  <2>2. ASSUME NEW k \in 1 .. PrefixBytes, k - 1 \in S PROVE k \in S
    <3>1. g[k - 1] \in Nat /\ k \in 0 .. PrefixBytes
      BY <1>0, <2>2
    <3>2. g[k - 1] * Base \in Nat
      BY <1>0, <3>1
    <3> QED BY <1>1, <1>8, <3>1, <3>2
  <2> HIDE DEF S
  <2>3. 0 .. PrefixBytes \subseteq S
    BY <1>0, <2>1, <2>2, UpTo
  <2>4. PrefixBytes \in S
    BY <1>0, <2>3
  <2> QED BY <2>4 DEF S
<1> QED BY <1>7, <1>9

\* One turn of the loop, given what the rest of it returns.
Turn(buffer, offset, rest) ==
  IF Len(buffer) - offset < PrefixBytes THEN AllUpTo(offset)
  ELSE IF TooLong(buffer, offset) THEN DecodeError
  ELSE IF ~Whole(buffer, offset) THEN AllUpTo(offset)
  ELSE IF PayloadAt(buffer, offset) \notin Decodable THEN DecodeError
  ELSE IF rest.ok
       THEN [rest EXCEPT !.frames = <<PayloadAt(buffer, offset)>> \o @]
       ELSE DecodeError

\* The loop from any offset, the last ones first.
LoopRun(buffer, m, f) ==
  f = [offset \in Len(buffer) - m .. Len(buffer) |->
         Turn(buffer, offset, f[NextOffset(buffer, offset)])]

\* What two runs know of the offsets behind this one is all that a turn asks.
LEMMA TurnLooksAhead ==
  ASSUME NEW buffer \in Seq(Bytes), NEW offset \in 0 .. Len(buffer), NEW f, NEW g,
         \A o \in offset + 1 .. Len(buffer) : f[o] = g[o]
  PROVE  Turn(buffer, offset, f[NextOffset(buffer, offset)])
           = Turn(buffer, offset, g[NextOffset(buffer, offset)])
<1>0. Len(buffer) \in Nat /\ PrefixBytes \in Nat \ {0}
  BY StreamAssumption
<1>1. CASE Len(buffer) - offset < PrefixBytes \/ ~Whole(buffer, offset)
  BY <1>1 DEF Turn
<1>2. CASE ~(Len(buffer) - offset < PrefixBytes) /\ Whole(buffer, offset)
  <2> DEFINE length == DeclaredLength(buffer, offset)
  <2>1. length \in Nat
    BY <1>0, <1>2, DeclaredIsNat
  <2>2. Len(buffer) - offset >= PrefixBytes + length
    BY <1>2 DEF Whole
  <2>3. NextOffset(buffer, offset) = offset + PrefixBytes + length
    BY DEF NextOffset
  <2> HIDE DEF length
  <2>4. NextOffset(buffer, offset) \in offset + 1 .. Len(buffer)
    BY <1>0, <2>1, <2>2, <2>3
  <2>5. f[NextOffset(buffer, offset)] = g[NextOffset(buffer, offset)]
    BY <2>4
  <2> QED BY <2>5
<1> QED BY <1>1, <1>2

LEMMA LoopRuns ==
  ASSUME NEW buffer \in Seq(Bytes)
  PROVE  \E f : LoopRun(buffer, Len(buffer), f)
<1> DEFINE n == Len(buffer)
           S == {m \in 0 .. n : \E f : LoopRun(buffer, m, f)}
<1>0. n \in Nat
  OBVIOUS
<1>1. 0 \in S
  <2> DEFINE none == [offset \in {} |-> DecodeError]
             f == [offset \in n .. n |-> Turn(buffer, offset, none[NextOffset(buffer, offset)])]
  <2>1. \A offset \in n .. n :
          f[offset] = Turn(buffer, offset, f[NextOffset(buffer, offset)])
    <3> SUFFICES ASSUME NEW offset \in n .. n
                 PROVE  f[offset] = Turn(buffer, offset, f[NextOffset(buffer, offset)])
      OBVIOUS
    <3>1. f[offset] = Turn(buffer, offset, none[NextOffset(buffer, offset)])
      OBVIOUS
    <3>2. offset \in 0 .. n /\ \A o \in offset + 1 .. n : f[o] = none[o]
      BY <1>0
    <3> HIDE DEF f, none
    <3> QED BY <3>1, <3>2, TurnLooksAhead
  <2>2. f = [offset \in n .. n |-> f[offset]] /\ n - 0 = n
    BY <1>0
  <2> HIDE DEF f
  <2>3. LoopRun(buffer, 0, f)
    BY <2>1, <2>2 DEF LoopRun
  <2> QED BY <1>0, <2>3
<1>2. ASSUME NEW m \in 1 .. n, m - 1 \in S PROVE m \in S
  <2>1. PICK g : LoopRun(buffer, m - 1, g)
    BY <1>2
  <2> DEFINE f == [offset \in n - m .. n |-> Turn(buffer, offset, g[NextOffset(buffer, offset)])]
  <2>2. ASSUME NEW o \in n - (m - 1) .. n PROVE f[o] = g[o]
    <3>1. o \in n - m .. n
      BY <1>0, <1>2
    <3>2. f[o] = Turn(buffer, o, g[NextOffset(buffer, o)])
      BY <3>1
    <3>3. g[o] = Turn(buffer, o, g[NextOffset(buffer, o)])
      BY <2>1 DEF LoopRun
    <3> QED BY <3>2, <3>3
  <2>3. ASSUME NEW o \in n - m .. n
        PROVE  f[o] = Turn(buffer, o, f[NextOffset(buffer, o)])
    <3>1. f[o] = Turn(buffer, o, g[NextOffset(buffer, o)])
      OBVIOUS
    <3>2. o \in 0 .. n /\ \A q \in o + 1 .. n : q \in n - (m - 1) .. n
      BY <1>0, <1>2
    <3>3. \A q \in o + 1 .. n : f[q] = g[q]
      BY <2>2, <3>2
    <3> HIDE DEF f
    <3> QED BY <3>1, <3>2, <3>3, TurnLooksAhead
  <2>4. f = [o \in n - m .. n |-> f[o]]
    OBVIOUS
  <2> HIDE DEF f
  <2>5. LoopRun(buffer, m, f)
    BY <2>3, <2>4 DEF LoopRun
  <2> QED BY <1>0, <1>2, <2>5
<1> HIDE DEF S
<1>3. 0 .. n \subseteq S
  BY <1>0, <1>1, <1>2, UpTo
<1>4. n \in S
  BY <1>0, <1>3
<1> QED BY <1>4 DEF S

LEMMA DecodeIsLoop ==
  ASSUME NEW buffer \in Seq(Bytes)
  PROVE  \E f : /\ DecodeStream(buffer) = f[0]
                /\ \A offset \in 0 .. Len(buffer) :
                     f[offset] = Turn(buffer, offset, f[NextOffset(buffer, offset)])
<1> DEFINE body(h) ==
             [offset \in 0 .. Len(buffer) |->
                IF Len(buffer) - offset < PrefixBytes THEN AllUpTo(offset)
                ELSE IF TooLong(buffer, offset) THEN DecodeError
                ELSE IF ~Whole(buffer, offset) THEN AllUpTo(offset)
                ELSE IF PayloadAt(buffer, offset) \notin Decodable THEN DecodeError
                ELSE IF h[NextOffset(buffer, offset)].ok
                     THEN [h[NextOffset(buffer, offset)] EXCEPT
                             !.frames = <<PayloadAt(buffer, offset)>> \o @]
                     ELSE DecodeError]
           f == CHOOSE h : h = body(h)
<1>1. DecodeStream(buffer) = f[0]
  BY DEF DecodeStream
<1>2. \A h : body(h) = [offset \in 0 .. Len(buffer) |->
                          Turn(buffer, offset, h[NextOffset(buffer, offset)])]
  BY DEF Turn
<1> HIDE DEF body
<1>3. PICK g : LoopRun(buffer, Len(buffer), g)
  BY LoopRuns
<1>4. Len(buffer) - Len(buffer) = 0
  OBVIOUS
<1>5. g = body(g)
  BY <1>2, <1>3, <1>4 DEF LoopRun
<1>6. f = body(f)
  BY <1>5
<1> QED BY <1>1, <1>2, <1>6

-----------------------------------------------------------------------------
(***************************************************************************)
(* decode_stream gives the frames that the buffer completes, up to one     *)
(* that cannot be decoded.                                                 *)
(***************************************************************************)

\* So many bytes of a frame with its prefix, and no whole one, wait for more.
Waits(length, kept) ==
  /\ kept < PrefixBytes + length
  /\ kept >= PrefixBytes => length <= MaxFrameBytes

\* The result of the loop from the frame after the first k on.
FramesFrom(ps, buffer, k, result) ==
  \/ /\ result = DecodeError
     /\ \E bad \in k + 1 .. Len(ps) :
          /\ ps[bad] \notin Decodable
          /\ \A i \in k + 1 .. bad - 1 : ps[i] \in Decodable
  \/ \E m \in k .. Len(ps) :
       /\ result = [ok |-> TRUE, frames |-> SubSeq(ps, k + 1, m), consumed |-> Pos(ps, m)]
       /\ \A i \in k + 1 .. m : ps[i] \in Decodable
       /\ Pos(ps, m) <= Len(buffer)
       /\ m < Len(ps) => Waits(Len(ps[m + 1]), Len(buffer) - Pos(ps, m))

\* The bytes of a frame that reached the buffer stand in it where it begins.
LEMMA FrameInBuffer ==
  ASSUME NEW ps \in Seq(Payloads), NEW buffer \in Seq(Bytes), NEW rest \in Seq(Bytes),
         buffer \o rest = Stream(ps), NEW k \in 1 .. Len(ps),
         NEW i \in 1 .. PrefixBytes + Len(ps[k]), Pos(ps, k - 1) + i <= Len(buffer)
  PROVE  buffer[Pos(ps, k - 1) + i] = Wire(ps[k])[i]
<1>1. /\ Pos(ps, k - 1) \in Nat /\ Stream(ps)[Pos(ps, k - 1) + i] = Wire(ps[k])[i]
  <2>1. k - 1 \in 0 .. Len(ps)
    OBVIOUS
  <2> QED BY <2>1, PosFacts
<1>2. Len(ps[k]) \in Nat /\ PrefixBytes \in Nat
  <2>1. ps[k] \in Payloads
    OBVIOUS
  <2> QED BY <2>1, WireFacts, StreamAssumption
<1>3. Pos(ps, k - 1) + i \in 1 .. Len(buffer)
  BY <1>1, <1>2
<1>4. \A j \in 1 .. Len(buffer) : (buffer \o rest)[j] = buffer[j]
  OBVIOUS
<1> QED BY <1>1, <1>3, <1>4

LEMMA OneTurn ==
  ASSUME NEW ps \in Seq(Payloads), NEW buffer \in Seq(Bytes), NEW rest \in Seq(Bytes),
         buffer \o rest = Stream(ps), NEW k \in 0 .. Len(ps) - 1,
         Pos(ps, k) <= Len(buffer), NEW f,
         Pos(ps, k + 1) <= Len(buffer) =>
           FramesFrom(ps, buffer, k + 1, f[Pos(ps, k + 1)])
  PROVE  FramesFrom(ps, buffer, k,
                    Turn(buffer, Pos(ps, k), f[NextOffset(buffer, Pos(ps, k))]))
<1> DEFINE n == Len(ps)
           offset == Pos(ps, k)
           p == ps[k + 1]
           length == Len(p)
           next == f[NextOffset(buffer, offset)]
           result == Turn(buffer, offset, next)
<1>0. /\ n \in Nat /\ k + 1 \in 1 .. n /\ (k + 1) - 1 = k /\ p \in Payloads
      /\ Len(buffer) \in Nat /\ PrefixBytes \in Nat \ {0} /\ MaxFrameBytes \in Nat
  BY StreamAssumption
<1>1. /\ offset \in Nat
      /\ Pos(ps, k + 1) = offset + PrefixBytes + length
  BY <1>0, PosFacts
<1>2. /\ length \in Nat /\ p \in Seq(Bytes)
      /\ \A i \in 1 .. PrefixBytes : Wire(p)[i] = Prefix(length)[i]
      /\ \A i \in 1 .. length : Wire(p)[PrefixBytes + i] = p[i]
  BY <1>0, WireFacts
<1>3. \A i \in 1 .. PrefixBytes + length :
        offset + i <= Len(buffer) => buffer[offset + i] = Wire(p)[i]
  <2> SUFFICES ASSUME NEW i \in 1 .. PrefixBytes + length, offset + i <= Len(buffer)
               PROVE  buffer[offset + i] = Wire(p)[i]
    OBVIOUS
  <2> DEFINE m == k + 1
  <2>1. m \in 1 .. Len(ps) /\ m - 1 = k
    BY <1>0
  <2>2. ps[m] = p
    OBVIOUS
  <2> HIDE DEF m
  <2>3. i \in 1 .. PrefixBytes + Len(ps[m]) /\ Pos(ps, m - 1) + i <= Len(buffer)
    BY <2>1, <2>2
  <2>4. buffer[Pos(ps, m - 1) + i] = Wire(ps[m])[i]
    BY <2>1, <2>3, FrameInBuffer
  <2> QED BY <2>1, <2>2, <2>4
<1>4. p \in Decodable => length <= MaxFrameBytes
  BY StreamAssumption
<1> HIDE DEF offset, p, length, n
<1>5. ASSUME result = AllUpTo(offset), Waits(length, Len(buffer) - offset)
      PROVE  FramesFrom(ps, buffer, k, result)
  <2>1. k \in k .. n /\ k < n /\ k + 1 .. k = {}
    BY <1>0
  <2>2. SubSeq(ps, k + 1, k) = <<>>
    BY <1>0, SubSeqEmpty
  <2>3. result = [ok |-> TRUE, frames |-> SubSeq(ps, k + 1, k), consumed |-> Pos(ps, k)]
    BY <1>5, <2>2 DEF AllUpTo, offset
  <2>4. Waits(Len(ps[k + 1]), Len(buffer) - Pos(ps, k))
    BY <1>5 DEF offset, length, p
  <2>5. \A i \in k + 1 .. k : ps[i] \in Decodable
    BY <2>1
  <2> HIDE DEF result
  <2> QED BY <2>1, <2>3, <2>4, <2>5 DEF FramesFrom, n
<1>6. ASSUME result = DecodeError, p \notin Decodable
      PROVE  FramesFrom(ps, buffer, k, result)
  <2>1. k + 1 \in k + 1 .. n /\ k + 1 .. (k + 1) - 1 = {}
    BY <1>0
  <2>2. ps[k + 1] \notin Decodable
    BY <1>6 DEF p
  <2>3. \A i \in k + 1 .. (k + 1) - 1 : ps[i] \in Decodable
    BY <2>1
  <2> HIDE DEF result
  <2> QED BY <1>6, <2>1, <2>2, <2>3 DEF FramesFrom, n
<1>7. CASE Len(buffer) - offset < PrefixBytes
  <2>1. result = AllUpTo(offset)
    BY <1>7 DEF Turn
  <2>2. Waits(length, Len(buffer) - offset)
    BY <1>0, <1>1, <1>2, <1>7 DEF Waits
  <2> QED BY <1>5, <2>1, <2>2 DEF offset
<1>8. CASE Len(buffer) - offset >= PrefixBytes
  <2>1. DeclaredLength(buffer, offset) = length
    <3>1. \A i \in 1 .. PrefixBytes : buffer[offset + i] = Prefix(length)[i]
      <4> SUFFICES ASSUME NEW i \in 1 .. PrefixBytes
                   PROVE  buffer[offset + i] = Prefix(length)[i]
        OBVIOUS
      <4>1. i \in 1 .. PrefixBytes + length /\ offset + i <= Len(buffer)
        BY <1>0, <1>1, <1>2, <1>8
      <4> QED BY <1>2, <1>3, <4>1
    <3>2. Shifted(length)[PrefixBytes] = 0
      BY <1>0, StreamAssumption DEF length
    <3>3. length \in Nat
      BY <1>2
    <3> QED BY <3>1, <3>2, <3>3, PrefixIsRead
  <2>2. ~(Len(buffer) - offset < PrefixBytes)
    BY <1>0, <1>1, <1>8
  <2>3. CASE length > MaxFrameBytes
    <3>1. result = DecodeError
      BY <2>1, <2>2, <2>3 DEF Turn, TooLong
    <3>2. p \notin Decodable
      BY <1>0, <1>2, <1>4, <2>3
    <3> QED BY <1>6, <3>1, <3>2 DEF offset
  <2>4. CASE ~(length > MaxFrameBytes) /\ ~(Len(buffer) - offset >= PrefixBytes + length)
    <3>1. result = AllUpTo(offset)
      BY <2>1, <2>2, <2>4 DEF Turn, TooLong, Whole
    <3>2. Waits(length, Len(buffer) - offset)
      BY <1>0, <1>1, <1>2, <2>4 DEF Waits
    <3> QED BY <1>5, <3>1, <3>2 DEF offset
  <2>5. CASE ~(length > MaxFrameBytes) /\ Len(buffer) - offset >= PrefixBytes + length
    <3>1. PayloadAt(buffer, offset) = p
      <4> DEFINE q == SubSeq(buffer, offset + PrefixBytes + 1, offset + PrefixBytes + length)
      <4>1. PayloadAt(buffer, offset) = q
        BY <2>1 DEF PayloadAt
      <4>2. \A i \in offset + PrefixBytes + 1 .. offset + PrefixBytes + length :
              i \in 1 .. Len(buffer)
        BY <1>0, <1>1, <1>2, <2>5
      <4>3. \A i \in offset + PrefixBytes + 1 .. offset + PrefixBytes + length :
              buffer[i] \in Bytes
        BY <4>2
      <4>4. /\ offset + PrefixBytes + 1 \in Int /\ offset + PrefixBytes + length \in Int
            /\ (offset + PrefixBytes + length) - (offset + PrefixBytes + 1) + 1 = length
            /\ (offset + PrefixBytes + 1 <= offset + PrefixBytes + length <=> 1 <= length)
        BY <1>0, <1>1, <1>2
      <4>5. /\ q \in Seq(Bytes)
            /\ Len(q) = IF 1 <= length THEN length ELSE 0
            /\ \A i \in 1 .. length : q[i] = buffer[(offset + PrefixBytes + 1) + i - 1]
        <5> DEFINE i1 == offset + PrefixBytes + 1
                   i2 == offset + PrefixBytes + length
        <5>1. i1 \in Int /\ i2 \in Int /\ \A i \in i1 .. i2 : buffer[i] \in Bytes
          BY <4>3, <4>4
        <5>2. i2 - i1 + 1 = length /\ (i1 <= i2 <=> 1 <= length)
          BY <4>4
        <5>3. q = SubSeq(buffer, i1, i2)
          OBVIOUS
        <5> HIDE DEF i1, i2, q
        <5>4. /\ q \in Seq(Bytes)
              /\ Len(q) = IF i1 <= i2 THEN i2 - i1 + 1 ELSE 0
              /\ \A i \in 1 .. i2 - i1 + 1 : q[i] = buffer[i1 + i - 1]
          BY <5>1, <5>3, SubSeqProperties
        <5>5. /\ q \in Seq(Bytes)
              /\ Len(q) = IF 1 <= length THEN length ELSE 0
              /\ \A i \in 1 .. length : q[i] = buffer[i1 + i - 1]
          BY <5>2, <5>4
        <5> QED
          BY <5>5 DEF i1
      <4>6. Len(q) = Len(p)
        BY <1>2, <4>5 DEF length
      <4>7. ASSUME NEW i \in 1 .. length PROVE q[i] = p[i]
        <5>1. (offset + PrefixBytes + 1) + i - 1 = offset + (PrefixBytes + i)
          BY <1>0, <1>1
        <5>2. /\ PrefixBytes + i \in 1 .. PrefixBytes + length
              /\ offset + (PrefixBytes + i) <= Len(buffer)
          BY <1>0, <1>1, <1>2, <2>5
        <5>3. buffer[offset + (PrefixBytes + i)] = Wire(p)[PrefixBytes + i]
          BY <1>3, <5>2
        <5> QED BY <1>2, <4>5, <5>1, <5>3
      <4> HIDE DEF q
      <4>8. \A i \in 1 .. Len(q) : q[i] = p[i]
        BY <4>6, <4>7 DEF length
      <4> QED BY <1>2, <4>1, <4>5, <4>6, <4>8, SeqEqual
    <3>2. CASE p \notin Decodable
      <4>1. result = DecodeError
        BY <2>1, <2>2, <2>5, <3>1, <3>2 DEF Turn, TooLong, Whole
      <4> QED BY <1>6, <3>2, <4>1 DEF offset
    <3>3. CASE p \in Decodable
      <4>1. NextOffset(buffer, offset) = Pos(ps, k + 1) /\ Pos(ps, k + 1) <= Len(buffer)
        BY <1>0, <1>1, <1>2, <2>1, <2>5 DEF NextOffset
      <4>2. FramesFrom(ps, buffer, k + 1, next)
        BY <4>1
      <4>3. result = IF next.ok THEN [next EXCEPT !.frames = <<p>> \o @] ELSE DecodeError
        BY <2>1, <2>2, <2>5, <3>1, <3>3 DEF Turn, TooLong, Whole
      <4> HIDE DEF next, result
      <4>4. ASSUME next = DecodeError,
                   NEW bad \in (k + 1) + 1 .. n, ps[bad] \notin Decodable,
                   \A i \in (k + 1) + 1 .. bad - 1 : ps[i] \in Decodable
            PROVE  FramesFrom(ps, buffer, k, result)
        <5>1. result = DecodeError
          BY <4>3, <4>4 DEF DecodeError
        <5>2. bad \in k + 1 .. n
          BY <1>0
        <5>3. \A i \in k + 1 .. bad - 1 : i = k + 1 \/ i \in (k + 1) + 1 .. bad - 1
          BY <1>0
        <5>4. \A i \in k + 1 .. bad - 1 : ps[i] \in Decodable
          BY <3>3, <4>4, <5>3 DEF p
        <5> QED BY <4>4, <5>1, <5>2, <5>4 DEF FramesFrom, n
      <4>5. ASSUME NEW m \in k + 1 .. n,
                   next = [ok |-> TRUE, frames |-> SubSeq(ps, (k + 1) + 1, m),
                           consumed |-> Pos(ps, m)],
                   \A i \in (k + 1) + 1 .. m : ps[i] \in Decodable,
                   Pos(ps, m) <= Len(buffer),
                   m < n => Waits(Len(ps[m + 1]), Len(buffer) - Pos(ps, m))
            PROVE  FramesFrom(ps, buffer, k, result)
        <5>1. SubSeq(ps, k + 1, m) = <<p>> \o SubSeq(ps, (k + 1) + 1, m)
          BY <1>0, SubSeqRecursiveFirst DEF n, p
        <5>2. result = [ok |-> TRUE, frames |-> SubSeq(ps, k + 1, m), consumed |-> Pos(ps, m)]
          BY <4>3, <4>5, <5>1
        <5>3. m \in k .. n
          BY <1>0
        <5>4. \A i \in k + 1 .. m : i = k + 1 \/ i \in (k + 1) + 1 .. m
          BY <1>0
        <5>5. \A i \in k + 1 .. m : ps[i] \in Decodable
          BY <3>3, <4>5, <5>4 DEF p
        <5> QED BY <4>5, <5>2, <5>3, <5>5 DEF FramesFrom, n
      <4>6. FramesFrom(ps, buffer, k, result)
        BY <4>2, <4>4, <4>5 DEF FramesFrom, n
      <4> QED BY <4>6 DEF result, next, offset
    <3> QED BY <3>2, <3>3
  <2> QED BY <2>3, <2>4, <2>5
<1>9. Len(buffer) - offset < PrefixBytes \/ Len(buffer) - offset >= PrefixBytes
  BY <1>0, <1>1
<1> QED BY <1>7, <1>8, <1>9

LEMMA DecodeGivesFrames ==
  ASSUME NEW ps \in Seq(Payloads), NEW buffer \in Seq(Bytes), NEW rest \in Seq(Bytes),
         buffer \o rest = Stream(ps)
  PROVE  FramesFrom(ps, buffer, 0, DecodeStream(buffer))
<1> DEFINE n == Len(ps)
<1>0. n \in Nat /\ Len(buffer) \in Nat /\ Len(rest) \in Nat /\ PrefixBytes \in Nat \ {0}
  BY StreamAssumption
<1>1. PICK f : /\ DecodeStream(buffer) = f[0]
               /\ \A offset \in 0 .. Len(buffer) :
                    f[offset] = Turn(buffer, offset, f[NextOffset(buffer, offset)])
  BY DecodeIsLoop
<1> DEFINE S == {j \in 0 .. n : Pos(ps, n - j) <= Len(buffer) =>
                                  FramesFrom(ps, buffer, n - j, f[Pos(ps, n - j)])}
<1>2. 0 \in S
  <2>1. Pos(ps, n) = Len(buffer) + Len(rest)
    <3>1. Len(buffer \o rest) = Len(buffer) + Len(rest)
      OBVIOUS
    <3> QED BY <3>1, PosFacts
  <2>2. ASSUME Pos(ps, n) <= Len(buffer)
        PROVE  FramesFrom(ps, buffer, n, f[Pos(ps, n)])
    <3>1. Pos(ps, n) = Len(buffer) /\ Len(buffer) \in 0 .. Len(buffer)
      BY <1>0, <2>1, <2>2
    <3>2. Len(buffer) - Len(buffer) < PrefixBytes
      BY <1>0
    <3>3. f[Pos(ps, n)] = AllUpTo(Pos(ps, n))
      BY <1>1, <3>1, <3>2 DEF Turn
    <3>4. n \in n .. n /\ n + 1 .. n = {} /\ ~(n < n)
      BY <1>0
    <3>5. SubSeq(ps, n + 1, n) = <<>>
      BY <1>0, SubSeqEmpty
    <3>6. f[Pos(ps, n)] = [ok |-> TRUE, frames |-> SubSeq(ps, n + 1, n), consumed |-> Pos(ps, n)]
      BY <3>3, <3>5 DEF AllUpTo
    <3>7. \A i \in n + 1 .. n : ps[i] \in Decodable
      BY <3>4
    <3> QED BY <2>2, <3>4, <3>6, <3>7 DEF FramesFrom
  <2>3. n - 0 = n /\ 0 \in 0 .. n
    BY <1>0
  <2> QED BY <2>2, <2>3
<1>3. ASSUME NEW j \in 1 .. n, j - 1 \in S PROVE j \in S
  <2> DEFINE k == n - j
  <2>1. k \in 0 .. n - 1 /\ k + 1 = n - (j - 1) /\ k \in 0 .. n /\ j \in 0 .. n
    BY <1>0
  <2>2. Pos(ps, k + 1) <= Len(buffer) => FramesFrom(ps, buffer, k + 1, f[Pos(ps, k + 1)])
    BY <1>3, <2>1
  <2> HIDE DEF k
  <2>3. ASSUME Pos(ps, k) <= Len(buffer)
        PROVE  FramesFrom(ps, buffer, k, f[Pos(ps, k)])
    <3>1. Pos(ps, k) \in Nat
      BY <2>1, PosFacts
    <3>2. Pos(ps, k) \in 0 .. Len(buffer)
      BY <1>0, <2>3, <3>1
    <3>3. f[Pos(ps, k)] = Turn(buffer, Pos(ps, k), f[NextOffset(buffer, Pos(ps, k))])
      BY <1>1, <3>2
    <3> QED BY <2>1, <2>2, <2>3, <3>3, OneTurn
  <2> QED BY <2>1, <2>3 DEF k
<1> HIDE DEF S
<1>4. 0 .. n \subseteq S
  BY <1>0, <1>2, <1>3, UpTo
<1>5. n \in S /\ n - n = 0
  BY <1>0, <1>4
<1>6. Pos(ps, 0) = 0 /\ 0 <= Len(buffer)
  BY <1>0, PosFacts
<1> QED BY <1>1, <1>5, <1>6 DEF S

-----------------------------------------------------------------------------
(***************************************************************************)
(* Cutting what was sent and what was read at the same frame.              *)
(***************************************************************************)
LEMMA CutRest ==
  ASSUME NEW S, NEW s \in Seq(S), NEW d \in 0 .. Len(s), NEW m \in 0 .. Len(s) - d
  PROVE  LET r == SubSeq(s, d + 1, Len(s))
         IN /\ r \in Seq(S)
            /\ Len(r) = Len(s) - d
            /\ \A i \in 1 .. Len(s) - d : r[i] = s[d + i]
            /\ SubSeq(s, 1, d) \in Seq(S) /\ Len(SubSeq(s, 1, d)) = d
            /\ SubSeq(r, 1, m) \in Seq(S)
            /\ SubSeq(r, m + 1, Len(r)) = SubSeq(s, (d + m) + 1, Len(s))
            /\ SubSeq(s, 1, d) \o SubSeq(r, 1, m) = SubSeq(s, 1, d + m)
<1> DEFINE n == Len(s)
           r == SubSeq(s, d + 1, n)
<1>0. n \in Nat /\ d \in Nat /\ m \in Nat /\ d + m <= n
  OBVIOUS
<1>1. /\ r \in Seq(S) /\ Len(r) = n - d
      /\ \A i \in 1 .. n - d : r[i] = s[d + i]
  <2>1. \A i \in d + 1 .. n : s[i] \in S
    BY <1>0
  <2>2. /\ r \in Seq(S)
        /\ Len(r) = IF d + 1 <= n THEN n - (d + 1) + 1 ELSE 0
        /\ \A i \in 1 .. n - (d + 1) + 1 : r[i] = s[(d + 1) + i - 1]
    BY <1>0, <2>1, SubSeqProperties
  <2> HIDE DEF r
  <2>3. n - (d + 1) + 1 = n - d /\ \A i \in 1 .. n - d : (d + 1) + i - 1 = d + i
    BY <1>0
  <2>4. Len(r) = n - d
    <3>1. d + 1 <= n \/ (~(d + 1 <= n) /\ n - d = 0)
      BY <1>0
    <3> QED BY <2>2, <2>3, <3>1
  <2> QED BY <2>2, <2>3, <2>4
<1>2. SubSeq(s, 1, d) \in Seq(S) /\ Len(SubSeq(s, 1, d)) = d
  <2>1. \A i \in 1 .. d : s[i] \in S
    BY <1>0
  <2>2. /\ SubSeq(s, 1, d) \in Seq(S)
        /\ Len(SubSeq(s, 1, d)) = IF 1 <= d THEN d - 1 + 1 ELSE 0
    BY <1>0, <2>1, SubSeqProperties
  <2> QED BY <1>0, <2>2
<1> HIDE DEF r
<1>3. /\ SubSeq(r, 1, m) \in Seq(S)
      /\ Len(SubSeq(r, 1, m)) = m
      /\ \A i \in 1 .. m : SubSeq(r, 1, m)[i] = s[d + i]
  <2>1. \A i \in 1 .. m : r[i] \in S /\ r[i] = s[d + i]
    BY <1>0, <1>1
  <2>2. /\ SubSeq(r, 1, m) \in Seq(S)
        /\ Len(SubSeq(r, 1, m)) = IF 1 <= m THEN m - 1 + 1 ELSE 0
        /\ \A i \in 1 .. m - 1 + 1 : SubSeq(r, 1, m)[i] = r[1 + i - 1]
    BY <1>0, <2>1, SubSeqProperties
  <2>3. m - 1 + 1 = m /\ \A i \in 1 .. m : 1 + i - 1 = i
    BY <1>0
  <2> QED BY <1>0, <2>1, <2>2, <2>3
<1>4. SubSeq(r, m + 1, Len(r)) = SubSeq(s, (d + m) + 1, n)
  <2> DEFINE a == SubSeq(r, m + 1, n - d)
             b == SubSeq(s, (d + m) + 1, n)
             l == n - (d + m)
  <2>1. \A i \in m + 1 .. n - d : r[i] \in S /\ r[i] = s[d + i]
    BY <1>0, <1>1
  <2>2. \A i \in (d + m) + 1 .. n : s[i] \in S
    BY <1>0
  <2>3. /\ a \in Seq(S)
        /\ Len(a) = IF m + 1 <= n - d THEN (n - d) - (m + 1) + 1 ELSE 0
        /\ \A i \in 1 .. (n - d) - (m + 1) + 1 : a[i] = r[(m + 1) + i - 1]
    BY <1>0, <2>1, SubSeqProperties
  <2>4. /\ b \in Seq(S)
        /\ Len(b) = IF (d + m) + 1 <= n THEN n - ((d + m) + 1) + 1 ELSE 0
        /\ \A i \in 1 .. n - ((d + m) + 1) + 1 : b[i] = s[((d + m) + 1) + i - 1]
    BY <1>0, <2>2, SubSeqProperties
  <2>5. /\ l \in Nat /\ (n - d) - (m + 1) + 1 = l /\ n - ((d + m) + 1) + 1 = l
    BY <1>0
  <2> HIDE DEF a, b
  <2>6. Len(a) = l /\ Len(b) = l
    BY <1>0, <2>3, <2>4
  <2>7. ASSUME NEW i \in 1 .. l PROVE a[i] = b[i]
    <3>1. a[i] = r[(m + 1) + i - 1] /\ b[i] = s[((d + m) + 1) + i - 1]
      BY <2>3, <2>4, <2>5
    <3>2. (m + 1) + i - 1 \in m + 1 .. n - d /\ d + ((m + 1) + i - 1) = ((d + m) + 1) + i - 1
      BY <1>0
    <3> QED BY <2>1, <3>1, <3>2
  <2>8. a = b
    BY <2>3, <2>4, <2>6, <2>7, SeqEqual
  <2> QED BY <1>1, <2>8 DEF a, b
<1>5. SubSeq(s, 1, d) \o SubSeq(r, 1, m) = SubSeq(s, 1, d + m)
  <2>1. SubSeq(r, 1, m) = SubSeq(s, d + 1, d + m)
    <3> DEFINE b == SubSeq(s, d + 1, d + m)
    <3>1. \A i \in d + 1 .. d + m : s[i] \in S
      BY <1>0
    <3>2. /\ b \in Seq(S)
          /\ Len(b) = IF d + 1 <= d + m THEN (d + m) - (d + 1) + 1 ELSE 0
          /\ \A i \in 1 .. (d + m) - (d + 1) + 1 : b[i] = s[(d + 1) + i - 1]
      BY <1>0, <3>1, SubSeqProperties
    <3>3. (d + m) - (d + 1) + 1 = m /\ \A i \in 1 .. m : (d + 1) + i - 1 = d + i
      BY <1>0
    <3> HIDE DEF b
    <3>4. Len(b) = m /\ \A i \in 1 .. m : b[i] = s[d + i]
      <4>1. d + 1 <= d + m \/ (~(d + 1 <= d + m) /\ m = 0)
        BY <1>0
      <4>2. Len(b) = m
        BY <3>2, <3>3, <4>1
      <4>3. \A i \in 1 .. m : b[i] = s[d + i]
        BY <3>2, <3>3
      <4> QED BY <4>2, <4>3
    <3>5. SubSeq(r, 1, m) = b
      BY <1>3, <3>2, <3>4, SeqEqual
    <3> QED BY <3>5 DEF b
  <2>2. 1 \in 1 .. n + 1 /\ d \in 1 - 1 .. n /\ d + m \in d .. n
    BY <1>0
  <2>3. SubSeq(s, 1, d) \o SubSeq(s, d + 1, d + m) = SubSeq(s, 1, d + m)
    BY <2>2, ConcatAdjacentSubSeq
  <2> QED BY <2>1, <2>3
<1> QED BY <1>1, <1>2, <1>3, <1>4, <1>5 DEF r

LEMMA BytesAssociate ==
  \A a, b, c \in Seq(Bytes) : (a \o b) \o c = a \o (b \o c)
BY ConcatAssociative

\* Bytes cut twice: the tail after the frames of the first part begins the second.
LEMMA CutBytes ==
  ASSUME NEW buffer \in Seq(Bytes), NEW rest \in Seq(Bytes),
         NEW a \in Seq(Bytes), NEW b \in Seq(Bytes),
         buffer \o rest = a \o b, Len(a) <= Len(buffer)
  PROVE  LET kept == SubSeq(buffer, Len(a) + 1, Len(buffer))
         IN /\ kept \in Seq(Bytes)
            /\ Len(kept) = Len(buffer) - Len(a)
            /\ kept \o rest = b
<1> DEFINE n == Len(buffer)
           m == Len(a)
           kept == SubSeq(buffer, m + 1, n)
           head == SubSeq(buffer, 1, m)
<1>0. n \in Nat /\ m \in Nat /\ m <= n
  OBVIOUS
<1>1. kept \in Seq(Bytes) /\ Len(kept) = n - m
  <2>1. \A i \in m + 1 .. n : buffer[i] \in Bytes
    BY <1>0
  <2>2. /\ kept \in Seq(Bytes)
        /\ Len(kept) = IF m + 1 <= n THEN n - (m + 1) + 1 ELSE 0
    BY <1>0, <2>1, SubSeqProperties
  <2> QED BY <1>0, <2>2
<1>2. head = a
  <2>1. \A i \in 1 .. m : buffer[i] \in Bytes
    BY <1>0
  <2>2. /\ head \in Seq(Bytes)
        /\ Len(head) = IF 1 <= m THEN m - 1 + 1 ELSE 0
        /\ \A i \in 1 .. m - 1 + 1 : head[i] = buffer[1 + i - 1]
    BY <1>0, <2>1, SubSeqProperties
  <2>3. \A i \in 1 .. m : (buffer \o rest)[i] = buffer[i] /\ (a \o b)[i] = a[i]
    BY <1>0
  <2> HIDE DEF head
  <2>4. Len(head) = m /\ m - 1 + 1 = m /\ \A i \in 1 .. m : 1 + i - 1 = i
    BY <1>0, <2>2
  <2>5. \A i \in 1 .. m : head[i] = a[i]
    BY <2>2, <2>3, <2>4
  <2> QED BY <2>2, <2>4, <2>5, SeqEqual
<1>3. head \o kept = buffer
  <2>1. 1 \in 1 .. n + 1 /\ m \in 1 - 1 .. n /\ n \in m .. n
    BY <1>0
  <2>2. SubSeq(buffer, 1, m) \o SubSeq(buffer, m + 1, n) = SubSeq(buffer, 1, n)
    BY <2>1, ConcatAdjacentSubSeq
  <2> QED BY <2>2, SubSeqFull
<1> HIDE DEF head, kept
<1>4. a \o (kept \o rest) = a \o b
  <2>1. a \in Seq(Bytes) /\ kept \in Seq(Bytes) /\ rest \in Seq(Bytes)
    BY <1>1
  <2>2. (a \o kept) \o rest = a \o (kept \o rest)
    BY <2>1, BytesAssociate
  <2> QED BY <1>2, <1>3, <2>2
<1>5. kept \o rest \in Seq(Bytes)
  BY <1>1, ConcatProperties
<1>6. kept \o rest = b
  BY <1>4, <1>5, ConcatSimplifications
<1> QED BY <1>1, <1>6 DEF kept

-----------------------------------------------------------------------------
(***************************************************************************)
(* The inductive invariant.                                                *)
(***************************************************************************)
Rest == SubSeq(sent, Len(delivered) + 1, Len(sent))

\* The bytes kept are fewer than the next frame has; once its prefix is among
\* them it was not refused.
TailIsPartOfOneFrame ==
  open /\ Len(delivered) < Len(sent) => Waits(Len(sent[Len(delivered) + 1]), Len(tail))

StreamInv ==
  /\ sent \in Seq(Payloads)
  /\ net \in Seq(Bytes)
  /\ tail \in Seq(Bytes)
  /\ open \in BOOLEAN
  /\ Len(delivered) \in 0 .. Len(sent)
  /\ delivered = SubSeq(sent, 1, Len(delivered))
  /\ open => tail \o net = Stream(Rest)
  /\ TailIsPartOfOneFrame
  /\ ~open => tail = <<>>

LEMMA InitStream == Init => StreamInv
<1> SUFFICES ASSUME Init PROVE StreamInv
  OBVIOUS
<1>1. /\ sent = <<>> /\ net = <<>> /\ tail = <<>> /\ delivered = <<>> /\ open = TRUE
      /\ Len(<<>>) = 0
  BY DEF Init
<1>2. <<>> \in Seq(Payloads) /\ <<>> \in Seq(Bytes) /\ <<>> \o <<>> = <<>>
  OBVIOUS
<1>3. SubSeq(<<>>, 1, 0) = <<>> /\ SubSeq(<<>>, 0 + 1, 0) = <<>>
  BY SubSeqEmpty
<1>4. Rest = <<>>
  BY <1>1, <1>3 DEF Rest
<1>5. ~(Len(delivered) < Len(sent)) /\ Len(delivered) \in 0 .. Len(sent)
  BY <1>1
<1> QED BY <1>1, <1>2, <1>3, <1>4, <1>5, StreamEmpty DEF StreamInv, TailIsPartOfOneFrame

\* The tail of a caller that was handed everything is empty.
LEMMA NothingLeft ==
  ASSUME StreamInv, open, Len(delivered) = Len(sent)
  PROVE  tail = <<>> /\ net = <<>>
<1>1. Len(sent) + 1 \in Int /\ Len(sent) \in Int /\ Len(sent) < Len(sent) + 1
  BY DEF StreamInv
<1>2. Rest = <<>>
  BY <1>1, SubSeqEmpty DEF Rest
<1>3. tail \o net = <<>> /\ tail \in Seq(Bytes) /\ net \in Seq(Bytes)
  BY <1>2, StreamEmpty DEF StreamInv
<1> QED BY <1>3, ConcatEqualIffEmpty

LEMMA SendKeepsStream ==
  ASSUME StreamInv, NEW payload \in Payloads, Send(payload)
  PROVE  StreamInv'
<1> DEFINE n == Len(sent)
           d == Len(delivered)
<1>1. /\ sent \in Seq(Payloads) /\ net \in Seq(Bytes) /\ tail \in Seq(Bytes) /\ open
      /\ n \in Nat /\ d \in 0 .. n /\ delivered = SubSeq(sent, 1, d)
  BY DEF StreamInv, Send
<1>2. /\ sent' = Append(sent, payload) /\ net' = net \o Wire(payload)
      /\ tail' = tail /\ delivered' = delivered /\ open' = open
  BY DEF Send
<1>3. /\ sent' \in Seq(Payloads) /\ Len(sent') = n + 1 /\ sent'[n + 1] = payload
      /\ \A i \in 1 .. n : sent'[i] = sent[i]
  BY <1>1, <1>2, AppendProperties
<1>4. Wire(payload) \in Seq(Bytes) /\ net' \in Seq(Bytes)
  BY <1>1, <1>2, WireFacts, ConcatProperties
<1>5. delivered = SubSeq(sent', 1, d)
  <2>1. \A i \in 1 .. d : sent[i] \in Payloads /\ sent'[i] = sent[i] /\ sent'[i] \in Payloads
    BY <1>1, <1>3
  <2>2. /\ SubSeq(sent, 1, d) \in Seq(Payloads)
        /\ Len(SubSeq(sent, 1, d)) = IF 1 <= d THEN d - 1 + 1 ELSE 0
        /\ \A i \in 1 .. d - 1 + 1 : SubSeq(sent, 1, d)[i] = sent[1 + i - 1]
    BY <1>1, <2>1, SubSeqProperties
  <2>3. /\ SubSeq(sent', 1, d) \in Seq(Payloads)
        /\ Len(SubSeq(sent', 1, d)) = IF 1 <= d THEN d - 1 + 1 ELSE 0
        /\ \A i \in 1 .. d - 1 + 1 : SubSeq(sent', 1, d)[i] = sent'[1 + i - 1]
    BY <1>1, <2>1, SubSeqProperties
  <2>4. d - 1 + 1 = d /\ \A i \in 1 .. d : 1 + i - 1 = i
    BY <1>1
  <2> HIDE DEF d
  <2>5. Len(SubSeq(sent, 1, d)) = d /\ Len(SubSeq(sent', 1, d)) = d
    BY <1>1, <2>2, <2>3
  <2>6. \A i \in 1 .. d : SubSeq(sent, 1, d)[i] = SubSeq(sent', 1, d)[i]
    BY <2>1, <2>2, <2>3, <2>4
  <2>7. SubSeq(sent, 1, d) = SubSeq(sent', 1, d)
    BY <2>2, <2>3, <2>5, <2>6, SeqEqual
  <2> QED BY <1>1, <2>7
<1>6. Rest \in Seq(Payloads) /\ Rest' = Append(Rest, payload)
  <2> DEFINE r == SubSeq(sent, d + 1, n)
             q == SubSeq(sent', d + 1, n + 1)
  <2>1. \A i \in d + 1 .. n : sent[i] \in Payloads
    BY <1>1
  <2>2. r \in Seq(Payloads)
    BY <1>1, <2>1, SubSeqProperties
  <2>3. d + 1 \in 1 .. Len(sent') /\ n + 1 \in d + 1 .. Len(sent') /\ (n + 1) - 1 = n
    BY <1>1, <1>3
  <2>4. q = SubSeq(sent', d + 1, n) \o <<payload>>
    BY <1>3, <2>3, SubSeqRecursiveSecond
  <2>5. SubSeq(sent', d + 1, n) = r
    <3>1. \A i \in d + 1 .. n : sent'[i] = sent[i] /\ sent'[i] \in Payloads
      BY <1>1, <1>3
    <3> DEFINE b == SubSeq(sent', d + 1, n)
    <3>2. /\ r \in Seq(Payloads)
          /\ Len(r) = IF d + 1 <= n THEN n - (d + 1) + 1 ELSE 0
          /\ \A i \in 1 .. n - (d + 1) + 1 : r[i] = sent[(d + 1) + i - 1]
      BY <1>1, <2>1, SubSeqProperties
    <3>3. /\ b \in Seq(Payloads)
          /\ Len(b) = IF d + 1 <= n THEN n - (d + 1) + 1 ELSE 0
          /\ \A i \in 1 .. n - (d + 1) + 1 : b[i] = sent'[(d + 1) + i - 1]
      BY <1>1, <3>1, SubSeqProperties
    <3>4. \A i \in 1 .. n - (d + 1) + 1 : (d + 1) + i - 1 \in d + 1 .. n
      BY <1>1
    <3>5. \A i \in 1 .. n - (d + 1) + 1 : b[i] = r[i]
      BY <3>1, <3>2, <3>3, <3>4
    <3>6. d + 1 <= n \/ n - (d + 1) + 1 = 0
      BY <1>1
    <3>7. ~(d + 1 <= n) => {i \in 1 .. 0 : TRUE} = {}
      OBVIOUS
    <3> HIDE DEF b, r
    <3>8. Len(b) = Len(r) /\ \A i \in 1 .. Len(b) : b[i] = r[i]
      <4>1. CASE d + 1 <= n
        BY <3>2, <3>3, <3>5, <4>1
      <4>2. CASE ~(d + 1 <= n)
        BY <3>2, <3>3, <4>2
      <4> QED BY <4>1, <4>2
    <3>9. b = r
      BY <3>2, <3>3, <3>8, SeqEqual
    <3> QED BY <3>9 DEF b
  <2>6. Rest = r /\ Rest' = q
    BY <1>2, <1>3 DEF Rest
  <2> HIDE DEF r, q
  <2>7. Append(r, payload) = r \o <<payload>>
    BY <2>2, AppendIsConcat
  <2> QED BY <2>2, <2>4, <2>5, <2>6, <2>7
<1>7. tail' \o net' = Stream(Rest')
  <2>1. tail \o net = Stream(Rest)
    BY <1>1 DEF StreamInv
  <2>2. Stream(Rest') = (tail \o net) \o Wire(payload)
    BY <1>6, <2>1, StreamAppend
  <2> QED BY <1>1, <1>2, <1>4, <2>2, BytesAssociate
<1>8. TailIsPartOfOneFrame'
  <2>1. CASE d < n
    <3>1. Waits(Len(sent[d + 1]), Len(tail)) /\ d + 1 \in 1 .. n
      BY <1>1, <2>1 DEF StreamInv, TailIsPartOfOneFrame
    <3>2. sent'[d + 1] = sent[d + 1]
      BY <1>3, <3>1
    <3> QED BY <1>2, <3>1, <3>2 DEF TailIsPartOfOneFrame, Waits
  <2>2. CASE d = n
    <3>1. tail = <<>> /\ Len(<<>>) = 0
      BY <1>1, <2>2, NothingLeft
    <3>2. Len(payload) \in Nat /\ PrefixBytes \in Nat \ {0}
      BY WireFacts, StreamAssumption
    <3>3. Waits(Len(payload), 0)
      BY <3>2 DEF Waits
    <3>4. sent'[d + 1] = payload
      BY <1>3, <2>2
    <3> QED BY <1>2, <3>1, <3>3, <3>4 DEF TailIsPartOfOneFrame, Waits
  <2> QED BY <1>1, <2>1, <2>2
<1>9. d \in 0 .. Len(sent')
  BY <1>1, <1>3
<1> QED BY <1>1, <1>2, <1>3, <1>4, <1>5, <1>7, <1>8, <1>9 DEF StreamInv

\* What one read does: it hands over the frames that it completed, or it ends
\* the connection at a frame that cannot be decoded.
LEMMA ReadOutcome ==
  ASSUME StreamInv, NEW n \in 1 .. Len(net), Read(n)
  PROVE  \/ /\ StreamInv' /\ open /\ ~open' /\ sent' = sent /\ delivered' = delivered
            /\ \E bad \in Len(delivered) + 1 .. Len(sent) :
                 /\ sent[bad] \notin Decodable
                 /\ \A i \in Len(delivered) + 1 .. bad - 1 : sent[i] \in Decodable
         \/ /\ StreamInv' /\ open /\ open' /\ sent' = sent
            /\ Len(delivered') \in Len(delivered) .. Len(sent)
            /\ delivered' = SubSeq(sent, 1, Len(delivered'))
            /\ \A i \in Len(delivered) + 1 .. Len(delivered') : sent[i] \in Decodable
<1> DEFINE s == Len(sent)
           d == Len(delivered)
           buffer == tail \o SubSeq(net, 1, n)
           rest == SubSeq(net, n + 1, Len(net))
           result == DecodeStream(buffer)
<1>1. /\ sent \in Seq(Payloads) /\ net \in Seq(Bytes) /\ tail \in Seq(Bytes) /\ open = TRUE
      /\ s \in Nat /\ d \in 0 .. s /\ delivered = SubSeq(sent, 1, d)
      /\ tail \o net = Stream(Rest) /\ Len(net) \in Nat
  BY DEF StreamInv, Read
<1>2. /\ net' = rest /\ open' = result.ok /\ delivered' = delivered \o result.frames
      /\ tail' = IF result.ok THEN SubSeq(buffer, result.consumed + 1, Len(buffer)) ELSE <<>>
      /\ sent' = sent
  BY DEF Read
<1>3. /\ buffer \in Seq(Bytes) /\ rest \in Seq(Bytes) /\ buffer \o rest = Stream(Rest)
  <2> DEFINE a == SubSeq(net, 1, n)
  <2>1. /\ \A i \in 1 .. n : net[i] \in Bytes
        /\ \A i \in n + 1 .. Len(net) : net[i] \in Bytes
    BY <1>1
  <2>2. a \in Seq(Bytes) /\ rest \in Seq(Bytes)
    BY <1>1, <2>1, SubSeqProperties
  <2>3. a \o rest = net
    <3>1. 1 \in 1 .. Len(net) + 1 /\ n \in 1 - 1 .. Len(net) /\ Len(net) \in n .. Len(net)
      BY <1>1
    <3>2. SubSeq(net, 1, n) \o SubSeq(net, n + 1, Len(net)) = SubSeq(net, 1, Len(net))
      BY <1>1, <3>1, ConcatAdjacentSubSeq
    <3> QED BY <1>1, <3>2, SubSeqFull
  <2> HIDE DEF a, rest
  <2>4. (tail \o a) \o rest = tail \o net
    BY <1>1, <2>2, <2>3, BytesAssociate
  <2>5. tail \o a \in Seq(Bytes)
    BY <1>1, <2>2, ConcatProperties
  <2> QED BY <1>1, <2>2, <2>4, <2>5 DEF a
<1> HIDE DEF rest, buffer
<1> DEFINE ps == Rest
<1>4. /\ ps \in Seq(Payloads) /\ Len(ps) = s - d
      /\ \A i \in 1 .. s - d : ps[i] = sent[d + i]
  <2>1. 0 \in 0 .. s - d
    BY <1>1
  <2> QED BY <1>1, <2>1, CutRest DEF Rest
<1> HIDE DEF ps
<1>5. FramesFrom(ps, buffer, 0, result)
  BY <1>3, <1>4, DecodeGivesFrames DEF ps
<1> HIDE DEF result
<1>6. ASSUME result = DecodeError,
             NEW bad \in 0 + 1 .. Len(ps), ps[bad] \notin Decodable,
             \A i \in 0 + 1 .. bad - 1 : ps[i] \in Decodable
      PROVE  /\ StreamInv' /\ open /\ ~open' /\ sent' = sent /\ delivered' = delivered
             /\ \E worst \in Len(delivered) + 1 .. Len(sent) :
                  /\ sent[worst] \notin Decodable
                  /\ \A i \in Len(delivered) + 1 .. worst - 1 : sent[i] \in Decodable
  <2>1. result.ok = FALSE /\ result.frames = <<>>
    BY <1>6 DEF DecodeError
  <2>2. open' = FALSE /\ tail' = <<>> /\ net' = rest
    BY <1>2, <2>1
  <2>3. delivered' = delivered
    <3>1. delivered \in Seq(Payloads)
      <4>1. \A i \in 1 .. d : sent[i] \in Payloads
        BY <1>1
      <4>2. SubSeq(sent, 1, d) \in Seq(Payloads)
        BY <1>1, <4>1, SubSeqProperties
      <4> QED BY <1>1, <4>2
    <3> QED BY <1>2, <2>1, <3>1, ConcatEmptySeq
  <2>4. <<>> \in Seq(Bytes)
    OBVIOUS
  <2>5. StreamInv'
    BY <1>1, <1>2, <1>3, <2>2, <2>3, <2>4 DEF StreamInv, TailIsPartOfOneFrame
  <2>6. d + bad \in d + 1 .. s /\ sent[d + bad] = ps[bad]
    BY <1>1, <1>4
  <2>7. \A i \in d + 1 .. (d + bad) - 1 : sent[i] \in Decodable
    <3> SUFFICES ASSUME NEW i \in d + 1 .. (d + bad) - 1 PROVE sent[i] \in Decodable
      OBVIOUS
    <3>1. i - d \in 0 + 1 .. bad - 1 /\ i - d \in 1 .. s - d /\ d + (i - d) = i
      BY <1>1, <1>4
    <3> QED BY <1>4, <1>6, <3>1
  <2> QED BY <1>1, <1>2, <1>6, <2>2, <2>3, <2>5, <2>6, <2>7
<1>7. ASSUME NEW m \in 0 .. Len(ps),
             result = [ok |-> TRUE, frames |-> SubSeq(ps, 0 + 1, m), consumed |-> Pos(ps, m)],
             \A i \in 0 + 1 .. m : ps[i] \in Decodable,
             Pos(ps, m) <= Len(buffer),
             m < Len(ps) => Waits(Len(ps[m + 1]), Len(buffer) - Pos(ps, m))
      PROVE  /\ StreamInv' /\ open /\ open' /\ sent' = sent
             /\ Len(delivered') \in Len(delivered) .. Len(sent)
             /\ delivered' = SubSeq(sent, 1, Len(delivered'))
             /\ \A i \in Len(delivered) + 1 .. Len(delivered') : sent[i] \in Decodable
  <2> DEFINE a == Stream(SubSeq(ps, 1, m))
             b == Stream(SubSeq(ps, m + 1, Len(ps)))
  <2>0. m \in 0 .. s - d /\ m \in Nat /\ d + m \in 0 .. s
    BY <1>1, <1>4
  <2>1. /\ open' = TRUE /\ net' = rest /\ delivered' = delivered \o SubSeq(ps, 1, m)
        /\ tail' = SubSeq(buffer, Len(a) + 1, Len(buffer))
    <3>1. result.ok /\ result.frames = SubSeq(ps, 1, m) /\ result.consumed = Pos(ps, m)
      BY <1>7
    <3>2. result.consumed = Len(a)
      BY <3>1 DEF Pos
    <3> HIDE DEF a, b
    <3> QED
      BY <1>2, <3>1, <3>2
  <2>2. /\ SubSeq(ps, 1, m) \in Seq(Payloads)
        /\ SubSeq(ps, m + 1, Len(ps)) = SubSeq(sent, (d + m) + 1, s)
        /\ SubSeq(sent, 1, d) \o SubSeq(ps, 1, m) = SubSeq(sent, 1, d + m)
    <3> DEFINE r == SubSeq(sent, d + 1, s)
    <3>1. ps = r
      BY DEF ps, Rest
    <3>2. /\ SubSeq(r, 1, m) \in Seq(Payloads)
          /\ SubSeq(r, m + 1, Len(r)) = SubSeq(sent, (d + m) + 1, s)
          /\ SubSeq(sent, 1, d) \o SubSeq(r, 1, m) = SubSeq(sent, 1, d + m)
      <4>1. sent \in Seq(Payloads) /\ d \in 0 .. Len(sent) /\ m \in 0 .. Len(sent) - d
        BY <1>1, <2>0
      <4> HIDE DEF d
      <4> QED BY <4>1, CutRest
    <3> QED BY <3>1, <3>2
  <2>3. delivered' = SubSeq(sent, 1, d + m)
    BY <1>1, <2>1, <2>2
  <2>4. Len(delivered') = d + m
    <3>1. 0 \in 0 .. s - (d + m)
      BY <1>1, <2>0
    <3> QED BY <1>1, <2>0, <2>3, <3>1, CutRest
  <2>5. /\ SubSeq(ps, m + 1, Len(ps)) \in Seq(Payloads)
        /\ ps = SubSeq(ps, 1, m) \o SubSeq(ps, m + 1, Len(ps))
    <3>1. \A i \in m + 1 .. Len(ps) : ps[i] \in Payloads
      BY <1>4, <2>0
    <3>2. SubSeq(ps, m + 1, Len(ps)) \in Seq(Payloads)
      BY <1>4, <2>0, <3>1, SubSeqProperties
    <3>3. 1 \in 1 .. Len(ps) + 1 /\ m \in 1 - 1 .. Len(ps) /\ Len(ps) \in m .. Len(ps)
      BY <1>1, <1>4, <2>0
    <3>4. SubSeq(ps, 1, m) \o SubSeq(ps, m + 1, Len(ps)) = SubSeq(ps, 1, Len(ps))
      BY <1>4, <3>3, ConcatAdjacentSubSeq
    <3> QED BY <1>4, <3>2, <3>4, SubSeqFull
  <2>6. a \in Seq(Bytes) /\ b \in Seq(Bytes) /\ buffer \o rest = a \o b
    <3>1. Stream(ps) = a \o b
      BY <2>2, <2>5, StreamSplit
    <3>2. a \in Seq(Bytes) /\ b \in Seq(Bytes)
      BY <2>2, <2>5, StreamBytes
    <3> QED BY <1>3, <3>1, <3>2 DEF ps
  <2>7. Len(a) = Pos(ps, m)
    BY DEF Pos
  <2>8. b = Stream(Rest')
    BY <1>2, <2>2, <2>4 DEF Rest
  <2> HIDE DEF a, b
  <2>9. /\ tail' \in Seq(Bytes) /\ Len(tail') = Len(buffer) - Pos(ps, m)
        /\ tail' \o net' = Stream(Rest')
    <3> DEFINE kept == SubSeq(buffer, Len(a) + 1, Len(buffer))
    <3>1. Len(a) <= Len(buffer)
      BY <1>7, <2>7
    <3>2. /\ kept \in Seq(Bytes) /\ Len(kept) = Len(buffer) - Len(a)
          /\ kept \o rest = b
      BY <1>3, <2>6, <3>1, CutBytes
    <3>3. tail' = kept /\ net' = rest
      BY <2>1
    <3> HIDE DEF kept
    <3> QED BY <2>7, <2>8, <3>2, <3>3
  <2>10. TailIsPartOfOneFrame'
    <3> SUFFICES ASSUME d + m < s
                 PROVE  Waits(Len(sent[(d + m) + 1]), Len(tail'))
      BY <1>2, <2>4 DEF TailIsPartOfOneFrame, Waits
    <3>1. m < Len(ps) /\ m + 1 \in 1 .. s - d /\ d + (m + 1) = (d + m) + 1
      BY <1>1, <1>4, <2>0
    <3>2. ps[m + 1] = sent[(d + m) + 1]
      BY <1>4, <3>1
    <3> QED BY <1>7, <2>9, <3>1, <3>2
  <2>11. Len(delivered') \in 0 .. Len(sent') /\ Len(delivered') \in d .. s
    BY <1>1, <1>2, <2>0, <2>4
  <2>12. StreamInv'
    BY <1>1, <1>2, <1>3, <2>1, <2>3, <2>4, <2>9, <2>10, <2>11 DEF StreamInv
  <2>13. \A i \in d + 1 .. d + m : sent[i] \in Decodable
    <3> SUFFICES ASSUME NEW i \in d + 1 .. d + m PROVE sent[i] \in Decodable
      OBVIOUS
    <3>1. i - d \in 0 + 1 .. m /\ i - d \in 1 .. s - d /\ d + (i - d) = i
      BY <1>1, <2>0
    <3> QED BY <1>4, <1>7, <3>1
  <2> QED BY <1>1, <1>2, <2>1, <2>3, <2>4, <2>11, <2>12, <2>13
<1> QED BY <1>5, <1>6, <1>7 DEF FramesFrom

LEMMA StreamStep == StreamInv /\ [Next]_vars => StreamInv'
<1> SUFFICES ASSUME StreamInv, [Next]_vars PROVE StreamInv'
  OBVIOUS
<1>1. ASSUME NEW payload \in Payloads, Send(payload) PROVE StreamInv'
  BY <1>1, SendKeepsStream
<1>2. ASSUME NEW n \in 1 .. Len(net), Read(n) PROVE StreamInv'
  BY <1>2, ReadOutcome
<1>3. CASE UNCHANGED vars
  <2>1. Rest' = Rest /\ (TailIsPartOfOneFrame' <=> TailIsPartOfOneFrame)
    BY <1>3 DEF vars, Rest, TailIsPartOfOneFrame, Waits
  <2> QED BY <1>3, <2>1 DEF StreamInv, vars
<1> QED BY <1>1, <1>2, <1>3 DEF Next, SomeRead

\* A stream is at least as long as its first frame.
LEMMA FirstFrameFits ==
  ASSUME NEW ps \in Seq(Payloads), Len(ps) >= 1
  PROVE  Len(Stream(ps)) >= PrefixBytes + Len(ps[1])
<1> DEFINE n == Len(ps)
<1>0. n \in Nat /\ 1 \in 1 .. n /\ PrefixBytes \in Nat \ {0} /\ ps[1] \in Payloads
  BY StreamAssumption
<1>1. /\ \A i \in 1 .. 1 : ps[i] \in Payloads
      /\ \A i \in 1 + 1 .. n : ps[i] \in Payloads
  BY <1>0
<1>2. SubSeq(ps, 1, 1) \in Seq(Payloads) /\ SubSeq(ps, 1 + 1, n) \in Seq(Payloads)
  BY <1>0, <1>1, SubSeqProperties
<1>3. SubSeq(ps, 1, 1) \o SubSeq(ps, 1 + 1, n) = ps
  <2>1. 1 \in 1 .. n + 1 /\ 1 \in 1 - 1 .. n /\ n \in 1 .. n
    BY <1>0
  <2>2. SubSeq(ps, 1, 1) \o SubSeq(ps, 1 + 1, n) = SubSeq(ps, 1, n)
    BY <2>1, ConcatAdjacentSubSeq
  <2> QED BY <2>2, SubSeqFull
<1> DEFINE a == Stream(SubSeq(ps, 1, 1))
           b == Stream(SubSeq(ps, 1 + 1, n))
<1>4. a \in Seq(Bytes) /\ b \in Seq(Bytes) /\ Stream(ps) = a \o b
  BY <1>2, <1>3, StreamBytes, StreamSplit
<1>5. Len(a) = PrefixBytes + Len(ps[1]) /\ Len(ps[1]) \in Nat
  <2>1. Pos(ps, 1) = Pos(ps, 1 - 1) + PrefixBytes + Len(ps[1]) /\ Pos(ps, 0) = 0
    BY <1>0, PosFacts
  <2>2. Len(a) = Pos(ps, 1) /\ Len(ps[1]) \in Nat
    BY <1>0, WireFacts DEF Pos
  <2> QED BY <1>0, <2>1, <2>2
<1> HIDE DEF a, b
<1>6. Len(a \o b) = Len(a) + Len(b) /\ Len(a) \in Nat /\ Len(b) \in Nat
  BY <1>4
<1> QED BY <1>4, <1>5, <1>6

LEMMA StreamInvShowsNothingLost == StreamInv => NothingLost
<1> SUFFICES ASSUME StreamInv PROVE NothingLost
  OBVIOUS
<1> DEFINE s == Len(sent)
           d == Len(delivered)
<1>1. /\ sent \in Seq(Payloads) /\ net \in Seq(Bytes) /\ tail \in Seq(Bytes)
      /\ s \in Nat /\ d \in 0 .. s /\ delivered = SubSeq(sent, 1, d)
  BY DEF StreamInv
<1>2. open => tail \o net = Stream(SubSeq(sent, d + 1, s))
  BY DEF StreamInv, Rest
<1>3. PrefixBytes \in Nat \ {0} /\ MaxFrameBytes \in Nat /\ Len(<<>>) = 0
  BY StreamAssumption
<1>4. ASSUME open, net = <<>> PROVE delivered = sent
  <2>1. CASE d = s
    BY <1>1, <2>1, SubSeqFull
  <2>2. CASE d < s
    <3>1. Rest \in Seq(Payloads) /\ Len(Rest) = s - d
      <4>1. sent \in Seq(Payloads) /\ d \in 0 .. Len(sent) /\ 0 \in 0 .. Len(sent) - d
        BY <1>1
      <4> QED BY <4>1, CutRest DEF Rest
    <3>2. Len(Rest) >= 1
      BY <1>1, <2>2, <3>1
    <3>3. tail = Stream(Rest)
      <4>1. tail \o net = tail
        BY <1>1, <1>4, ConcatEmptySeq
      <4> QED BY <1>4, <4>1 DEF StreamInv
    <3> DEFINE k == d + 1
    <3>4. Waits(Len(sent[k]), Len(tail)) /\ k \in 1 .. s
      BY <1>1, <1>4, <2>2 DEF StreamInv, TailIsPartOfOneFrame
    <3>5. Len(tail) >= PrefixBytes + Len(sent[k])
      <4>1. Rest[1] = sent[k] /\ 1 \in 1 .. Len(Rest)
        <5>1. sent \in Seq(Payloads) /\ d \in 0 .. Len(sent) /\ 0 \in 0 .. Len(sent) - d
              /\ 1 \in 1 .. Len(sent) - d
          BY <1>1, <2>2
        <5> QED BY <3>1, <5>1, CutRest DEF Rest
      <4>2. Len(Stream(Rest)) >= PrefixBytes + Len(Rest[1])
        BY <3>1, <3>2, FirstFrameFits
      <4> QED BY <3>3, <4>1, <4>2
    <3>6. Len(sent[k]) \in Nat /\ Len(tail) \in Nat
      <4>1. sent[k] \in Payloads
        BY <1>1, <3>4
      <4> QED BY <1>1, <4>1, WireFacts
    <3> QED BY <1>3, <3>4, <3>5, <3>6 DEF Waits
  <2> QED BY <1>1, <2>1, <2>2
<1>5. Len(tail) < PrefixBytes + MaxFrameBytes
  <2>1. CASE ~open
    BY <1>3, <2>1 DEF StreamInv
  <2>2. CASE open /\ d = s
    BY <1>3, <2>2, NothingLeft
  <2>3. CASE open /\ d < s
    <3>1. Waits(Len(sent[d + 1]), Len(tail)) /\ d + 1 \in 1 .. s
      BY <1>1, <2>3 DEF StreamInv, TailIsPartOfOneFrame
    <3>2. sent[d + 1] \in Payloads
      BY <1>1, <3>1
    <3>3. Len(sent[d + 1]) \in Nat /\ Len(tail) \in Nat
      BY <1>1, <3>2, WireFacts
    <3> QED BY <1>3, <3>1, <3>3 DEF Waits
  <2> QED BY <1>1, <2>1, <2>2, <2>3
<1>6. d <= s
  BY <1>1
<1> QED BY <1>1, <1>2, <1>4, <1>5, <1>6 DEF NothingLost

\* decode_stream's loop with the tail its callers keep: wherever the reads cut
\* the stream, the frames handed over are the first ones sent, the bytes of the
\* others are in the tail and on the way, no whole frame stays in the tail, and
\* the tail never holds more than one frame of the largest size with its prefix.
THEOREM NothingLostHolds == Spec => []NothingLost
<1>1. Init => StreamInv
  BY InitStream
<1>2. StreamInv /\ [Next]_vars => StreamInv'
  BY StreamStep
<1>3. StreamInv => NothingLost
  BY StreamInvShowsNothingLost
<1> QED BY <1>1, <1>2, <1>3, PTL DEF Spec

\* decode_stream gives its caller a channel: frames once each, in the order of
\* sending, until the first that cannot be decoded.  Writing a frame is sending
\* it, a read that completes frames receives them, one that meets a frame which
\* decode refuses fails, and one that completes none changes nothing.
THEOREM ImplementsChannelHolds == Spec => ImplementsChannel
<1>1. Init => StreamInv
  BY InitStream
<1>2. StreamInv /\ [Next]_vars => StreamInv'
  BY StreamStep
<1>3. Init => Channel!Init
  <2>1. Len(<<>>) = 0
    OBVIOUS
  <2> QED BY <2>1 DEF Init, Channel!Init
<1>4. StreamInv /\ [Next]_vars => [Channel!Next]_(Channel!vars)
  <2> SUFFICES ASSUME StreamInv, [Next]_vars PROVE [Channel!Next]_(Channel!vars)
    OBVIOUS
  <2>1. ASSUME NEW payload \in Payloads, Send(payload)
        PROVE  Channel!Next
    <3>1. Channel!Send(payload)
      BY <2>1 DEF Send, Channel!Send
    <3> QED BY <3>1 DEF Channel!Next
  <2>2. ASSUME NEW n \in 1 .. Len(net), Read(n)
        PROVE  [Channel!Next]_(Channel!vars)
    <3>1. CASE /\ open /\ ~open' /\ sent' = sent /\ delivered' = delivered
               /\ \E bad \in Len(delivered) + 1 .. Len(sent) :
                    /\ sent[bad] \notin Decodable
                    /\ \A i \in Len(delivered) + 1 .. bad - 1 : sent[i] \in Decodable
      <4>1. open' = FALSE
        <5>1. open' \in BOOLEAN
          BY <1>2 DEF StreamInv
        <5> QED BY <3>1, <5>1
      <4>2. Channel!Fail
        BY <3>1, <4>1 DEF Channel!Fail
      <4> QED BY <4>2 DEF Channel!Next
    <3>2. CASE /\ open /\ open' /\ sent' = sent
               /\ Len(delivered') \in Len(delivered) .. Len(sent)
               /\ delivered' = SubSeq(sent, 1, Len(delivered'))
               /\ \A i \in Len(delivered) + 1 .. Len(delivered') : sent[i] \in Decodable
      <4>1. open \in BOOLEAN /\ open' \in BOOLEAN
        BY <1>2 DEF StreamInv
      <4>2. open' = open
        BY <3>2, <4>1
      <4>3. Len(delivered) \in Nat /\ Len(sent) \in Nat
        BY DEF StreamInv
      <4>4. CASE Len(delivered') = Len(delivered)
        BY <3>2, <4>2, <4>4 DEF Channel!vars
      <4>5. CASE Len(delivered') # Len(delivered)
        <5>1. Len(delivered') \in Len(delivered) + 1 .. Len(sent)
          BY <3>2, <4>3, <4>5
        <5>2. Channel!Receive(Len(delivered'))
          BY <3>2, <4>2 DEF Channel!Receive
        <5> QED BY <5>1, <5>2 DEF Channel!Next
      <4> QED BY <4>4, <4>5
    <3> QED BY <2>2, <3>1, <3>2, ReadOutcome
  <2>3. CASE UNCHANGED vars
    BY <2>3 DEF vars, Channel!vars
  <2> QED BY <2>1, <2>2, <2>3 DEF Next, SomeRead
<1> QED BY <1>1, <1>2, <1>3, <1>4, PTL DEF Spec, ImplementsChannel, Channel!Spec
=============================================================================
