--------------------------- MODULE JsonDocuments ----------------------------
(***************************************************************************)
(* Two JSON documents that are built, changed, merged, copied, walked and  *)
(* written through the operations of json.c, and an iterator on the first. *)
(* Containers inside a document are reached by pointers: the path of child *)
(* positions that leads to them.                                           *)
(***************************************************************************)
EXTENDS JsonElement

CONSTANTS JsonKeys,          \* keys: strings
          JsonPrimitives,    \* primitives that are added: <<type, text>>
          MAX_JSON_NODES     \* bound: elements of both documents together

VARIABLES doc,               \* the two documents
          it                 \* JsonIterator on the first, with what it returned

jsonVars == <<doc, it>>

Docs == 1..2
Other(d) == 3 - d

\* An iterator with the keys it returned, the keys of the document in their order
\* when it was made, and where it was when a write changed that order, or -1.
Iter(index, order) == [index |-> index, seen |-> <<>>, order |-> order, disturbed |-> -1]
NoIter == Iter(-1, <<>>)

Names(e) == [i \in DOMAIN e.children |-> e.children[i].name]

RECURSIVE Nodes(_)
Nodes(e) == FoldLeft(LAMBDA n, k : n + Nodes(k), 1, e.children)

RECURSIVE SubElement(_, _)
SubElement(e, path) == IF path = <<>> THEN e ELSE SubElement(e.children[Head(path)], Tail(path))

RECURSIVE WithSub(_, _, _)
WithSub(e, path, new) ==
  IF path = <<>> THEN new
  ELSE [e EXCEPT !.children[Head(path)] = WithSub(@, Tail(path), new)]

\* The root and the containers in it.
Containers(e) == {<<>>} \cup {<<i>> : i \in {i \in DOMAIN e.children : JsonIsContainer(e.children[i])}}

\* Bound: containers are put into the root, primitives anywhere.
NewElements(path) == {JsonPrimitive(p[1], p[2]) : p \in JsonPrimitives}
  \cup IF path = <<>> THEN {JsonContainer("object"), JsonContainer("array")} ELSE {}

-----------------------------------------------------------------------------
\* The element at path becomes new.  Nothing is said of an iterator on a
\* document that was changed, so it is dropped.
Change(d, path, new) ==
  /\ doc' = [doc EXCEPT ![d] = WithSub(@, path, new)]
  /\ it' = NoIter

AppendTo(d, path) ==
  LET c == SubElement(doc[d], path)
  IN  /\ Nodes(doc[1]) + Nodes(doc[2]) < MAX_JSON_NODES
      /\ \E e \in NewElements(path) :
            IF c.type = "array" THEN Change(d, path, JsonArrayAppendElement(c, e))
            ELSE \E key \in JsonKeys : Change(d, path, JsonObjectAppendElement(c, key, e))

RemoveFrom(d, path) ==
  LET c == SubElement(doc[d], path)
  IN  IF c.type = "object" THEN \E key \in JsonKeys : Change(d, path, JsonObjectRemoveKey(c, key))
      ELSE \E end \in 0..(Len(c.children) - 1) : \E start \in 0..end :
              Change(d, path, JsonArrayRemoveRange(c, start, end))

ReverseAt(d, path) ==
  /\ SubElement(doc[d], path).type = "array"
  /\ Change(d, path, JsonContainerReverse(SubElement(doc[d], path)))

\* The document loses the iterator's container with the root it replaces.
Replace(d, new) ==
  /\ Nodes(new) + Nodes(doc[Other(d)]) <= MAX_JSON_NODES
  /\ doc' = [doc EXCEPT ![d] = new]
  /\ it' = NoIter

\* JsonObjectDetachKey, and the element goes into the other document under
\* the name it still has.
JsonObjectDetachKey(d, key) ==
  LET i == IndexInParent(doc[d], key)
      o == doc[Other(d)]
  IN  /\ doc[d].type = "object" /\ i # 0
      /\ doc' = [doc EXCEPT ![d] = [@ EXCEPT !.children = RemoveAt(@, i)],
                            ![Other(d)] = IF o.type = "array"
                                          THEN JsonArrayAppendElement(o, doc[d].children[i])
                                          ELSE JsonObjectAppendElement(o, key, doc[d].children[i])]
      /\ it' = NoIter

MergeInto(d) == Replace(d, JsonMerge(doc[1], doc[2]))

MergeDeepInto(d) ==
  LET new == JsonObjectMergeDeepInplace(doc[d], doc[Other(d)])
  IN  /\ doc[1].type = "object" /\ doc[2].type = "object"
      /\ Nodes(new) + Nodes(doc[Other(d)]) <= MAX_JSON_NODES
      /\ Change(d, <<>>, new)

CopyInto(d) == Replace(d, JsonCopy(doc[Other(d)]))

\* Writing changes the order of what it is given as const, also under an iterator.
JsonWriteDoc(d) ==
  /\ doc' = [doc EXCEPT ![d] = Written(@)]
  /\ it' = IF it.index # -1 /\ it.disturbed = -1 /\ Names(doc'[1]) # Names(doc[1])
           THEN [it EXCEPT !.disturbed = it.index] ELSE it

\* Bound: iterations are tried while the other document is empty.
JsonIteratorInit ==
  /\ doc[2].children = <<>>
  /\ it' = Iter(0, Names(doc[1]))
  /\ UNCHANGED doc

\* NULL, and no progress, at the end.
JsonIteratorNextValue ==
  /\ doc[2].children = <<>>
  /\ it.index # -1 /\ it.index < JsonLength(doc[1])
  /\ it' = [it EXCEPT !.index = @ + 1, !.seen = Append(@, doc[1].children[it.index + 1].name)]
  /\ UNCHANGED doc

JsonDocInit ==
  /\ doc \in {<<JsonContainer("object"), JsonContainer("object")>>,
              <<JsonContainer("object"), JsonContainer("array")>>}
  /\ it = NoIter

JsonDocNext ==
  \/ \E d \in Docs : \E path \in Containers(doc[d]) :
        AppendTo(d, path) \/ RemoveFrom(d, path) \/ ReverseAt(d, path)
  \/ \E d \in Docs : MergeInto(d) \/ MergeDeepInto(d) \/ CopyInto(d) \/ JsonWriteDoc(d)
  \/ \E d \in Docs, key \in JsonKeys : JsonObjectDetachKey(d, key)
  \/ JsonIteratorInit \/ JsonIteratorNextValue

-----------------------------------------------------------------------------
\* What a document says: objects as functions, arrays as tuples.
RECURSIVE Meaning(_)
Meaning(e) ==
  CASE e.type = "object" -> <<"object", [key \in {k.name : k \in Range(e.children)} |->
                                Meaning(e.children[IndexInParent(e, key)])]>>
    [] e.type = "array"  -> <<"array", [i \in DOMAIN e.children |-> Meaning(e.children[i])]>>
    [] OTHER             -> <<"text", e.value>>

\* The deep merge of two objects as functions.
RECURSIVE MergedMeaning(_, _)
MergedMeaning(x, y) ==
  CASE x[1] = "object" /\ y[1] = "object" ->
         <<"object", [key \in DOMAIN x[2] \cup DOMAIN y[2] |->
             IF key \notin DOMAIN y[2] THEN x[2][key]
             ELSE IF key \notin DOMAIN x[2] THEN y[2][key]
             ELSE MergedMeaning(x[2][key], y[2][key])]>>
    [] x[1] = "array" /\ y[1] = "array" -> <<"array", x[2] \o y[2]>>
    [] OTHER -> y

\* A copy loses nothing when its numbers are ints and reals of four decimals.
RECURSIVE Copyable(_)
Copyable(e) ==
  /\ e.type = "integer" => IntegerCopy(e.value) = e.value
  /\ e.type = "real" => RealCopy(e.value) = e.value
  /\ \A k \in Range(e.children) : Copyable(k)

RECURSIVE KeysUnique(_)
KeysUnique(e) ==
  /\ e.type = "object" => \A i, j \in DOMAIN e.children :
                             i # j => e.children[i].name # e.children[j].name
  /\ \A k \in Range(e.children) : KeysUnique(k)

\* Merging is what the documents mean merged: keys of both, the second wins, and
\* the deep merge goes into objects and joins arrays at every level.
MergesExact(a, b) ==
  LET m == JsonMerge(a, b)
      copied(e, key) == LET k == JsonSelect(e, <<key>>) IN IF k = NoElement THEN k ELSE JsonCopy(k)
  IN  a.type = "object" /\ b.type = "object"
        => /\ Meaning(JsonObjectMergeDeepInplace(a, b))
                = MergedMeaning(Meaning(a), Meaning(JsonCopy(b)))
           /\ \A key \in JsonKeys :
                 JsonCompare(JsonSelect(m, <<key>>),
                             IF copied(b, key) # NoElement THEN copied(b, key) ELSE copied(a, key)) = 0

\* After any sequence of appends, removals, detachments and merges no object
\* has a key twice, and comparison tells exactly the documents apart that say
\* different things, whatever order their keys came in; a copy compares equal
\* when its numbers survive the conversions, and a merge is what the documents
\* mean merged.  An iteration returns the children by their places, every one once
\* in the order the document had, until a write changes that order; from there on
\* it goes on in the order of the keys, which no later write changes.
JsonDocumentsExact ==
  /\ \A d \in Docs : KeysUnique(doc[d])
  /\ (JsonCompare(doc[1], doc[2]) = 0) = (Meaning(doc[1]) = Meaning(doc[2]))
  /\ (JsonCompare(doc[2], doc[1]) = 0) = (Meaning(doc[1]) = Meaning(doc[2]))
  /\ \A d \in Docs : Copyable(doc[d]) => JsonCompare(JsonCopy(doc[d]), doc[d]) = 0
  /\ MergesExact(doc[1], doc[2])
  /\ it.seen = [i \in 1..Len(it.seen) |-> IF it.disturbed = -1 \/ i <= it.disturbed
                                         THEN it.order[i] ELSE Names(Written(doc[1]))[i]]
=============================================================================
