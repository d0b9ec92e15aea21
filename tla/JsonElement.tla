---------------------------- MODULE JsonElement -----------------------------
(***************************************************************************)
(* The element tree of libutils/json.c and the operations on it.  struct   *)
(* JsonElement_ is a record: name is propertyName, children the Seq of a   *)
(* container, value the text of a primitive.  Creation and destruction of  *)
(* elements are those of records.                                          *)
(***************************************************************************)
EXTENDS Sequence, Text

CONSTANT JSON_INT_BITS       \* width of int, 32 in the code

NoName == <<NUL>>

JsonPrimitive(type, value) == [type |-> type, name |-> NoName, value |-> value, children |-> <<>>]
JsonContainer(type) == [type |-> type, name |-> NoName, value |-> <<>>, children |-> <<>>]

JsonIsContainer(e) == e.type \in {"object", "array"}

\* JSON_CONTAINER_TYPE_* and JSON_PRIMITIVE_TYPE_*
JsonGetType(e) == CASE e.type = "object" -> 3 [] e.type = "array" -> 4 [] e.type = "string" -> 5
                    [] e.type = "integer" -> 6 [] e.type = "real" -> 7 [] e.type = "bool" -> 8
                    [] OTHER -> 9
JsonGetElementType(e) == IF JsonIsContainer(e) THEN 1 ELSE 2

JsonLength(e) == IF JsonIsContainer(e) THEN Len(e.children) ELSE Len(e.value)

-----------------------------------------------------------------------------
\* SeqLookup and SeqIndexOf by propertyName; 0 when there is none.
IndexInParent(o, key) ==
  LET found == {i \in DOMAIN o.children : o.children[i].name = key}
  IN  IF found = {} THEN 0 ELSE CHOOSE i \in found : \A j \in found : i <= j

JsonObjectRemoveKey(o, key) ==
  IF IndexInParent(o, key) = 0 THEN o
  ELSE [o EXCEPT !.children = RemoveAt(@, IndexInParent(o, key))]

JsonObjectAppendElement(o, key, e) ==
  [JsonObjectRemoveKey(o, key) EXCEPT !.children = Append(@, [e EXCEPT !.name = key])]

JsonArrayAppendElement(a, e) == [a EXCEPT !.children = Append(@, e)]

JsonArrayExtend(a, b) == [a EXCEPT !.children = @ \o b.children]

JsonArrayRemoveRange(a, start, end) ==
  [a EXCEPT !.children = SubSeq(@, 1, start) \o SubSeq(@, end + 2, Len(@))]

JsonContainerReverse(a) == [a EXCEPT !.children = Reverse(@)]

-----------------------------------------------------------------------------
\* Conversion of a long to int.
ToInt(n) == ((n + 2^(JSON_INT_BITS - 1)) % 2^JSON_INT_BITS) - 2^(JSON_INT_BITS - 1)

\* JsonIntegerCreate(JsonPrimitiveGetAsInteger(primitive))
IntegerCopy(value) ==
  Decimal(ToInt(IF Head(value) = "-" THEN 0 - Value(Tail(value)) ELSE Value(value)))

\* JsonRealCreate prints four decimals; no real here has more than that.
RealCopy(value) ==
  LET dot == CHOOSE i \in DOMAIN value : value[i] = "."
  IN  value \o [i \in 1..(4 - (Len(value) - dot)) |-> "0"]

\* Primitives are made again from their values, children of an object get
\* their keys by the append, and the copy itself has no name.
RECURSIVE JsonCopy(_)
JsonCopy(e) ==
  CASE e.type = "integer" -> JsonPrimitive("integer", IntegerCopy(e.value))
    [] e.type = "real"    -> JsonPrimitive("real", RealCopy(e.value))
    [] e.type = "array"   -> FoldLeft(LAMBDA c, k : JsonArrayAppendElement(c, JsonCopy(k)),
                                      JsonContainer("array"), e.children)
    [] e.type = "object"  -> FoldLeft(LAMBDA c, k : JsonObjectAppendElement(c, k.name, JsonCopy(k)),
                                      JsonContainer("object"), e.children)
    [] OTHER              -> [e EXCEPT !.name = NoName]

\* The first difference that is not 0, or 0.
FirstNonZero(s) == IF \E i \in DOMAIN s : s[i] # 0
                   THEN s[CHOOSE i \in DOMAIN s : s[i] # 0 /\ \A j \in 1..(i - 1) : s[j] = 0]
                   ELSE 0

\* Primitives are compared by their text alone.
RECURSIVE JsonCompare(_, _)
JsonCompare(a, b) ==
  IF JsonGetElementType(a) # JsonGetElementType(b)
  THEN JsonGetElementType(a) - JsonGetElementType(b)
  ELSE IF ~JsonIsContainer(a) THEN (IF a.value = b.value THEN 0 ELSE 1)
  ELSE IF a.type # b.type THEN JsonGetType(a) - JsonGetType(b)
  ELSE IF JsonLength(a) # JsonLength(b) THEN JsonLength(a) - JsonLength(b)
  ELSE IF a.type = "array"
       THEN FirstNonZero([i \in DOMAIN a.children |-> JsonCompare(a.children[i], b.children[i])])
       ELSE FirstNonZero([i \in DOMAIN a.children |->
              LET j == IndexInParent(b, a.children[i].name)
              IN  IF j = 0 THEN 1 ELSE JsonCompare(a.children[i], b.children[j])])

\* Two arrays are joined; array elements enter an object under their index.
JsonArrayMergeArray(a, b) ==
  [JsonContainer("array") EXCEPT !.children =
     [i \in DOMAIN a.children |-> JsonCopy(a.children[i])]
       \o [i \in DOMAIN b.children |-> JsonCopy(b.children[i])]]
JsonObjectMergeArray(a, b) ==
  FoldLeft(LAMBDA r, i : JsonObjectAppendElement(r, Decimal(i - 1), JsonCopy(b.children[i])),
           JsonCopy(a), [i \in DOMAIN b.children |-> i])
JsonObjectMergeObject(a, b) ==
  FoldLeft(LAMBDA r, k : JsonObjectAppendElement(r, k.name, JsonCopy(k)), JsonCopy(a), b.children)

JsonMerge(a, b) ==
  CASE a.type = "array"  /\ b.type = "object" -> JsonObjectMergeArray(b, a)
    [] a.type = "array"  /\ b.type = "array"  -> JsonArrayMergeArray(a, b)
    [] a.type = "object" /\ b.type = "object" -> JsonObjectMergeObject(a, b)
    [] a.type = "object" /\ b.type = "array"  -> JsonObjectMergeArray(a, b)

\* Mutant: objects under the same key are replaced, not merged.
MergeDeepFlat(base, extra) ==
  FoldLeft(LAMBDA r, k : JsonObjectAppendElement(r, k.name, JsonCopy(k)), base, extra.children)

\* One round of the loop of JsonObjectMergeDeepInplace per child of extra: what
\* is merged in place keeps its position.
RECURSIVE JsonObjectMergeDeepInplace(_, _)
JsonObjectMergeDeepInplace(base, extra) ==
  LET merge(r, k) ==
        LET i == IndexInParent(r, k.name)
        IN  IF i = 0 THEN JsonObjectAppendElement(r, k.name, JsonCopy(k))
            ELSE IF r.children[i].type = "object" /\ k.type = "object"
                 THEN [r EXCEPT !.children[i] = JsonObjectMergeDeepInplace(@, k)]
            ELSE IF r.children[i].type = "array" /\ k.type = "array"
                 THEN [r EXCEPT !.children[i] = JsonArrayExtend(@, JsonCopy(k))]
            ELSE JsonObjectAppendElement(r, k.name, JsonCopy(k))
  IN  FoldLeft(merge, base, extra.children)

\* A path of keys and indices; NoElement when it leads nowhere.  No index is
\* empty: that is numeric and no number, on which the process exits.
NoElement == JsonPrimitive("none", <<>>)
RECURSIVE JsonSelect(_, _)
JsonSelect(e, indices) ==
  IF indices = <<>> THEN e
  ELSE IF ~JsonIsContainer(e) THEN NoElement
  ELSE LET index == Head(indices)
           i == IF e.type = "object" THEN IndexInParent(e, index)
                ELSE IF index # <<>> /\ \A j \in DOMAIN index : isdigit(index[j])
                     THEN Value(index) + 1 ELSE 0
       IN  IF i \in DOMAIN e.children THEN JsonSelect(e.children[i], Tail(indices)) ELSE NoElement

\* Visitors exist for the types in visit and refuse the elements in stop;
\* a walk is what they were called with and whether it went on to the end.
RECURSIVE JsonWalk(_, _, _)
JsonWalk(e, visit, stop) ==
  LET seen == IF e.type \in visit THEN <<e>> ELSE <<>>
      next(w, k) == IF ~w.going THEN w
                    ELSE LET v == JsonWalk(k, visit, stop)
                         IN  [going |-> v.going, seen |-> w.seen \o v.seen]
  IN  IF e.type \in visit /\ e \in stop THEN [going |-> FALSE, seen |-> seen]
      ELSE FoldLeft(next, [going |-> TRUE, seen |-> seen], e.children)

\* JsonObjectWrite and JsonObjectWriteCompact sort the children of every
\* object they write by key.
NameRank(kids) == [k \in Range(kids) |-> Cardinality({j \in Range(kids) : strcmp(j.name, k.name) < 0})]
RECURSIVE Written(_)
Written(e) ==
  LET kids == IF e.type = "object" THEN SortBy(e.children, NameRank(e.children)) ELSE e.children
  IN  [e EXCEPT !.children = [i \in DOMAIN kids |-> Written(kids[i])]]
=============================================================================
