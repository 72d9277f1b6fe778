------------------------------- MODULE Filter -------------------------------
(* Query conditions of dao/gormDB (query.go, filter.go): a request structure
   whose fields carry filter tags is turned into scopes, the scopes are applied
   to a query one after the other, and the query is run.  The table holds every
   row of two nullable number columns, and a nullable text column.

   SQL is external: three-valued logic, IN over an empty list is IN (NULL),
   and LIKE with backslash as its escape.                                   *)
EXTENDS Integers, Sequences, FiniteSets, SequencesExt

CONSTANTS Texts,      \* texts of the text column, as sequences of characters
          TextValues, \* texts a request may ask for
          DefaultSize,\* the page size of a request that names none
          Pagings,    \* the paging fields a request may carry
          Null,       \* SQL's NULL, and Go's nil where a value is wanted
          NilList,    \* a nil slice
          Nothing     \* a scope that adds no condition

VARIABLES field,      \* the request: one tagged field, its paging, where that comes
          scopes,     \* the scopes still to apply
          where,      \* the positions of the rows the conditions so far leave
          page,       \* [limit, offset] of the query; -1: none
          total,      \* Paging.Total; -1: not counted
          state       \* "build", "found" or "panic"

vars == <<field, scopes, where, page, total, state>>

Nums == 0 .. 1
NumOps == {"OpEq", "OpNeq", "OpLt", "OpLte", "OpGt", "OpGte"}
ListOps == {"OpIn", "OpNotIn"}
LikeOps == {"OpLike", "OpNotLike"}
Modes == {"if", "always", "nullable"}

(* The table: every pair of numbers or NULLs, with a text beside. *)
Cell(n) == IF n \in Nums THEN n ELSE Null
Table == [i \in 1 .. 9 |-> [a |-> Cell((i - 1) \div 3), b |-> Cell((i - 1) % 3),
                           t |-> IF i \in DOMAIN Texts THEN Texts[i] ELSE Null]]

(* A field's value: a nil pointer, or a value; a list may be nil or allocated. *)
Value(k, v) == [nil |-> FALSE, kind |-> k, val |-> v]
NilPtr(k) == [nil |-> TRUE, kind |-> k, val |-> Null]
Values(op) == CASE op \in NumOps -> {Value("num", n) : n \in Nums} \cup {NilPtr("num")}
                [] op \in ListOps -> {Value("list", l) : l \in {NilList} \cup {<<>>, <<0>>, <<0, 1>>}} \cup {NilPtr("list")}
                [] OTHER -> {Value("text", s) : s \in TextValues} \cup {NilPtr("text")}

Blank == ""
Columns(op) == IF op \in LikeOps THEN {<<"t">>} ELSE {<<"a">>, <<"a", "b">>, <<"a", Blank>>, <<Blank, "b">>}

---------------------------------------------------------------------------
(* SQL's three truth values of a comparison with column value x. *)
Truth(x, v, holds) == IF x = Null \/ v = Null THEN "unknown" ELSE IF holds THEN "true" ELSE "false"
Not(t) == CASE t = "true" -> "false" [] t = "false" -> "true" [] OTHER -> t
Or(ts) == IF "true" \in ts THEN "true" ELSE IF "unknown" \in ts THEN "unknown" ELSE "false"

RECURSIVE Like(_, _)
Like(p, t) ==
    IF p = <<>> THEN t = <<>>
    ELSE IF Head(p) = "%" THEN Like(Tail(p), t) \/ (t # <<>> /\ Like(p, Tail(t)))
    ELSE IF t = <<>> THEN FALSE
    ELSE IF Head(p) = "\\" THEN Len(p) > 1 /\ p[2] = Head(t) /\ Like(Tail(Tail(p)), Tail(t))
    ELSE Head(p) \in {"_", Head(t)} /\ Like(Tail(p), Tail(t))

Escaped(s, ch) == FlattenSeq([i \in DOMAIN s |-> IF s[i] = ch THEN <<"\\", ch>> ELSE <<s[i]>>])

(* Mutant: the backslashes are escaped last. *)
escapeLikeLast(s) == Escaped(Escaped(Escaped(s, "%"), "_"), "\\")

escapeLike(s) == Escaped(Escaped(Escaped(s, "\\"), "%"), "_")

isEmptySlice(v) == v \in {NilList, <<>>}
InList(x, l) == IF l = Null \/ isEmptySlice(l) THEN "unknown" ELSE Truth(x, 0, \E i \in DOMAIN l : l[i] = x)
HasText(x, v) == Truth(x, v, x # Null /\ v # Null /\ Like(<<"%">> \o escapeLike(v) \o <<"%">>, x))
Compare(op, x, v) ==
    LET c == x # Null /\ v # Null
    IN Truth(x, v, CASE op = "OpEq" -> x = v [] op = "OpNeq" -> x # v
                     [] op = "OpLt" -> c /\ x < v [] op = "OpLte" -> c /\ x <= v
                     [] op = "OpGt" -> c /\ x > v [] op = "OpGte" -> c /\ x >= v)

(* The clause (col, op, v) on a row whose column holds x. *)
Clause(op, x, v) == CASE op = "OpIn" -> InList(x, v)
                      [] op = "OpNotIn" -> Not(InList(x, v))
                      [] op = "OpLike" -> HasText(x, v)
                      [] op = "OpNotLike" -> Not(HasText(x, v))
                      [] OTHER -> Compare(op, x, v)

(* What a scope adds to the query: nothing, or a truth value for each row. *)
Each(f(_)) == [i \in DOMAIN Table |-> f(Table[i])]

applyOp(c, op, v) ==
    IF op \in ListOps /\ isEmptySlice(v) THEN Nothing
    ELSE LET on(r) == Clause(op, r[c], v) IN Each(on)

Always(c, op, v) ==
    IF op = "OpIn" /\ isEmptySlice(v)
    THEN LET on(r) == Clause(op, r[c], v) IN Each(on)
    ELSE applyOp(c, op, v)

zeroOf(k) == CASE k = "num" -> 0 [] k = "list" -> NilList [] k = "text" -> <<>>
IsZero(x) == x.nil \/ x.val = zeroOf(x.kind)

WhereIf(c, op, x) == IF IsZero(x) THEN Nothing ELSE applyOp(c, op, x.val)

WhereAlways(c, op, x) == Always(c, op, IF x.nil THEN zeroOf(x.kind) ELSE x.val)

WhereNullable(c, op, x) ==
    IF x.nil
    THEN LET on(r) == IF (r[c] = Null) = (op # "OpNeq") THEN "true" ELSE "false" IN Each(on)
    ELSE WhereIf(c, op, x)

(* multiColOR: one operator and value over several columns.  The first column
   opens the group, the others are added to it; a blank first column leaves no
   group to add to, and the next one is a nil dereference. *)
Panics == [i \in DOMAIN Table |-> "panic"]
multiColOR(cols, op, mode, x) ==
    LET One(c) == IF mode = "always" THEN Always(c, op, x.val) ELSE applyOp(c, op, x.val)
        parts == {One(cols[i]) : i \in {j \in DOMAIN cols : cols[j] # Blank}} \ {Nothing}
    IN IF mode = "if" /\ IsZero(x) THEN Nothing
       ELSE IF parts = {} THEN Nothing
       ELSE IF cols[1] = Blank THEN Panics
       ELSE [i \in DOMAIN Table |-> Or({p[i] : p \in parts})]

buildScopeFromTag(f) ==
    IF Len(f.cols) > 1 THEN multiColOR(f.cols, f.op, f.mode, f.val)
    ELSE CASE f.mode = "always" -> WhereAlways(f.cols[1], f.op, f.val)
           [] f.mode = "nullable" -> WhereNullable(f.cols[1], f.op, f.val)
           [] OTHER -> WhereIf(f.cols[1], f.op, f.val)

---------------------------------------------------------------------------
(* A request: a filter field and a second condition around the paging field. *)
Fields == UNION {[cols : Columns(op), op : {op}, mode : Modes, val : Values(op),
                    paging : Pagings, first : BOOLEAN] : op \in NumOps \cup ListOps \cup LikeOps}


(* collectFilterScopes and walk: conditions first, paging last, wherever the
   structure has its paging field. *)
collectFilterScopes(f) == <<"where", "paging">>

Init == /\ field \in Fields
        /\ scopes = collectFilterScopes(field)
        /\ where = DOMAIN Table
        /\ page = [limit |-> -1, offset |-> -1]
        /\ total = -1
        /\ state = "build"

TypeOK == /\ field.val \in Values(field.op)
          /\ field.cols \in Columns(field.op)
          /\ scopes \in Seq({"where", "paging"})
          /\ where \subseteq DOMAIN Table
          /\ page \in [limit : Int, offset : Int]
          /\ total \in -1 .. Len(Table)
          /\ state \in {"build", "found", "panic"}

Where ==
    /\ state = "build"
    /\ scopes # <<>> /\ Head(scopes) = "where"
    /\ LET c == buildScopeFromTag(field)
       IN /\ where' = IF c \in {Nothing, Panics} THEN where ELSE {i \in where : c[i] = "true"}
          /\ state' = IF c = Panics THEN "panic" ELSE state
    /\ scopes' = Tail(scopes)
    /\ UNCHANGED <<field, page, total>>

Offset(p, size) == (p - 1) * size

(* Paginate: count what the conditions so far leave, then limit and offset. *)
Paginate ==
    /\ state = "build"
    /\ scopes # <<>> /\ Head(scopes) = "paging"
    /\ total' = Cardinality(where)
    /\ LET p == field.paging
           size == IF p.size <= 0 THEN DefaultSize ELSE p.size
       IN page' = IF p.all THEN page
                  ELSE [limit |-> size, offset |-> Offset(IF p.page < 1 THEN 1 ELSE p.page, size)]
    /\ scopes' = Tail(scopes)
    /\ UNCHANGED <<field, where, state>>

(* The rows the query returns, in the order of the table. *)
Found == LET hits == SelectSeq([i \in DOMAIN Table |-> i], LAMBDA i : i \in where)
         IN IF page.limit = -1 THEN hits
            ELSE SubSeq(hits, page.offset + 1, IF page.offset + page.limit < Len(hits) THEN page.offset + page.limit ELSE Len(hits))

Find == /\ state = "build"
        /\ scopes = <<>>
        /\ state' = "found"
        /\ UNCHANGED <<field, scopes, where, page, total>>

Next == Where \/ Paginate \/ Find
Spec == Init /\ [][Next]_vars

---------------------------------------------------------------------------
(* What a tag asks of a row, without SQL: the comparison holds of a column that
   is not NULL, for some of the columns named. *)
Holds(op, x, v) ==
    /\ x # Null
    /\ CASE op = "OpEq" -> x = v [] op = "OpNeq" -> x # v
         [] op = "OpLt" -> x < v [] op = "OpLte" -> x <= v
         [] op = "OpGt" -> x > v [] op = "OpGte" -> x >= v
         [] op = "OpIn" -> v # NilList /\ x \in ToSet(v)
         [] op = "OpNotIn" -> v = NilList \/ x \notin ToSet(v)
         [] op = "OpLike" -> \E i \in 0 .. Len(x) : i + Len(v) <= Len(x) /\ SubSeq(x, i + 1, i + Len(v)) = v
         [] op = "OpNotLike" -> ~\E i \in 0 .. Len(x) : i + Len(v) <= Len(x) /\ SubSeq(x, i + 1, i + Len(v)) = v

Wanted(f, r, c) ==
    LET v == IF f.val.nil THEN zeroOf(f.val.kind) ELSE f.val.val
    IN CASE f.mode = "nullable" /\ f.val.nil -> (r[c] = Null) = (f.op # "OpNeq")
         [] f.mode # "always" /\ IsZero(f.val) -> TRUE
         [] f.op \in ListOps /\ isEmptySlice(v) -> f.op = "OpNotIn" \/ f.mode # "always"
         [] OTHER -> Holds(f.op, r[c], v)

Matching(f) == {i \in DOMAIN Table : \E k \in DOMAIN f.cols : f.cols[k] # Blank /\ Wanted(f, Table[i], f.cols[k])}

(* Fields on several columns whose mode means something else than on one: a
   nil pointer is compared as NULL, and in nullable mode a zero value is not
   skipped; a blank first column panics. *)
SeveralColumnsDiffer(f) ==
    /\ Len(f.cols) > 1
    /\ \/ f.mode # "if" /\ f.val.nil
       \/ f.mode = "nullable" /\ IsZero(f.val)
       \/ f.cols[1] = Blank


(* Total counts every row the request matches, not only those of its page and
   not those a condition added after the count would have dropped. *)
TotalIsMatching ==
    state = "found" /\ ~SeveralColumnsDiffer(field) => total = Cardinality(Matching(field))
=============================================================================
