------------------------------ MODULE Database ------------------------------
(***************************************************************************)
(* The query functions of runtime/database.c: the workers share one SQLite *)
(* connection; rows come back as JSON text, written into a buffer of the   *)
(* arena, and payloads are JSON text that is searched for each column.     *)
(*                                                                         *)
(* Text is a sequence of symbols, one per byte: "Q" is the double quote,   *)
(* and stands for every character with a two-byte escape, "ctl" is a       *)
(* control character, which is escaped as \u0001.  Values are strings.     *)
(* SQLite is external: a statement's step is atomic, a scan goes by rowid. *)
(***************************************************************************)
EXTENDS Naturals, FiniteSets, SequencesExt

CONSTANTS Workers,
          Letters,     \* the characters that are written as they are
          Names,       \* the columns of the table, in order; the first is the key
          Payloads,    \* what may be written: sequences of [name, text]
          Existing,    \* the rows there are before the first call
          Wanted,      \* keys that are asked for
          MaxRows,     \* bound: rows of the table
          MaxQueries,  \* bound: calls made
          InitialCap,  \* first buffer of an array (8192)
          Reserve,     \* what a row is taken to need at most (2048)
          FixedCap     \* buffer of a single row (4096)

Char == Letters \cup {"Q", "\\", "ctl"}
Text == Seq(Char)

(* There is a column for the key; keys are unique; an array begins with    *)
(* room for a row.                                                         *)
ASSUME DbAssumption ==
  /\ {"u", "0", "1", "{", "}", "[", "]", ":", ","} \subseteq Letters
  /\ Letters \cap {"Q", "\\", "ctl", "NUL"} = {}
  /\ Names \in Seq(Text) /\ Names # <<>>
  /\ Payloads \subseteq Seq([name : Text, text : Text])
  /\ Existing \in Seq([1 .. Len(Names) -> Text]) /\ Len(Existing) <= MaxRows
  /\ \A i, j \in 1 .. Len(Existing) : Existing[i][1] = Existing[j][1] => i = j
  /\ Wanted \subseteq Text
  /\ {MaxRows, MaxQueries, InitialCap, Reserve, FixedCap} \subseteq Nat
  /\ 3 <= Reserve /\ Reserve <= InitialCap /\ 3 <= FixedCap

VARIABLES
  table,    \* rowid -> row: its texts by column, or NoRow
  changes,  \* sqlite3_changes of the connection
  dbPc,     \* worker: "idle", "run", "changes", "scan"
  query,    \* worker: the call it is in
  out,      \* worker: the buffer of a read: [text, cap]
  cursor,   \* worker: rowid the scan has come to
  result,   \* worker: what its last call returned
  hit,      \* history, worker: its statement changed a row
  raced,    \* history, worker: another's write ran or failed before it read changes
  seen,     \* history, worker: the rows its read passed
  asked     \* history: calls made

dbVars == <<table, changes, dbPc, query, out, cursor, result, hit, raced, seen, asked>>

NoRow == <<>>
NoQuery == [op |-> "none", id |-> <<>>, fields |-> <<>>]
NoBuffer == [text |-> <<>>, cap |-> 1]
Columns == 1 .. Len(Names)
RowIds == 1 .. MaxRows
Rows == {r \in RowIds : table[r] # NoRow}

DbTypeOK ==
  /\ \A r \in RowIds : table[r] = NoRow \/ Len(table[r]) = Len(Names)
  /\ changes \in {0, 1}
  /\ dbPc \in [Workers -> {"idle", "run", "changes", "scan"}]
  /\ \A w \in Workers : cursor[w] \in 0 .. MaxRows /\ (dbPc[w] = "idle" <=> query[w] = NoQuery)

DbInit ==
  /\ table = [r \in RowIds |-> IF r <= Len(Existing) THEN Existing[r] ELSE NoRow]
  /\ changes = 0
  /\ dbPc = [w \in Workers |-> "idle"] /\ query = [w \in Workers |-> NoQuery]
  /\ out = [w \in Workers |-> NoBuffer]
  /\ cursor = [w \in Workers |-> 0] /\ result = [w \in Workers |-> <<>>]
  /\ hit = [w \in Workers |-> FALSE] /\ raced = [w \in Workers |-> FALSE]
  /\ seen = [w \in Workers |-> <<>>] /\ asked = 0

-----------------------------------------------------------------------------
(* Rows as JSON: orbit_db_append_json_escaped and orbit_db_row_to_json.    *)
(* `text' is what has been written, `end' the length it must not pass.     *)

Encode(c) ==
  CASE c \in {"Q", "\\"} -> <<"\\", c>>
    [] c = "ctl" -> <<"\\", "u", "0", "0", "0", "1">>
    [] OTHER -> <<c>>

(* snprintf ends a \u escape that fits exactly with a zero, one too early. *)
Put(text, end, e) ==
  text \o IF Len(e) = 6 /\ Len(text) + 6 = end THEN SubSeq(e, 1, 5) \o <<"NUL">> ELSE e

(* One character; the first that does not fit ends the loop. *)
PutChar(end, acc, c) ==
  IF acc.stop \/ Len(acc.text) + Len(Encode(c)) > end
  THEN [acc EXCEPT !.stop = TRUE]
  ELSE [acc EXCEPT !.text = Put(@, end, Encode(c))]

AppendEscaped(text, end, s) ==
  LET body == FoldLeft(LAMBDA acc, c : PutChar(end, acc, c),
                       [text |-> Append(text, "Q"), stop |-> FALSE], s).text
  IN  IF Len(text) >= end THEN text
      ELSE IF Len(body) < end THEN Append(body, "Q") ELSE body

PutColumn(row, end, acc, i) ==
  LET sep == IF i > 1 THEN Append(acc.text, ",") ELSE acc.text
      named == AppendEscaped(sep, end, Names[i])
  IN  IF acc.stop \/ Len(acc.text) >= end THEN [acc EXCEPT !.stop = TRUE]
      ELSE IF Len(sep) >= end THEN [text |-> sep, stop |-> TRUE]
      ELSE IF Len(named) + 1 >= end THEN [text |-> named, stop |-> TRUE]
      ELSE [text |-> AppendEscaped(Append(named, ":"), end, row[i]), stop |-> FALSE]

(* Mutant: all of the room is used. *)
EndOfAll(max) == max

EndOf(max) == max - 2

RowToJson(row, max) ==
  LET end == EndOf(max)
      body == FoldLeft(LAMBDA acc, i : PutColumn(row, end, acc, i),
                       [text |-> <<"{">>, stop |-> FALSE], [i \in Columns |-> i]).text
  IN  IF max < 3 THEN <<>> ELSE IF Len(body) < end THEN Append(body, "}") ELSE body

(* What a C string holds: the bytes before the first zero. *)
CString(text) ==
  LET zero == SelectInSeq(text, LAMBDA x : x = "NUL")
  IN  IF zero = 0 THEN text ELSE SubSeq(text, 1, zero - 1)

-----------------------------------------------------------------------------
(* A payload as the client writes it, and orbit_json_get_value on it. *)

Quoted(s) == <<"Q">> \o FlattenSeq([i \in 1 .. Len(s) |-> Encode(s[i])]) \o <<"Q">>
Joined(parts) ==
  FlattenSeq([i \in 1 .. Len(parts) |-> IF i > 1 THEN <<",">> \o parts[i] ELSE parts[i]])
Json(fields) ==
  <<"{">> \o Joined([i \in 1 .. Len(fields) |->
                       Quoted(fields[i].name) \o <<":">> \o Quoted(fields[i].text)]) \o <<"}">>

(* strstr: where pat begins in s, 0 for nowhere. *)
Strstr(s, pat) ==
  SelectInSubSeq([i \in 1 .. Len(s) + 1 - Len(pat) |-> SubSeq(s, i, i + Len(pat) - 1)], 1,
                 Len(s) + 1 - Len(pat), LAMBDA x : x = pat)

(* The backslashes before j are an odd number. *)
Escaped(s, from, j) ==
  (j - Max({i \in from - 1 .. j - 1 : i = from - 1 \/ s[i] # "\\"})) % 2 = 0
ClosingQuotes(s, from) == {j \in from .. Len(s) : s[j] = "Q" /\ ~Escaped(s, from, j)}

(* Mutant: an escape is copied as it stands. *)
UnescapedVerbatim(c) == <<"\\", c>>

(* The character an escape stands for; \uXXXX keeps its backslash. *)
Unescaped(c) == IF c \in {"Q", "\\"} THEN <<c>> ELSE <<"\\", c>>

Decode(raw) ==
  FoldLeft(LAMBDA acc, c :
             IF acc.escape THEN [text |-> acc.text \o Unescaped(c), escape |-> FALSE]
             ELSE IF c = "\\" THEN [acc EXCEPT !.escape = TRUE]
             ELSE [acc EXCEPT !.text = Append(@, c)],
           [text |-> <<>>, escape |-> FALSE], raw).text

(* The value of a column: <<>> for NULL, <<text>> otherwise.  The first    *)
(* place where the quoted name stands decides, key or not.                 *)
GetValue(json, name) ==
  LET at == Strstr(json, <<"Q">> \o name \o <<"Q">>)
      colon == at + Len(name) + 2
      ends == ClosingQuotes(json, colon + 2)
  IN  IF at = 0 \/ json[colon] # ":" \/ ends = {} THEN <<>>
      ELSE <<Decode(SubSeq(json, colon + 2, Min(ends) - 1))>>

-----------------------------------------------------------------------------
(* The calls. *)

Row(fields) ==
  [i \in Columns |-> LET v == GetValue(Json(fields), Names[i])
                     IN  IF v = <<>> THEN <<>> ELSE v[1]]

Updated(row, fields) ==
  [i \in Columns |-> LET v == GetValue(Json(fields), Names[i])
                     IN  IF i = 1 \/ v = <<>> THEN row[i] ELSE v[1]]

WithKey(id) == {r \in Rows : table[r][1] = id}
NextRowId == IF Rows = {} THEN 1 ELSE Max(Rows) + 1

Begin(w, q) ==
  /\ dbPc[w] = "idle" /\ asked < MaxQueries
  /\ asked' = asked + 1
  /\ query' = [query EXCEPT ![w] = q]
  /\ dbPc' = [dbPc EXCEPT ![w] = "run"]
  /\ hit' = [hit EXCEPT ![w] = FALSE] /\ raced' = [raced EXCEPT ![w] = FALSE]
  /\ seen' = [seen EXCEPT ![w] = <<>>]
  /\ out' = [out EXCEPT ![w] = NoBuffer] /\ result' = [result EXCEPT ![w] = <<>>]
  /\ UNCHANGED <<table, changes, cursor>>

Return(w, text) ==
  /\ result' = [result EXCEPT ![w] = text]
  /\ dbPc' = [dbPc EXCEPT ![w] = "idle"]
  /\ query' = [query EXCEPT ![w] = NoQuery]

Nothing(op) ==
  CASE op = "get" -> <<>> [] op = "all" -> <<"[", "]">> [] OTHER -> <<"false">>

(* The query budget is spent (KYNX_DB_QUERY_CHECK), the statement cannot   *)
(* be prepared, or a read is ended by the progress handler.                *)
Refused(w) ==
  /\ dbPc[w] = "run"
  /\ Return(w, Nothing(query[w].op))
  /\ UNCHANGED <<table, changes, out, cursor, hit, raced, seen, asked>>

(* A writing statement ran or failed: changes is set for everyone. *)
Ran(w, n) ==
  /\ changes' = n
  /\ hit' = [hit EXCEPT ![w] = n > 0]
  /\ raced' = [v \in Workers |-> raced[v] \/ (v # w /\ dbPc[v] = "changes")]

(* orbit_db_add; the key is unique. *)
Add(w) ==
  LET row == Row(query[w].fields)
      r == NextRowId
  IN  /\ dbPc[w] = "run" /\ query[w].op = "add" /\ r \in RowIds
      /\ IF WithKey(row[1]) = {}
         THEN /\ table' = [table EXCEPT ![r] = row]
              /\ Ran(w, 1) /\ Return(w, <<"true">>)
         ELSE /\ UNCHANGED table
              /\ Ran(w, 0) /\ Return(w, <<"false">>)
      /\ UNCHANGED <<out, cursor, seen, asked>>

(* The columns the payload has, but for the key. *)
ColumnsSet(fields) == {i \in Columns : i > 1 /\ GetValue(Json(fields), Names[i]) # <<>>}

(* The step of a write fails: the progress handler ends it, the database   *)
(* is busy, out of memory or disk.  The statement is rolled back, and      *)
(* counts no change.                                                       *)
WriteFails(w) ==
  /\ dbPc[w] = "run"
  /\ \/ query[w].op \in {"add", "del"}
     \/ query[w].op = "set" /\ ColumnsSet(query[w].fields) # {}
  /\ Ran(w, 0) /\ Return(w, <<"false">>)
  /\ UNCHANGED <<table, out, cursor, seen, asked>>

(* orbit_db_set; a payload without columns to write runs no statement. *)
Set(w) ==
  LET rows == WithKey(query[w].id)
  IN  /\ dbPc[w] = "run" /\ query[w].op = "set"
      /\ IF ColumnsSet(query[w].fields) = {}
         THEN Return(w, <<"false">>) /\ UNCHANGED <<table, changes, hit, raced>>
         ELSE /\ table' = [r \in RowIds |-> IF r \in rows THEN Updated(table[r], query[w].fields)
                                            ELSE table[r]]
              /\ Ran(w, Cardinality(rows))
              /\ dbPc' = [dbPc EXCEPT ![w] = "changes"]
              /\ UNCHANGED <<query, result>>
      /\ UNCHANGED <<out, cursor, seen, asked>>

Del(w) ==
  LET rows == WithKey(query[w].id)
  IN  /\ dbPc[w] = "run" /\ query[w].op = "del"
      /\ table' = [r \in RowIds |-> IF r \in rows THEN NoRow ELSE table[r]]
      /\ Ran(w, Cardinality(rows))
      /\ dbPc' = [dbPc EXCEPT ![w] = "changes"]
      /\ UNCHANGED <<query, out, cursor, result, seen, asked>>

(* Mutant: a statement that ran is taken for one that changed a row. *)
ChangedAlways == TRUE

Changed == changes > 0

ReadChanges(w) ==
  /\ dbPc[w] = "changes"
  /\ Return(w, IF Changed THEN <<"true">> ELSE <<"false">>)
  /\ UNCHANGED <<table, changes, out, cursor, hit, raced, seen, asked>>

(* orbit_db_get and orbit_db_first. *)
Get(w) ==
  LET rows == WithKey(query[w].id)
      text == RowToJson(table[Min(rows)], FixedCap)
  IN  /\ dbPc[w] = "run" /\ query[w].op = "get"
      /\ IF rows = {} THEN Return(w, <<>>) /\ UNCHANGED <<out, seen>>
         ELSE /\ out' = [out EXCEPT ![w] = [text |-> text, cap |-> FixedCap]]
              /\ seen' = [seen EXCEPT ![w] = <<table[Min(rows)]>>]
              /\ Return(w, CString(text))
      /\ UNCHANGED <<table, changes, cursor, hit, raced, asked>>

(* orbit_db_all, orbit_db_where_bound and orbit_db_order. *)
ScanBegin(w) ==
  /\ dbPc[w] = "run" /\ query[w].op = "all"
  /\ out' = [out EXCEPT ![w] = [text |-> <<"[">>, cap |-> InitialCap]]
  /\ cursor' = [cursor EXCEPT ![w] = 0]
  /\ dbPc' = [dbPc EXCEPT ![w] = "scan"]
  /\ UNCHANGED <<table, changes, query, result, hit, raced, seen, asked>>

(* Mutant: half of the reserve is asked for. *)
GrownForHalf(b) == IF Len(b.text) + Reserve \div 2 > b.cap THEN 2 * b.cap ELSE b.cap

Grown(b) == IF Len(b.text) + Reserve > b.cap THEN 2 * b.cap ELSE b.cap

Ahead(w) == {r \in Rows : r > cursor[w]}

ScanRow(w) ==
  LET r == Min(Ahead(w))
      cap == Grown(out[w])
      before == IF seen[w] = <<>> THEN out[w].text ELSE Append(out[w].text, ",")
      room == cap - Len(before)
  IN  /\ dbPc[w] = "scan" /\ Ahead(w) # {}
      /\ out' = [out EXCEPT ![w] = [text |-> before \o RowToJson(table[r], room), cap |-> cap]]
      /\ cursor' = [cursor EXCEPT ![w] = r]
      /\ seen' = [seen EXCEPT ![w] = Append(@, table[r])]
      /\ UNCHANGED <<table, changes, dbPc, query, result, hit, raced, asked>>

(* The scan is over, is ended by the progress handler, or gets no larger   *)
(* buffer: the array is closed all the same.                               *)
ScanEnd(w) ==
  /\ dbPc[w] = "scan"
  /\ out' = [out EXCEPT ![w].text = Append(@, "]")]
  /\ Return(w, CString(out'[w].text))
  /\ UNCHANGED <<table, changes, cursor, hit, raced, seen, asked>>

Queries ==
  [op : {"add"}, id : {<<>>}, fields : Payloads]
    \cup [op : {"set"}, id : Wanted, fields : Payloads]
    \cup [op : {"get", "del"}, id : Wanted, fields : {<<>>}]
    \cup [op : {"all"}, id : {<<>>}, fields : {<<>>}]

DbNext == \E w \in Workers :
  \/ \E q \in Queries : Begin(w, q)
  \/ Refused(w) \/ WriteFails(w) \/ Add(w) \/ Set(w) \/ Del(w) \/ ReadChanges(w)
  \/ Get(w) \/ ScanBegin(w) \/ ScanRow(w) \/ ScanEnd(w)

DbSpec == DbInit /\ [][DbNext]_dbVars

-----------------------------------------------------------------------------
WholeRow(row) == Json([i \in Columns |-> [name |-> Names[i], text |-> row[i]]])

(* No read writes past its buffer, the terminating zero included, however  *)
(* rows, escapes, separators and the growth of the buffer fall together.   *)
WithinBuffer == \A w \in Workers : Len(out[w].text) + 1 <= out[w].cap

(* With it, that a row always has all of its columns. *)
DbInv == DbTypeOK /\ WithinBuffer

(* A read answers with the rows it passed, each of them whole, as long as  *)
(* each is three bytes shorter than the reserve a row is taken to need     *)
(* (two shorter than the buffer of a single row): rows of any number, in   *)
(* buffers that grew, with other workers writing meanwhile.                *)
RowsWhole ==
  \A w \in Workers : dbPc[w] = "idle" =>
    /\ seen[w] # <<>> /\ Head(result[w]) = "{" /\ Len(WholeRow(seen[w][1])) <= FixedCap - 2
         => result[w] = WholeRow(seen[w][1])
    /\ seen[w] # <<>> /\ Head(result[w]) = "["
         /\ (\A i \in 1 .. Len(seen[w]) : Len(WholeRow(seen[w][i])) <= Reserve - 3)
         => result[w] = <<"[">> \o Joined([i \in 1 .. Len(seen[w]) |-> WholeRow(seen[w][i])])
                          \o <<"]">>

(* "Returns true iff a row actually changed": an update or a deletion      *)
(* answers true exactly when it changed a row, unless another worker's     *)
(* write ran, or failed, between this one's and its look at                *)
(* sqlite3_changes.                                                        *)
TrueIffChanged ==
  \A w \in Workers : dbPc[w] = "idle" /\ result[w] \in {<<"true">>, <<"false">>} /\ ~raced[w]
    => (result[w] = <<"true">> <=> hit[w])

(* Each column gets the text the payload has for it, escapes decoded, or   *)
(* nothing when it has none: with the two exceptions of a text that is, or *)
(* ends in a quote and, the name of a later column, which hides that       *)
(* column, and of control characters, which stay in their escaped form.    *)
Hides(text, name) ==
  text = name \/ IsSuffix(<<"Q">> \o name, text)
Hidden(fields, i) == \E j \in 1 .. i - 1 : Hides(fields[j].text, fields[i].name)
PayloadFound ==
  \A w \in Workers : dbPc[w] # "idle" =>
    LET fields == query[w].fields
        given(n) == {i \in 1 .. Len(fields) : fields[i].name = n}
    IN  \A c \in Columns :
          LET v == GetValue(Json(fields), Names[c])
          IN  IF given(Names[c]) = {} THEN v = <<>>
              ELSE \A i \in given(Names[c]) :
                     v = <<fields[i].text>> \/ Hidden(fields, i) \/ "ctl" \in ToSet(fields[i].text)
=============================================================================
