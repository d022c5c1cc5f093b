----------------------------- MODULE ResultRows -----------------------------
(***************************************************************************)
(* How a result set is decoded: the description of its columns (SQLDA and  *)
(* QRYDSC) and its rows (QRYDTA) of src/src/libdrda/fdoca.c, the           *)
(* conversions to text of convert.c, the byte order of util.c, and         *)
(* SQLFetch, SQLGetData and the display size of odbc.c.                    *)
(*                                                                         *)
(* The server writes a row as cells, the client reads bytes: pos is where  *)
(* the client reads, at where the server's next cell begins.  A cell is    *)
(* seen only from its own beginning; a client that reads anywhere else is  *)
(* lost, and the model ends there.                                         *)
(***************************************************************************)
EXTENDS Integers, Sequences

CONSTANTS
    Shapes,     \* columns of the server's result sets
    RowsOf(_), \* the rows a result set of given columns may have
    Null,       \* the value of a cell that is NULL
    Leftover,   \* what a byte of malloc()'s memory may add to a text
    Rooms,      \* bound: buffer sizes of SQLGetData
    MaxBound    \* bound: the last column that may be bound

(* A result set: its columns, its rows, and the server's byte order.  A    *)
(* column has its FD:OCA type, precision (of decimals only), scale, length *)
(* and the length of its name.  A value is an integer, for a decimal in    *)
(* units of its last digit, or a sequence of characters.                   *)
ColumnDesc == [type : STRING, precision : Nat, scale : Nat, length : Nat, name : Nat]

VARIABLES
    table,      \* the result set
    columns,    \* drda->sqlda->columns
    bound,      \* the columns with a bind_addr and a len_bind_addr
    phase,      \* "execute", "open", "row", "fetched", "lost" or "exit"
    row,        \* rows begun
    coln,       \* columns read of this row
    pos,        \* position in result_buf
    at,         \* where the server's next cell begins
    text, ind,  \* per bound column, the application's buffer and length
    got         \* the latest SQLGetData of this row

rvars == <<table, columns, bound, phase, row, coln, pos, at, text, ind, got>>

NoData == [col |-> 0]
Lesser(a, b) == IF a < b THEN a ELSE b
Prefix(t, n) == SubSeq(t, 1, Lesser(n, Len(t)))

-----------------------------------------------------------------------------
(* Types.                                                                  *)

fdoca_is_nullable(type) ==
    type \in {"0x21", "0x23", "0x31", "0x32", "0x33", "0x05", "0x03", "0x0f"}

fdoca_sizeof_length(type) ==
    CASE type = "0x33" -> 2 [] type = "0x32" -> 1 [] OTHER -> 0

drda_get_cardinal_type(type) ==
    CASE type = "0x23" -> "TIME"
      [] type = "0x21" -> "DATE"
      [] type = "0x0f" -> "DECIMAL"
      [] type \in {"0x30", "0x31", "0x32", "0x33"} -> "CHAR"
      [] type \in {"0x05", "0x04"} -> "SMALLINT"
      [] type \in {"0x03", "0x02"} -> "INT"
      [] OTHER -> "none"

Abs(n) == IF n < 0 THEN -n ELSE n
Tens[n \in Nat] == IF n = 0 THEN 1 ELSE 10 * Tens[n - 1]

(* A value that is not NULL: a number of two bytes, one of four, a decimal *)
(* of no more digits than its precision, or characters, as many as the     *)
(* column is long if its length does not come with the value.              *)
Fits(c, v) ==
    CASE drda_get_cardinal_type(c.type) = "SMALLINT" -> v \in Int /\ v >= -32768 /\ v < 32768
      [] drda_get_cardinal_type(c.type) = "INT" -> v \in Int
      [] drda_get_cardinal_type(c.type) = "DECIMAL" -> v \in Int /\ Abs(v) < Tens[c.precision]
      [] OTHER -> /\ v \in Seq(STRING)
                  /\ IF fdoca_sizeof_length(c.type) > 0 THEN Len(v) <= c.length
                     ELSE Len(v) = c.length

(* What servers send: of the types the client knows, decimals alone have a *)
(* precision, and there is no NULL in a column that is not nullable.       *)
ASSUME ShapesAssumption ==
    \A c \in Shapes :
        /\ c \in Seq(ColumnDesc)
        /\ \A i \in DOMAIN c :
              /\ c[i].scale <= c[i].precision
              /\ drda_get_cardinal_type(c[i].type) # "none" =>
                    (c[i].precision > 0 <=> drda_get_cardinal_type(c[i].type) = "DECIMAL")
              /\ drda_get_cardinal_type(c[i].type) = "SMALLINT" => c[i].length = 2
              /\ drda_get_cardinal_type(c[i].type) = "INT" => c[i].length = 4
        /\ \A rows \in RowsOf(c) :
              /\ rows \in Seq({rows[r] : r \in DOMAIN rows})
              /\ \A r \in DOMAIN rows : \A i \in DOMAIN c :
                    IF rows[r][i] = Null THEN fdoca_is_nullable(c[i].type)
                    ELSE Fits(c[i], rows[r][i])

ASSUME BuffersAssumption == Leftover \subseteq Seq(STRING) /\ Rooms \subseteq Nat

-----------------------------------------------------------------------------
(* Conversion to text.                                                     *)

Figures == <<"0", "1", "2", "3", "4", "5", "6", "7", "8", "9">>
Digits(n, w) == [i \in 1..w |-> Figures[((n \div Tens[w - i]) % 10) + 1]]
Width(n) == CHOOSE w \in 1..10 : n < Tens[w] /\ (w > 1 => n >= Tens[w - 1])
Decimal(n) == (IF n < 0 THEN <<"-">> ELSE <<>>) \o Digits(Abs(n), Width(Abs(n)))

\* A 16-bit signed integer
Int2(n) == ((n + 32768) % 65536) - 32768

(* Of a 4-byte integer two bytes are read, in the server's order: the high *)
(* half if the high bytes come first.                                      *)
TwoBytes(order, n) == IF order = "QTDSQLASC" THEN Int2(n \div 65536) ELSE Int2(n)

SkipZeros(t) ==
    LET Rest(k) == SubSeq(t, k, Len(t))
    IN  Rest(CHOOSE k \in 1..(Len(t) + 1) :
               (k <= Len(t) => t[k] # "0") /\ \A j \in 1..(k - 1) : t[j] = "0")

\* mutant: the point comes one digit early
PointEarly(digits, scale) ==
    Prefix(digits, Len(digits) - scale - 1) \o <<".">>
        \o SubSeq(digits, Len(digits) - scale, Len(digits))

\* The point follows digit number precision - scale
WithPoint(digits, scale) ==
    Prefix(digits, Len(digits) - scale) \o <<".">>
        \o SubSeq(digits, Len(digits) - scale + 1, Len(digits))

\* A packed decimal: an odd number of digits, a zero first if need be
PackedDigits(v, precision) == Digits(Abs(v), 2 * (precision \div 2) + 1)

(* The texts drda_convert_precision() may give: as many of the first       *)
(* digits as the precision says, without the sign.  If scale equals        *)
(* precision no point is placed, and a byte follows that nobody wrote.     *)
drda_convert_precision(col, v, destlen) ==
    LET digits == Prefix(PackedDigits(v, col.precision), col.precision)
        wholes == IF col.scale < col.precision THEN {WithPoint(digits, col.scale)}
                  ELSE {digits \o x : x \in Leftover}
    IN  {Prefix(SkipZeros(w), destlen) : w \in wholes}

\* Dates and times come as characters; destlen is ignored for integers
drda_convert(order, col, v, destlen) ==
    CASE drda_get_cardinal_type(col.fdoca_type) = "SMALLINT" -> {Decimal(Int2(v))}
      [] drda_get_cardinal_type(col.fdoca_type) = "INT" -> {Decimal(TwoBytes(order, v))}
      [] OTHER -> {Prefix(v, destlen)}

Converted(order, col, v, precise, otherwise) ==
    IF col.precision # 0 THEN drda_convert_precision(col, v, precise)
    ELSE drda_convert(order, col, v, otherwise)

-----------------------------------------------------------------------------
(* The layout of a row, as the server writes it.  A packed decimal has a   *)
(* nibble for each digit and one for the sign, in whole bytes.             *)

Indicator(type) == IF fdoca_is_nullable(type) THEN 1 ELSE 0

ServerLength(c, v) ==
    CASE drda_get_cardinal_type(c.type) = "DECIMAL" -> (c.precision \div 2) + 1
      [] fdoca_sizeof_length(c.type) > 0 -> Len(v)
      [] OTHER -> c.length

ServerSize(c, v) ==
    Indicator(c.type) +
        IF v = Null THEN 0 ELSE fdoca_sizeof_length(c.type) + ServerLength(c, v)

-----------------------------------------------------------------------------
RInit ==
    /\ \E s \in Shapes, o \in {"QTDSQLASC", "QTDSQLX86"} : \E r \in RowsOf(s) :
          table = [columns |-> s, rows |-> r, order |-> o]
    /\ bound \in SUBSET {i \in DOMAIN table.columns : i <= MaxBound}
    /\ columns = <<>>
    /\ phase = "execute"
    /\ row = 0 /\ coln = 0 /\ pos = 0 /\ at = 0
    /\ text = [i \in bound |-> <<"unset">>]
    /\ ind = [i \in bound |-> -1]
    /\ got = NoData

\* fdoca_read_sqlda(), into fresh columns
fdoca_read_sqlda ==
    [i \in DOMAIN table.columns |->
        LET c == table.columns[i] IN
        [precision |-> c.precision, scale |-> c.scale, length |-> c.length,
         name |-> c.name, fdoca_type |-> "0x00", fdoca_len |-> 0,
         cur_addr |-> 0, cur_length |-> 0]]

\* A byte read through a char pointer
SignedByte(n) == ((n + 128) % 256) - 128

\* The loop over the QRYDSC reaches the i-th column's triplet
Described(i, len) == 3 * i < len

(* fdoca_read_qrydsc(): of a column's length it takes the low byte.  The   *)
(* triplet of a decimal has precision and scale in place of the length.    *)
fdoca_read_qrydsc(cols) ==
    LET len == SignedByte(3 * Len(cols) + 3) IN
    [i \in DOMAIN cols |->
        LET c == table.columns[i] IN
        IF ~Described(i, len) THEN cols[i]
        ELSE [cols[i] EXCEPT !.fdoca_type = c.type,
                  !.fdoca_len = SignedByte(IF c.precision # 0 THEN c.scale ELSE c.length)]]

\* SQLExecute(): the answers to PRPSQLSTT and OPNQRY
OpenResult ==
    /\ phase = "execute"
    /\ columns' = fdoca_read_qrydsc(fdoca_read_sqlda)
    /\ phase' = "open"
    /\ UNCHANGED <<table, bound, row, coln, pos, at, text, ind, got>>

(* SQLFetch() begins a row: the byte 0xff for no SQLCA, and another.       *)
BeginRow ==
    /\ phase \in {"open", "fetched"}
    /\ row < Len(table.rows)
    /\ row' = row + 1
    /\ phase' = "row"
    /\ coln' = 0
    /\ pos' = pos + 2
    /\ at' = at + 2
    /\ got' = NoData
    /\ UNCHANGED <<table, columns, bound, text, ind>>

\* mutant: a packed decimal without its sign
DigitsOnly(col, v) ==
    IF fdoca_sizeof_length(col.fdoca_type) > 0 THEN Len(v)
    ELSE IF col.precision # 0 THEN col.precision \div 2 ELSE col.fdoca_len

\* flen: from the length bytes, the precision or the description
FieldLength(col, v) ==
    IF fdoca_sizeof_length(col.fdoca_type) > 0 THEN Len(v)
    ELSE IF col.precision # 0 THEN (col.precision + 1) \div 2 ELSE col.fdoca_len

Value(i) == table.rows[row][i]

(* The client reads the i-th cell from its beginning, as a column that was *)
(* described to it and of a length that is not negative.                   *)
InStepAt(i) ==
    /\ pos = at
    /\ columns[i].fdoca_type = table.columns[i].type
    /\ Value(i) # Null => FieldLength(columns[i], Value(i)) >= 0

\* mutant: a NULL leaves the length of an earlier row
LengthKept(col) == col

\* A NULL ends the value of the column, not its address
NullColumn(col) == [col EXCEPT !.cur_length = 0]

ReadNull(i) ==
    /\ Value(i) = Null /\ fdoca_is_nullable(columns[i].fdoca_type)
    /\ columns' = [columns EXCEPT ![i] = NullColumn(@)]
    /\ text' = IF i \in bound THEN [text EXCEPT ![i] = <<>>] ELSE text
    /\ pos' = pos + 1
    /\ UNCHANGED ind

ReadValue(i) ==
    LET col == columns[i]
        flen == FieldLength(col, Value(i))
    IN
    /\ Value(i) # Null
    /\ columns' = [columns EXCEPT ![i].cur_length = flen, ![i].cur_addr = row]
    /\ IF i \in bound
       THEN \E t \in Converted(table.order, col, Value(i), col.precision + 1, flen) :
               /\ text' = [text EXCEPT ![i] = t]
               /\ ind' = [ind EXCEPT ![i] = Len(t)]
       ELSE UNCHANGED <<text, ind>>
    /\ pos' = pos + Indicator(col.fdoca_type) + fdoca_sizeof_length(col.fdoca_type) + flen

\* The process exits at a type it does not know
Unsupported(i) == i \in bound /\ drda_get_cardinal_type(columns[i].fdoca_type) = "none"

ReadColumn ==
    LET i == coln + 1 IN
    /\ phase = "row" /\ coln < Len(columns)
    /\ InStepAt(i) /\ ~Unsupported(i)
    /\ ReadNull(i) \/ ReadValue(i)
    /\ at' = at + ServerSize(table.columns[i], Value(i))
    /\ coln' = i
    /\ UNCHANGED <<table, bound, phase, row, got>>

\* Nothing is said of what is read between the beginnings of two cells
StopReading ==
    /\ phase = "row" /\ coln < Len(columns)
    /\ phase' = IF ~InStepAt(coln + 1) THEN "lost" ELSE "exit"
    /\ ~InStepAt(coln + 1) \/ Unsupported(coln + 1)
    /\ UNCHANGED <<table, columns, bound, row, coln, pos, at, text, ind, got>>

EndRow ==
    /\ phase = "row" /\ coln = Len(columns)
    /\ phase' = "fetched"
    /\ UNCHANGED <<table, columns, bound, row, coln, pos, at, text, ind, got>>

\* SQLGetData() of a type it does not know exits too
GetUnsupported(i) ==
    /\ phase = "fetched"
    /\ columns[i].cur_length > 0
    /\ drda_get_cardinal_type(columns[i].fdoca_type) = "none"
    /\ phase' = "exit"
    /\ UNCHANGED <<table, columns, bound, row, coln, pos, at, text, ind, got>>

\* SQLGetData(), for SQL_CHAR and a buffer of max bytes
SQLGetData(i, max) ==
    LET col == columns[i]
        v == table.rows[col.cur_addr][i]
        Gives(t, n) == got' = [col |-> i, max |-> max, text |-> t, len |-> n]
    IN
    /\ phase = "fetched"
    /\ col.cur_length > 0 => drda_get_cardinal_type(col.fdoca_type) # "none"
    /\ \/ /\ col.cur_length > max
          /\ \E t \in Converted(table.order, col, v, max, max) : Gives(t, max)
       \/ /\ col.cur_length \in 1..max
          /\ \E t \in Converted(table.order, col, v, col.precision + 1, col.cur_length) :
                Gives(t, col.cur_length)
       \/ /\ col.cur_length <= 0
          /\ Gives(<<>>, -1)
    /\ UNCHANGED <<table, columns, bound, phase, row, coln, pos, at, text, ind>>

RNext ==
    \/ OpenResult \/ BeginRow \/ ReadColumn \/ StopReading \/ EndRow
    \/ \E i \in DOMAIN columns : GetUnsupported(i)
    \/ \E i \in DOMAIN columns, max \in Rooms : SQLGetData(i, max)

Spec == RInit /\ [][RNext]_rvars

-----------------------------------------------------------------------------
(* SQLColAttributes(), SQL_COLUMN_DISPLAY_SIZE.                            *)

_odbc_get_client_type(type) ==
    CASE drda_get_cardinal_type(type) = "DECIMAL" -> "NUMERIC"
      [] drda_get_cardinal_type(type) = "SMALLINT" -> "SMALLINT"
      [] OTHER -> "VARCHAR"

\* mutant: no room for the point
PointForgotten(col) == col.precision

DecimalSize(col) == IF col.scale # 0 THEN col.precision + 1 ELSE col.precision

DisplaySize(col) ==
    LET size == CASE _odbc_get_client_type(col.fdoca_type) = "NUMERIC" -> DecimalSize(col)
                  [] _odbc_get_client_type(col.fdoca_type) = "SMALLINT" -> 6
                  [] OTHER -> col.length
    IN  IF size < col.name THEN col.name ELSE size

-----------------------------------------------------------------------------
(* What the decoder promises.                                              *)

RowsTypeOK ==
    /\ phase \in {"execute", "open", "row", "fetched", "lost", "exit"}
    /\ row \in 0..Len(table.rows) /\ coln \in 0..Len(columns)
    /\ pos \in Nat /\ at \in Nat
    /\ DOMAIN text = bound /\ DOMAIN ind = bound
    /\ \A i \in DOMAIN columns :
          /\ columns[i].cur_addr \in 0..row
          /\ columns[i].fdoca_len \in -128..127 /\ columns[i].cur_length \in Nat
    /\ got = NoData \/ got.col \in DOMAIN columns

Kind(i) == drda_get_cardinal_type(table.columns[i].type)

(* The result sets that are read in step: up to 41 columns, decimals of an *)
(* odd precision and nothing else with a precision, and fixed fields whose *)
(* length a signed byte can hold.                                          *)
Sound ==
    /\ Len(table.columns) \in 1..41
    /\ \A i \in DOMAIN table.columns :
          LET c == table.columns[i] IN
          /\ Kind(i) = "DECIMAL" => c.precision % 2 = 1
          /\ Kind(i) # "DECIMAL" => c.precision = 0
          /\ fdoca_sizeof_length(c.type) = 0 => c.length \in 0..127

(* The client reads every cell where the server wrote it: NULLs, lengths   *)
(* and packed decimals move it on by what they occupy, row after row.      *)
InStep == Sound => phase # "lost" /\ pos = at

(* A value the conversion keeps: a decimal of an odd precision that is not *)
(* negative and has a digit before its point, a 4-byte integer that fits   *)
(* the two bytes read of it when the low byte comes first, and of fixed    *)
(* fields those whose length a signed byte can hold.                       *)
Kept(i, v) ==
    CASE Kind(i) = "DECIMAL" ->
            LET c == table.columns[i] IN v >= 0 /\ c.precision % 2 = 1 /\ c.scale < c.precision
      [] Kind(i) = "INT" -> table.order = "QTDSQLX86" /\ Int2(v) = v
      [] OTHER -> fdoca_sizeof_length(table.columns[i].type) = 0 =>
                      table.columns[i].length \in 0..127

\* A text that is the number v with its point before the last s digits
ReadsAs(t, v, s) ==
    /\ Len(t) > s /\ t[Len(t) - s] = "."
    /\ v < Tens[Len(t) - 1]
    /\ Prefix(t, Len(t) - s - 1) \o SubSeq(t, Len(t) - s + 1, Len(t)) = Digits(v, Len(t) - 1)

Shows(i, t, v) ==
    CASE Kind(i) = "DECIMAL" -> ReadsAs(t, v, table.columns[i].scale)
      [] Kind(i) \in {"SMALLINT", "INT"} -> t = Decimal(v)
      [] OTHER -> t = v

(* After a fetch the buffers of the bound columns hold this row's values,  *)
(* those of a NULL the empty text, and the lengths are those of the texts. *)
BoundValues ==
    phase = "fetched" =>
        \A i \in bound :
            IF Value(i) = Null THEN text[i] = <<>>
            ELSE /\ ind[i] = Len(text[i])
                 /\ Kept(i, Value(i)) => Shows(i, text[i], Value(i))

Integral == {"SMALLINT", "INT"}

(* Data g of a column: the text of its bound buffer and the length of the  *)
(* field, which is that of the text if it has characters.  A field longer  *)
(* than the buffer is cut, but for the text of an integer, and the length  *)
(* is that of the buffer; that of NULL or of no characters is not set.     *)
GotAsBound(i, g) ==
    LET size == columns[i].cur_length IN
    /\ \/ size <= 0 /\ g.len = -1 /\ g.text = text[i]
       \/ size \in 1..g.max /\ g.len = size /\ g.text = text[i]
       \/ size > g.max /\ g.len = g.max
          /\ g.text = IF Kind(i) \in Integral THEN text[i] ELSE Prefix(text[i], g.max)
    /\ Kind(i) \notin Integral \cup {"DECIMAL"} => g.len \in {-1, Len(g.text)}

(* SQLGetData converts the field a second time, and gives what the fetch   *)
(* has put into a bound buffer (decimals with a digit before the point).   *)
GetDataAsBound ==
    got.col \in bound /\ (Kind(got.col) = "DECIMAL" =>
            table.columns[got.col].scale < table.columns[got.col].precision) =>
        GotAsBound(got.col, got)

(* The display size of a column is room enough for every text a fetch puts *)
(* there, but for 4-byte integers and decimals without a fraction, whose   *)
(* text ends in a point.                                                   *)
DisplaySizeSuffices ==
    phase = "fetched" =>
        \A i \in bound :
            \/ Kind(i) = "INT"
            \/ Kind(i) = "DECIMAL" /\ table.columns[i].scale = 0
            \/ Len(text[i]) <= DisplaySize(columns[i])

=============================================================================
