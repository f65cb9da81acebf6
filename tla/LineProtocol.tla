----------------------------- MODULE LineProtocol -----------------------------
(***************************************************************************)
(* The text the InfluxDB writer posts (buildLineProtocol and escapeTag,    *)
(* moxa-nport/storage.go), and how a database reads it.                    *)
(*                                                                         *)
(* Text is a sequence of symbols: the four characters the protocol gives a *)
(* meaning, and letters, numbers and fixed words, each one symbol.  A name *)
(* may have any characters but line breaks, which the code does not escape *)
(* and the shipped configurations do not contain.                          *)
(***************************************************************************)
EXTENDS Integers, Sequences, TLC

Backslash == "\\"
Space == " "

\* strings.ReplaceAll(v, c, "\\" + c)
Escaped(v, c) ==
  LET written[n \in 0 .. Len(v)] ==
        IF n = 0 THEN <<>>
        ELSE written[n - 1] \o (IF v[n] = c THEN <<Backslash, c>> ELSE <<v[n]>>)
  IN written[Len(v)]

\* Mutant: the backslash comes last, after the ones just written.
escapeTagBackslashLast(v) ==
  Escaped(Escaped(Escaped(Escaped(v, Space), ","), "="), Backslash)

escapeTag(v) == Escaped(Escaped(Escaped(Escaped(v, Backslash), Space), ","), "=")

\* strings.TrimSpace
Trimmed(v) ==
  LET kept == {i \in DOMAIN v : v[i] # Space}
  IN IF kept = {} THEN <<>>
     ELSE SubSeq(v, CHOOSE i \in kept : \A j \in kept : i <= j,
                    CHOOSE i \in kept : \A j \in kept : i >= j)

\* strings.ToLower
ToLower(v) == [i \in DOMAIN v |-> IF v[i] = "A" THEN "a" ELSE v[i]]

\* The name a reading gets in the database.
FieldName(v) ==
  LET name == Trimmed(v.name)
  IN IF name = <<>> THEN <<"register_", ToString(v.register)>> ELSE ToLower(name)

fieldKey(v) == escapeTag(FieldName(v))

\* A reading of the agent is a whole number, written with a final i.
Line(measurement, port, slaveID, slaveName, v) ==
  escapeTag(measurement)
    \o <<",", "port", "=">> \o escapeTag(port)
    \o <<",", "slave", "=", ToString(slaveID)>>
    \o (IF slaveName = <<>> THEN <<>> ELSE <<",", "slave_name", "=">> \o escapeTag(slaveName))
    \o <<",", "register", "=", ToString(v.register)>>
    \o <<",", "register_name", "=">> \o escapeTag(v.name)
    \o <<Space>> \o fieldKey(v) \o <<"=", ToString(v.value), "i">>
    \o <<Space, "timestamp">>

\* One line per reading that has a name.
buildLineProtocol(measurement, port, slaveID, slaveName, values) ==
  IF measurement = <<>> THEN {}
  ELSE {Line(measurement, port, slaveID, slaveName, v) : v \in {v \in values : v.name # <<>>}}

-----------------------------------------------------------------------------
\* The database cuts a line at every delimiter, except that a backslash makes
\* the symbol after it a plain one.
ReadSymbol(cut, symbol) ==
  LET last == Len(cut.fields)
  IN IF ~ cut.literal /\ symbol = Backslash THEN [cut EXCEPT !.literal = TRUE]
     ELSE IF ~ cut.literal /\ symbol \in {Space, ",", "="}
       THEN [cut EXCEPT !.fields = Append(@, <<>>)]
     ELSE [literal |-> FALSE, fields |-> [cut.fields EXCEPT ![last] = Append(@, symbol)]]

Cut(start, line) ==
  LET cut[n \in 0 .. Len(line)] ==
        IF n = 0 THEN start ELSE ReadSymbol(cut[n - 1], line[n])
  IN cut[Len(line)]

Fields(line) == Cut([literal |-> FALSE, fields |-> << <<>> >>], line).fields

\* What the database should find in the line of a reading.
Meant(measurement, port, slaveID, slaveName, v) ==
  <<measurement, <<"port">>, port, <<"slave">>, <<ToString(slaveID)>> >>
    \o (IF slaveName = <<>> THEN <<>> ELSE << <<"slave_name">>, slaveName>>)
    \o << <<"register">>, <<ToString(v.register)>>, <<"register_name">>, v.name,
          FieldName(v), <<ToString(v.value), "i">>, <<"timestamp">> >>
===============================================================================
