---------------------------- MODULE MarkdownParser ----------------------------
(***************************************************************************)
(* documents/markdown.py: a requirement document is read line by line into     *)
(* sections, and the sections that are scored into clauses and constraints.    *)
(*                                                                         *)
(* A line is what the patterns of the parser see of it; the sections refer to  *)
(* lines by their numbers.  Lines are taken in the order of the document and   *)
(* never twice by one list, so a list of lines is a set of their numbers.       *)
(* Operators named Bug... are plausible mistakes.                              *)
(***************************************************************************)
EXTENDS Naturals, Sequences, FiniteSets, FiniteSetsExt

CONSTANTS Line,     \* lines that a document may have
          MaxLines  \* bound: lines of a document

ASSUME LineAssumption ==
    /\ MaxLines \in Nat
    /\ \A line \in Line :
        \/ line.t = "heading" /\ line.level \in 1..6
           /\ line.topic \in {"numbered", "informational", "scored", "plain"}
           /\ line.cues \subseteq {"exception", "error handling", "error", "trigger"}
        \/ line.t = "row" /\ line.names \in {"condition", "system", "other"}
           /\ line.key \in BOOLEAN /\ line.value \in BOOLEAN
        \/ line.t = "divider"
        \/ line.t = "bullet" /\ line.indent \in Nat /\ line.intro \in BOOLEAN /\ line.said \in Nat
        \/ line.t = "text" /\ line.aside \in BOOLEAN /\ line.words \in Nat /\ line.said \in Nat

VARIABLES lines,      \* the lines read
          current,    \* the section that is open, None before the first heading
          body,       \* its text so far
          table,      \* the rows of the table that is open
          inherited,  \* heading level -> whether the section open at it is scored
          sections,   \* the sections that are closed
          document    \* the result, None until the last line is read

parservars == << lines, current, body, table, inherited, sections, document >>

None == << >>

ParserInit ==
    /\ lines = << >> /\ current = None /\ body = {} /\ table = {}
    /\ inherited = [level \in {} |-> FALSE]
    /\ sections = << >> /\ document = None
-----------------------------------------------------------------------------
(* Sections.                                                                   *)

\* _scored_for: a numbered requirement is one whatever its topic; a heading that says nothing
\* goes by the section that it is in.
ScoredFor(line, open) ==
    LET above == {level \in DOMAIN open : level < line.level}
    IN  CASE line.topic = "numbered"      -> TRUE
          [] line.topic = "informational" -> FALSE
          [] line.topic = "scored"        -> TRUE
          [] OTHER                        -> above # {} /\ open[Max(above)]

\* _parse_table: the rows under the header that hold something; dividers do not count.
Cells(rows) == {k \in rows : lines[k].t = "row"}

TableBody(rows) ==
    {k \in Cells(rows) : (\E header \in Cells(rows) : header < k) /\ (lines[k].key \/ lines[k].value)}

\* _absorb_table: a table has a header and a row that is not empty.
Absorbed ==
    IF current = None \/ TableBody(table) = {} THEN current
    ELSE [current EXCEPT !.tables =
             Append(@, [header |-> Min(Cells(table)), rows |-> TableBody(table)])]

\* flush
Flushed == IF current = None THEN sections ELSE Append(sections, [Absorbed EXCEPT !.body = body])

BugStillOpen(level) == DOMAIN inherited

\* The levels whose sections a heading leaves open.
StillOpen(level) == {above \in DOMAIN inherited : above < level}

Reading(line) ==
    /\ document = None
    /\ Len(lines) < MaxLines                                       \* bound
    /\ lines' = Append(lines, line)
    /\ document' = document

Heading(line) ==
    /\ line.t = "heading" /\ Reading(line)
    /\ sections' = Flushed
    /\ body' = {} /\ table' = {}
    /\ LET open == [level \in StillOpen(line.level) |-> inherited[level]]
           scored == ScoredFor(line, open)
       IN  /\ inherited' = [level \in DOMAIN open \cup {line.level} |->
                               IF level = line.level THEN scored ELSE open[level]]
           /\ current' = [heading |-> Len(lines) + 1, scored |-> scored, bullets |-> {},
                          body |-> {}, tables |-> << >>]

\* What stands before the first heading is dropped.
Preamble(line) ==
    /\ line.t # "heading" /\ current = None /\ Reading(line)
    /\ UNCHANGED << current, body, table, inherited, sections >>

Tabular(line) == line.t \in {"row", "divider"}

TableRow(line) ==
    /\ Tabular(line) /\ current # None /\ Reading(line)
    /\ table' = table \cup {Len(lines) + 1}
    /\ UNCHANGED << current, body, inherited, sections >>

\* Any other line ends the table that is open.
Bullet(line) ==
    /\ line.t = "bullet" /\ current # None /\ Reading(line)
    /\ current' = [Absorbed EXCEPT !.bullets = @ \cup {Len(lines) + 1}]
    /\ table' = {}
    /\ UNCHANGED << body, inherited, sections >>

Text(line) ==
    /\ line.t = "text" /\ current # None /\ Reading(line)
    /\ current' = Absorbed
    /\ body' = body \cup {Len(lines) + 1}
    /\ table' = {}
    /\ UNCHANGED << inherited, sections >>
-----------------------------------------------------------------------------
(* Requirements.                                                               *)

\* _classify: the first that fits.
Kind(line, heading) ==
    IF {"exception", "error handling"} \cap heading.cues # {} \/ "error" \in line.cues
    THEN "error_behavior"
    ELSE IF "approval" \in line.cues THEN "approval"
    ELSE IF "condition" \in line.cues THEN "condition"
    ELSE IF "endpoint" \in line.cues THEN "integration"
    ELSE IF "output" \in line.cues THEN "output"
    ELSE IF {"trigger"} \subseteq line.cues \cap heading.cues THEN "trigger"
    ELSE IF "system" \in line.cues THEN "integration"
    ELSE "action"

\* _table_condition_kind
TableKind(heading) ==
    IF {"exception", "error handling", "error"} \cap heading.cues # {} THEN "error_behavior" ELSE "condition"

\* The place of a clause: its section, the part of that section, and its line.  A document lists
\* its clauses in the order of their places.
Bullets  == 1
Body     == 2
Table(j) == 2 + j

Clause(i, part, k, kind) == [place |-> << i, part, k >>, kind |-> kind]

\* Clauses of lines that say something once a label is taken off.
Clauses(i, part, ks, heading) ==
    {Clause(i, part, k, Kind(lines[k], heading)) : k \in {j \in ks : lines[j].said >= 2}}

\* Bullets are stored with half of their indentation.
Depth(line) == line.indent \div 2

BugLeafBullets(bullets) == bullets

\* _leaf_bullets: a bullet that only introduces the deeper one after it is dropped.
LeafBullets(bullets) ==
    LET later(k) == {j \in bullets : j > k}
    IN  {k \in bullets : ~ (lines[k].intro /\ later(k) # {} /\ Depth(lines[Min(later(k))]) > Depth(lines[k]))}

\* Front matter, quotations and scraps are no requirements.
Statements(ks) == {k \in ks : ~ lines[k].aside /\ lines[k].words >= 3}

\* _table_requirements, for one table.
Cases(t) == {k \in t.rows : lines[t.header].names = "condition" /\ lines[k].key /\ lines[k].value}

Systems(t) == {k \in t.rows : lines[t.header].names = "system" /\ lines[k].key}

TableClauses(i, j, t, heading) ==
    {Clause(i, Table(j), k, TableKind(heading)) : k \in Cases(t)}
    \cup {Clause(i, Table(j), k, "integration") : k \in Systems(t)}

\* _section_requirements: the bullets, then the text, then the tables.
SectionClauses(i, section) ==
    LET heading == lines[section.heading]
    IN  Clauses(i, Bullets, LeafBullets(section.bullets), heading)
        \cup Clauses(i, Body, Statements(section.body), heading)
        \cup UNION {TableClauses(i, j, section.tables[j], heading) : j \in DOMAIN section.tables}

SectionConstraints(i, section) ==
    UNION {{<< i, Table(j), k >> : k \in Cases(section.tables[j])} : j \in DOMAIN section.tables}

\* parse, once every line is read.  The first heading of level one is the title.
Parse ==
    /\ document = None
    /\ sections' = Flushed
    /\ LET scored == {i \in DOMAIN Flushed : Flushed[i].scored}
           titles == {i \in DOMAIN Flushed : lines[Flushed[i].heading].level = 1}
       IN  document' = [title       |-> IF titles = {} THEN None ELSE << Flushed[Min(titles)].heading >>,
                        clauses     |-> UNION {SectionClauses(i, Flushed[i]) : i \in scored},
                        constraints |-> UNION {SectionConstraints(i, Flushed[i]) : i \in scored}]
    /\ UNCHANGED << lines, current, body, table, inherited >>

ParserNext ==
    \/ \E line \in Line : Heading(line) \/ Preamble(line) \/ TableRow(line) \/ Bullet(line) \/ Text(line)
    \/ Parse

ParserSpec == ParserInit /\ [][ParserNext]_parservars
-----------------------------------------------------------------------------
(* The outline of a document ls, from its lines alone.                          *)

Heads(ls) == {k \in DOMAIN ls : ls[k].t = "heading"}

\* The headings that heading h stands under, and h itself: of a higher rank than any between.
Lineage(ls, h) ==
    {g \in Heads(ls) : g <= h /\ \A f \in Heads(ls) : (g < f /\ f <= h) => ls[f].level > ls[g].level}

\* The nearest of them that tells says whether the section of h is scored.
IsScored(ls, h) ==
    LET telling == {g \in Lineage(ls, h) : ls[g].topic # "plain"}
    IN  telling # {} /\ ls[Max(telling)].topic # "informational"

\* The lines between heading h and the next.
Section(ls, h) == {k \in DOMAIN ls : h < k /\ \A g \in Heads(ls) : ~ (h < g /\ g <= k)}

\* The first row of the table that row k is in.
HeaderOf(ls, k) == Min({j \in 1..k : ls[j].t = "row" /\ \A i \in j..k : Tabular(ls[i])})

\* Whether line k, under heading h, says what is required.
States(ls, k, h) ==
    CASE ls[k].t = "bullet" ->
           /\ ls[k].said >= 2
           /\ LET later == {j \in Section(ls, h) : j > k /\ ls[j].t = "bullet"}
              IN  ~ (ls[k].intro /\ later # {} /\ Depth(ls[Min(later)]) > Depth(ls[k]))
      [] ls[k].t = "text" -> ~ ls[k].aside /\ ls[k].words >= 3 /\ ls[k].said >= 2
      [] ls[k].t = "row" ->
           LET header == ls[HeaderOf(ls, k)]
           IN  /\ HeaderOf(ls, k) # k /\ ls[k].key
               /\ \/ header.names = "system"
                  \/ header.names = "condition" /\ ls[k].value
      [] OTHER -> FALSE

\* Every heading opens one section, and the section is scored as the outline says: by the
\* heading itself, or else by the nearest heading that it stands under and that tells.  A line
\* yields a clause exactly when the section under which it stands is scored and the line says
\* something, and never two of them (documents/markdown.py _sections, _scored_for,
\* _section_requirements).
ParsesAsAnOutline ==
    document # None =>
        /\ Len(sections) = Cardinality(Heads(lines))
        /\ \A i \in DOMAIN sections :
              /\ sections[i].heading \in Heads(lines)
              /\ i > 1 => sections[i - 1].heading < sections[i].heading
              /\ sections[i].scored = IsScored(lines, sections[i].heading)
        /\ \A k \in DOMAIN lines :
              (\E c \in document.clauses : c.place[3] = k) <=>
                 (\E h \in Heads(lines) :
                      IsScored(lines, h) /\ k \in Section(lines, h) /\ States(lines, k, h))
        /\ \A c, d \in document.clauses : c.place[3] = d.place[3] => c = d
=============================================================================
