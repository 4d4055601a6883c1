--------------------------- MODULE MCMarkdownParser ---------------------------
(* MarkdownParser for TLC: headings of three levels and every topic, nested bullets, and     *)
(* tables of two kinds.                                                                    *)
EXTENDS MarkdownParser

MCHeading(level, topic, cues) == [t |-> "heading", level |-> level, topic |-> topic, cues |-> cues]
MCBullet(indent, intro, cues) ==
    [t |-> "bullet", indent |-> indent, intro |-> intro, said |-> 4, cues |-> cues]
MCRow(names, key, value) == [t |-> "row", names |-> names, key |-> key, value |-> value]
MCText(words, aside, cues) ==
    [t |-> "text", words |-> words, aside |-> aside, said |-> words, cues |-> cues]

MCLine == {MCHeading(1, "scored", {}), MCHeading(2, "informational", {}), MCHeading(2, "plain", {"trigger"}),
           MCHeading(3, "plain", {}), MCHeading(3, "numbered", {"error"}),
           MCRow("condition", TRUE, TRUE), MCRow("system", TRUE, FALSE), MCRow("other", FALSE, FALSE),
           [t |-> "divider"],
           MCBullet(0, TRUE, {"condition", "output"}), MCBullet(1, FALSE, {"system"}), MCBullet(2, FALSE, {"trigger"}),
           MCText(5, FALSE, {"approval"}), MCText(0, FALSE, {})}
=============================================================================
