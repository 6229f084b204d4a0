----------------------------- MODULE MCPageCheck -----------------------------
(* Instances of PageCheck for TLC: the pages are sound ones with up to two    *)
(* cells, and such pages with one thing wrong.                                *)
EXTENDS PageCheck

CONSTANTS c1, c2, s1, s2, s3, m1, m2

\* s1 and s2 are two ways to write the name of c1.
MCNormalOf == [s \in Spelling |-> IF s = s2 THEN s1 ELSE s]

MCUrl ==
    {[direct |-> TRUE, irregular |-> FALSE, numeric |-> TRUE, filled |-> TRUE,
      upcoming |-> TRUE, names |-> n] : n \in SUBSET {"movieId", "showDate", "brandId"}}

Plain(i, s, c) == [id |-> i, spelling |-> s, control |-> c, to |-> c1, fits |-> TRUE, day |-> "target"]
Linked(i, s) == [Plain(i, s, "link") EXCEPT !.to = i]

SoundCells == {Plain(c1, s1, "none"), Plain(c1, s2, "closed"), Linked(c1, s1), Linked(c2, s3),
               Linked(c2, s2), [Linked(c1, s2) EXCEPT !.day = "none"]}
BrokenCells ==
    {[Linked(c1, s1) EXCEPT !.to = c2], [Linked(c1, s1) EXCEPT !.fits = FALSE],
     [Linked(c1, s1) EXCEPT !.day = "other"], [Linked(c1, s1) EXCEPT !.spelling = Blank],
     [Linked(c1, s1) EXCEPT !.id = NoCinema]}
    \cup {Plain(c1, s1, c) : c \in {"unlinked", "several", "relabelled"}}

Empty == [verify |-> FALSE, layout |-> "live", city |-> "target", film |-> "target",
          day |-> "target", title |-> m1, lists |-> 1, empties |-> 1, cells |-> <<>>,
          outside |-> <<>>]
With(cells) == [Empty EXCEPT !.empties = 0, !.cells = cells]

SoundPages ==
    {Empty} \cup {With(<<c>>) : c \in SoundCells}
    \cup {With(<<c, Linked(c1, s1)>>) : c \in {Plain(c1, s2, "closed"), Linked(c2, s2)}}
    \cup {With(<<Plain(c1, s1, "closed"), Linked(c2, s2)>>)}

Open == With(<<Linked(c1, s1)>>)
FaultyPages ==
    {With(<<c>>) : c \in BrokenCells} \cup {With(<<Linked(c2, s3), c>>) : c \in BrokenCells}
    \cup {[Open EXCEPT !.verify = TRUE], [Open EXCEPT !.city = "other"],
          [Open EXCEPT !.film = "unclear"], [Open EXCEPT !.day = "other"],
          [Open EXCEPT !.title = m2], [Open EXCEPT !.title = Blank],
          [Open EXCEPT !.lists = 2], [Open EXCEPT !.layout = "legacy"],
          [Open EXCEPT !.layout = "legacy", !.city = "unclear"],
          [Open EXCEPT !.empties = 1], [Empty EXCEPT !.empties = 0],
          [Empty EXCEPT !.empties = 2],
          [Empty EXCEPT !.outside = <<Linked(c1, s1)>>],
          [With(<<Plain(c2, s3, "closed")>>) EXCEPT !.outside = <<Linked(c1, s1)>>]}

MCPage == SoundPages \cup FaultyPages
=============================================================================
