------------------------------ MODULE MCCarousel ------------------------------
\* A carousel with two posts, three balloons and their passports.
EXTENDS CarouselPosts

TwoPosts == {1, 2}

\* Two balloons weigh the same; one is small.
Weights == <<16000, 16000, 15000>>

\* A passport that allows filling, one that is cut by int(), one not ready.
Passports ==
  << [ready |-> TRUE, netto |-> 16000, brutto |-> 45000],
     [ready |-> TRUE, netto |-> 16500, brutto |-> 44300],
     [ready |-> FALSE, netto |-> 15000, brutto |-> 36000] >>

Usual == [available |-> TRUE, readOnly |-> FALSE, managed |-> FALSE,
          common |-> FALSE, value |-> 0, own |-> <<0, 0>>,
          netto |-> <<15600, 17800>>, brutto |-> <<44000, 46500>>,
          diff |-> <<0, 29500>>, classify |-> TRUE, small |-> 15500]

\* A correction by hand that only the second post has, and one that makes the
\* answer too large for 16 bits.
Settings ==
  { Usual,
    [Usual EXCEPT !.managed = TRUE, !.own = <<Absent, 300>>],
    [Usual EXCEPT !.managed = TRUE, !.common = TRUE, !.value = 21000] }

Mishaps ==
  {{}, {"reread"}, {"repeat"}, {"pair"}, {"drop", "reread"}, {"pair", "status"},
   {"unread"}, {"restart"}, {"passport"}, {"late", "repeat"}, {"removed"},
   {"slow"}, {"overtake"}, {"garbled", "repeat"}, {"redis"}, {"broken", "repeat"},
   {"killed", "repeat"}, {"database"}, {"pause"}}

AllScenarios ==
  [mishaps : Mishaps, cfg : {Usual}] \cup [mishaps : {{}}, cfg : Settings]
=============================================================================
