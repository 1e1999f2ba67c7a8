----------------------------- MODULE Extraction ----------------------------
(***************************************************************************)
(* Which texts of a dumped screen are the reply: UiTreeExtractor of        *)
(* executors/response_extractor.py.                                        *)
(*                                                                         *)
(* A screen is the column of its texts from top to bottom.  A text has its *)
(* length (0: a time, a label of the app, a text cut short), the free      *)
(* space above it, and may begin a row of the list that is the container.  *)
(* A response is the set of the texts it is put together from.             *)
(***************************************************************************)
EXTENDS Integers, FiniteSets, Sequences

CONSTANTS Lengths, Gaps,  \* of texts, and of the space above them
          MaxTexts,       \* bound
          Tall            \* height of the screen

VARIABLES texts, found    \* found: the screen has the container of the profile

screenVars == <<texts, found>>

High == 40                \* of a text

\* _node_bounds
Bottom(i) == IF i = 0 THEN 0 ELSE texts[i].top + High
Top(i) == texts[i].top
\* _bubble_root: texts of one row have the same parent.
Row(i) == IF i = 0 THEN 0 ELSE texts[i].row

Lowest(S) == CHOOSE i \in S : \A j \in S : j <= i
Highest(S) == CHOOSE i \in S : \A j \in S : i <= j

\* The characters of some texts.
LenOf(S) == Cardinality(UNION {{i} \X (1 .. texts[i].len) : i \in S})
\* _block_text: joined by spaces.
TextLen(S) == LenOf(S) + Cardinality(S) - 1

\* _is_latest_bubble_candidate, _is_suspect.
Candidates == {i \in DOMAIN texts : texts[i].len >= 3}

\* _looks_like_suggestion_chip_block; no text is higher than a chip.
Chips(S) ==
  /\ Cardinality(S) >= 3 /\ LenOf(S) <= 80
  /\ \A i \in S : texts[i].len <= 24

\* Mutant: suggestions are left out whatever else there is.
WithoutChipsAlways(groups, substantial) ==
  LET others == {g \in groups : ~Chips(g)} IN IF others # {} THEN others ELSE groups

\* Suggestions are left out where there is a long text.
WithoutChips(groups, substantial) ==
  LET others == {g \in groups : ~Chips(g)}
  IN IF substantial /\ others # {} THEN others ELSE groups
-----------------------------------------------------------------------------
(* In the container: one row is one message *)

Bubbles == {{j \in Candidates : Row(j) = Row(i)} : i \in Candidates}

\* The lowest row, suggestions apart if there is a long text anywhere.
LatestBubble ==
  LET left == WithoutChips(Bubbles, \E i \in Candidates : texts[i].len >= 40)
      lowest == Lowest(UNION left)
  IN CHOOSE b \in left : lowest \in b
-----------------------------------------------------------------------------
(* Without a container: blocks of texts close to each other *)

\* The candidate above a candidate.
Above(i) == {j \in Candidates : j < i}
Near(i, gap) == Above(i) # {} /\ Top(i) - Bottom(Lowest(Above(i))) <= gap

Heads == {i \in Candidates : ~(Near(i, 90) /\ Row(i) = Row(Lowest(Above(i))))}

\* _group_candidate_blocks
Blocks == {{j \in Candidates : j >= i /\ \A h \in Heads : i < h => j < h} : i \in Heads}

\* Mutant: length alone decides between suggestions and responses.
ScoreUnpenalised(b) == <<Bottom(Lowest(b)), TextLen(b)>>

\* _block_score: what is shorter than 15 counts as standing 2500 higher.
Score(b) == <<Bottom(Lowest(b)) - (IF TextLen(b) < 15 THEN 2500 ELSE 0), TextLen(b)>>

Better(b, c) ==
  \/ Score(b)[1] > Score(c)[1]
  \/ Score(b)[1] = Score(c)[1] /\ Score(b)[2] >= Score(c)[2]

\* Mutant: the distance to the first text of the block above.
ReachesTop(b, below) == Top(Highest(below)) - Bottom(Highest(b)) <= 250

\* Whether a block joins the one below it.
Reaches(b, below) == Top(Highest(below)) - Bottom(Lowest(b)) <= 150

\* Both are among the blocks, and no other is between them.
NextBelow(b, below, blocks) ==
  /\ Lowest(b) < Lowest(below)
  /\ \A c \in blocks : ~(Lowest(b) < Lowest(c) /\ Lowest(c) < Lowest(below))

\* _expand_winner_text: upwards, from block to block, as long as each reaches.
Expand(winner, blocks) ==
  UNION {b \in blocks :
           /\ Lowest(b) <= Lowest(winner)
           /\ \A c, d \in blocks :
                Lowest(b) <= Lowest(c) /\ Lowest(d) <= Lowest(winner) /\ NextBelow(c, d, blocks)
                  => Reaches(c, d)}

KeptBlocks == WithoutChips(Blocks, \E b \in Blocks : TextLen(b) >= 40)

Winner(blocks) == CHOOSE b \in blocks : \A c \in blocks : Better(b, c)

\* extract_from_xml
Response ==
  IF Candidates = {} THEN {}
  ELSE IF found THEN LatestBubble
  ELSE LET blocks == KeptBlocks IN Expand(Winner(blocks), blocks)
-----------------------------------------------------------------------------
Init == texts = <<>> /\ found \in BOOLEAN

\* Screens of every kind come up, a text at a time.
Draw(len, gap, begins) ==
  LET n == Len(texts)
      top == Bottom(n) + gap
  IN /\ n < MaxTexts /\ top + High <= Tall
     /\ texts' = Append(texts, [len |-> len, top |-> top,
                               row |-> IF begins \/ n = 0 THEN Row(n) + 1 ELSE Row(n)])
     /\ UNCHANGED found

Next == \E len \in Lengths, gap \in Gaps, begins \in BOOLEAN : Draw(len, gap, begins)

Spec == Init /\ [][Next]_screenVars
-----------------------------------------------------------------------------
\* "stopping at genuine message boundaries (which have larger gaps)": a response
\* found without a container never joins texts over a gap of more than 150.
BoundaryIsKept ==
  ~found => LET r == Response
            IN \A k \in r : k # Highest(r) => Near(k, 150)

\* "so a genuine response higher on screen still wins over them": a text of 15
\* characters is not passed over for suggestions or placeholders below it, unless
\* they are further below it than the penalty.
GenuineWins ==
  ~found => \A b \in KeptBlocks : TextLen(b) >= 15 =>
    LET r == Response
    IN TextLen(r) >= 15 \/ Bottom(Lowest(r)) - Bottom(Lowest(b)) >= 2500

\* "protects multi-paragraph short-line replies": in a container the response is
\* one whole row, and rows below it are passed over only as suggestions below a
\* row with a long text.
LatestRowIsWhole ==
  found /\ Candidates # {} => LET response == Response IN
    /\ response \in Bubbles
    /\ \A r \in Bubbles : Lowest(r) > Lowest(response) =>
         Chips(r) /\ \E i \in Candidates \ r : texts[i].len >= 40

\* The texts read are the last message of the app.
ReplyIsGenuine == BoundaryIsKept /\ GenuineWins /\ LatestRowIsWhole
=============================================================================
