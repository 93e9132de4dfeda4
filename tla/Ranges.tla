------------------------------- MODULE Ranges -------------------------------
(***************************************************************************)
(* What an annotation is about is a range of the text of a page, which is  *)
(* kept as paths of elements and offsets, and looked up again whenever the *)
(* annotation is drawn.  Selecting splits text nodes, drawing wraps them   *)
(* in spans, and undrawing leaves them split: the document a range is      *)
(* looked up in is seldom the one it was made in.                          *)
(*                                                                         *)
(* A document is a tree.  Characters are numbered in its order, so the     *)
(* whole text reads 1, 2, 3, ...                                           *)
(***************************************************************************)
EXTENDS Integers, Sequences, SequencesExt, FiniteSets, FiniteSetsExt

CONSTANTS Nodes,        \* numbers of nodes; a document uses some of them (bound: what is free)
          Pages,        \* documents to begin with
          Body, Root,   \* the outermost element, and the one that is annotated
          White,        \* characters that are white space
          MaxRanges     \* bound: annotations made

VARIABLES doc,    \* the document
          made,   \* the annotations: each one's range, what it is about, what it should be
          drawn   \* per annotation: its _local.highlights

vars == <<doc, made, drawn>>

None == 0

(* kind: what a node is; tag: the name of an element; up: its parent.      *)
Document == [kind  : [Nodes -> {"element", "highlight", "text", "free"}],
             tag   : [Nodes -> {"div", "p", "span"}],
             up    : [Nodes -> Nodes \cup {None}],
             kids  : [Nodes -> Seq(Nodes)],
             chars : [Nodes -> Seq(Nat)]]

Free(d)      == {n \in Nodes : d.kind[n] = "free"}
Room(d, k)   == Cardinality(Free(d)) >= k
InUse(d)     == Nodes \ Free(d)
Texts(d)     == {n \in Nodes : d.kind[n] = "text"}
Length(d, n) == Len(d.chars[n])
Position(s, x) == CHOOSE i \in DOMAIN s : s[i] = x
Replace(s, x, t) == ReplaceSubSeqAt(Position(s, x), t, <<x>>, s)
NextSibling(d, n) == LET s == d.kids[d.up[n]]
                     IN IF Last(s) = n THEN None ELSE s[Position(s, n) + 1]

(* $(n).parents(), from the inside to the outside.                         *)
ParentsOf(d, n) ==
  LET above[m \in Nodes] == IF d.up[m] = None THEN <<>> ELSE <<d.up[m]>> \o above[d.up[m]]
  IN above[n]
Inside(d, n, a) == Contains(ParentsOf(d, n), a)

(* getTextNodes: what is below n, in the order of the document.            *)
TextNodes(d, n) ==
  LET below[m \in Nodes] == IF d.kind[m] = "text" THEN <<m>>
                            ELSE FlattenSeq([i \in DOMAIN d.kids[m] |-> below[d.kids[m][i]]])
  IN below[n]
TextOf(d, ns) == FlattenSeq([i \in DOMAIN ns |-> d.chars[ns[i]]])
Reads(d, n)   == TextOf(d, TextNodes(d, n))

(* A page is a tree: the children of a node are different nodes and know   *)
(* it, texts have none and elements some, all but the outermost element    *)
(* are children, and below any nodes some of them have none among them.    *)
WellFormed(d) ==
  /\ d \in Document
  /\ d.kind[Body] = "element" /\ d.kind[Root] = "element" /\ d.up[Root] # None
  /\ \A u \in Nodes : \A i, j \in DOMAIN d.kids[u] : d.kids[u][i] = d.kids[u][j] => i = j
  /\ \A u \in Nodes : \A n \in ToSet(d.kids[u]) : d.up[n] = u /\ d.kind[n] # "free"
  /\ \A n \in Nodes : d.up[n] # None => n \in ToSet(d.kids[d.up[n]])
  /\ \A n \in Nodes : d.up[n] = None <=> n = Body \/ d.kind[n] = "free"
  /\ \A n \in Nodes : d.kids[n] = <<>> <=> d.kind[n] \in {"text", "free"}
  /\ \A S \in (SUBSET Nodes) \ {{}} : \E n \in S : ToSet(d.kids[n]) \cap S = {}

(* A page as it comes: nothing is highlighted, and no element is a span,   *)
(* since highlights are spans, and an XPath would count those before it.   *)
Plain(d) ==
  /\ \A n \in Nodes : d.kind[n] # "highlight" /\ (d.kind[n] = "element" => d.tag[n] # "span")
  /\ \A n \in Texts(d) : d.chars[n] # <<>>
  /\ Reads(d, Body) = [i \in 1 .. Len(Reads(d, Body)) |-> i]

ASSUME NodesAssumption == IsFiniteSet(Nodes) /\ Nodes \subseteq Nat \ {None} /\ {Body, Root} \subseteq Nodes
ASSUME PagesAssumption == \A d \in Pages : WellFormed(d) /\ Plain(d)

-----------------------------------------------------------------------------
(* Changes of a document.                                                  *)

Split(d, n, k) ==
  LET m == Min(Free(d))
      u == d.up[n]
  IN [d EXCEPT !.kind[m] = "text", !.up[m] = u,
               !.chars[m] = SubSeq(d.chars[n], k + 1, Length(d, n)),
               !.chars[n] = SubSeq(d.chars[n], 1, k),
               !.kids[u] = Replace(@, n, <<n, m>>)]

Wrap(d, n) ==
  LET h == Min(Free(d))
      u == d.up[n]
  IN [d EXCEPT !.kind[h] = "highlight", !.tag[h] = "span", !.up = [@ EXCEPT ![h] = u, ![n] = h],
               !.kids = [@ EXCEPT ![h] = <<n>>, ![u] = Replace(d.kids[u], n, <<h>>)]]

(* Mutant of Unwrap: one child is put back, also where a text was split.   *)
UnwrapFirst(d, h) ==
  [d EXCEPT !.kind[h] = "free", !.tag[h] = "div",
            !.up = [n \in Nodes |-> IF n = h THEN None ELSE IF d.up[n] = h THEN d.up[h] ELSE d.up[n]],
            !.kids = [n \in Nodes |-> IF n = h THEN <<>>
                                      ELSE IF n = d.up[h] THEN Replace(d.kids[n], h, <<Head(d.kids[h])>>)
                                      ELSE d.kids[n]]]

Unwrap(d, h) ==
  [d EXCEPT !.kind[h] = "free", !.tag[h] = "div",
            !.up = [n \in Nodes |-> IF n = h THEN None ELSE IF d.up[n] = h THEN d.up[h] ELSE d.up[n]],
            !.kids = [n \in Nodes |-> IF n = h THEN <<>>
                                      ELSE IF n = d.up[h] THEN Replace(d.kids[n], h, d.kids[h])
                                      ELSE d.kids[n]]]

UnwrapAll(d, hs) == FoldSet(LAMBDA h, e : Unwrap(e, h), d, hs)

-----------------------------------------------------------------------------
(* BrowserRange: from a text node and an offset to another, or, where an   *)
(* element and the number of a child are given, to the text there.         *)

NoPoint == [node |-> None, at |-> 0]

NormalizeStart(d, c) ==
  IF d.kind[c.node] = "text" THEN c
  ELSE IF c.at = Len(d.kids[c.node]) THEN NoPoint     \* childNodes[..] is undefined: throws
  ELSE [node |-> Head(TextNodes(d, d.kids[c.node][c.at + 1])), at |-> 0]

NormalizeEnd(d, c) ==
  IF d.kind[c.node] = "text" THEN c
  ELSE IF c.at < Len(d.kids[c.node])
       THEN [node |-> Head(TextNodes(d, d.kids[c.node][c.at + 1])), at |-> 0]
       ELSE LET last == Last(TextNodes(d, c.node)) IN [node |-> last, at |-> Length(d, last)]

SplitAt(d, n, k) == IF n \in Texts(d) /\ k \in 0 .. Length(d, n) - 1 THEN Split(d, n, k) ELSE d

(* Mutant of Normalize: the end is counted in the node before the split.   *)
NormalizeUnshifted(d, start, end, common) ==
  LET d1    == IF start.at > 0 THEN SplitAt(d, start.node, start.at) ELSE d
      first == IF start.at > 0 THEN NextSibling(d1, start.node) ELSE start.node
      same  == start.node = end.node
      d2    == IF same THEN SplitAt(d1, first, end.at) ELSE SplitAt(d1, end.node, end.at)
  IN [doc |-> d2, start |-> IF same /\ end.at < start.at THEN None ELSE first,
      end |-> IF same THEN first ELSE end.node, common |-> common]

(* normalize, for a range between text nodes: the document with its nodes  *)
(* split, and the first and the last node of the range.  Elements have no  *)
(* text to split, and to split a text before its first character throws.   *)
Normalize(d, start, end, common) ==
  LET d1    == IF start.at > 0 THEN SplitAt(d, start.node, start.at) ELSE d
      first == IF start.at > 0 THEN NextSibling(d1, start.node) ELSE start.node
      same  == start.node = end.node
      d2    == IF same THEN SplitAt(d1, first, end.at - start.at) ELSE SplitAt(d1, end.node, end.at)
  IN [doc |-> d2, start |-> IF same /\ end.at < start.at THEN None ELSE first,
      end |-> IF same THEN first ELSE end.node, common |-> common]

(* $(nodes).index(n), counted from 0; without n it is the number of        *)
(* elements that stand before the first of the nodes.                      *)
IndexOf(d, ns, n) ==
  IF ns = <<>> THEN -1
  ELSE IF n = None
  THEN LET sibs == d.kids[d.up[Head(ns)]]
       IN Cardinality({i \in DOMAIN sibs : i < Position(sibs, Head(ns)) /\ d.kind[sibs[i]] # "text"})
  ELSE IF Contains(ns, n) THEN Position(ns, n) - 1 ELSE -1

(* NormalizedRange.textNodes: a slice, which counts from the end if the    *)
(* start is negative.                                                      *)
RangeNodes(d, r) ==
  LET ns == TextNodes(d, r.common)
      s  == IndexOf(d, ns, r.start)
      e  == IndexOf(d, ns, r.end)
  IN SubSeq(ns, IF s < 0 THEN Len(ns) ELSE s + 1, IF e = -1 THEN Len(ns) ELSE e + 1)

Limit(r, bounds) ==
  LET d  == r.doc
      ns == RangeNodes(d, r)
      inside == {i \in DOMAIN ns : Inside(d, ns[i], bounds)}
      first == ns[Min(inside)]
      last  == ns[Max(inside)]
      ps == ParentsOf(d, last)
  IN IF inside = {} THEN [r EXCEPT !.start = None]
     ELSE [r EXCEPT !.start = first, !.end = last,
                    !.common = ps[SelectInSeq(ps, LAMBDA p : Inside(d, first, p))]]

-----------------------------------------------------------------------------
(* SerializedRange: a path of elements, by name and number among those of  *)
(* that name, and an offset into the text of the element it leads to.      *)

StepTo(d, n) ==
  [tag |-> d.tag[n],
   nth |-> LET s == d.kids[d.up[n]]
           IN Cardinality({i \in 1 .. Position(s, n) : d.kind[s[i]] # "text" /\ d.tag[s[i]] = d.tag[n]})]

PathTo(d, e) ==
  LET path[n \in Nodes] == IF n = Root \/ d.up[n] = None THEN <<>> ELSE Append(path[d.up[n]], StepTo(d, n))
  IN path[e]

(* The element of Root that the path leads to.                             *)
NodeAt(d, path) ==
  LET found == {n \in InUse(d) \ Texts(d) : (n = Root \/ Inside(d, n, Root)) /\ PathTo(d, n) = path}
  IN IF found = {} THEN None ELSE CHOOSE n \in found : TRUE

(* Mutant of Unmarked: the parent, highlight or not.                       *)
UnmarkedOrNot(d, n) == d.up[n]

Unmarked(d, n) == LET ps == ParentsOf(d, n) IN ps[SelectInSeq(ps, LAMBDA p : d.kind[p] # "highlight")]
SerializePoint(d, n, isEnd) ==
  LET e  == Unmarked(d, n)
      ns == TextNodes(d, e)
      k  == Position(ns, n)
  IN [path |-> PathTo(d, e), offset |-> Len(TextOf(d, SubSeq(ns, 1, IF isEnd THEN k ELSE k - 1)))]

Serialize(r) == [start |-> SerializePoint(r.doc, r.start, FALSE), end |-> SerializePoint(r.doc, r.end, TRUE)]

(* SerializedRange.normalize: the text node that goes beyond the offset,   *)
(* or, for an end, reaches it.  Nothing is found: a RangeError.            *)
PointIn(d, ns, offset, isEnd) ==
  LET before(i) == Len(TextOf(d, SubSeq(ns, 1, i - 1)))
      found == {i \in DOMAIN ns : before(i) + Length(d, ns[i]) > IF isEnd THEN offset - 1 ELSE offset}
  IN IF found = {} THEN NoPoint
     ELSE [node |-> ns[Min(found)], at |-> offset - before(Min(found))]
PointAt(d, p, isEnd) ==
  LET e == NodeAt(d, p.path)
  IN IF e = None THEN NoPoint ELSE PointIn(d, TextNodes(d, e), p.offset, isEnd)

Between(d, s, e) ==
  LET ps == ParentsOf(d, s.node)
  IN IF s = NoPoint \/ e = NoPoint
     THEN [doc |-> d, start |-> None, end |-> None, common |-> None]
     ELSE Normalize(d, s, e, ps[SelectInSeq(ps, LAMBDA p : Inside(d, d.up[e.node], p))])
Anchor(d, range) == Between(d, PointAt(d, range.start, FALSE), PointAt(d, range.end, TRUE))

(* The characters of a range that has been found.                          *)
About(r) == IF r.start = None THEN {} ELSE ToSet(TextOf(r.doc, RangeNodes(r.doc, r)))

-----------------------------------------------------------------------------
(* Highlighter                                                             *)

(* Mutant of HighlightRange: what is highlighted already is passed over.   *)
HighlightPlain(r) ==
  LET ns == RangeNodes(r.doc, r)
      white(n) == ToSet(r.doc.chars[n]) \subseteq White \/ r.doc.kind[r.doc.up[n]] = "highlight"
      wrapped == FoldLeft(LAMBDA d, n : IF white(n) THEN d ELSE Wrap(d, n), r.doc, ns)
  IN [doc |-> wrapped, highlights |-> {wrapped.up[n] : n \in {m \in ToSet(ns) : ~ white(m)}}]

HighlightRange(r) ==
  LET ns == RangeNodes(r.doc, r)
      white(n) == ToSet(r.doc.chars[n]) \subseteq White
      wrapped == FoldLeft(LAMBDA d, n : IF white(n) THEN d ELSE Wrap(d, n), r.doc, ns)
  IN [doc |-> wrapped, highlights |-> {wrapped.up[n] : n \in {m \in ToSet(ns) : ~ white(m)}}]

Init == doc \in Pages /\ made = <<>> /\ drawn = <<>>

(* A place in the page: an offset in a text, or the number of a child.     *)
Points(d) == UNION {[node : {n}, at : 0 .. IF d.kind[n] = "text" THEN Length(d, n) ELSE Len(d.kids[n])] : n \in InUse(d)}
CharsBefore(d, c) ==
  LET texts == TextNodes(d, Body)
      upTo(n, k) == Len(TextOf(d, SubSeq(texts, 1, Position(texts, n) - k)))
  IN IF d.kind[c.node] = "text" THEN upTo(c.node, 1) + c.at
     ELSE IF c.at = Len(d.kids[c.node]) THEN upTo(Last(TextNodes(d, c.node)), 0)
     ELSE upTo(Head(TextNodes(d, d.kids[c.node][c.at + 1])), 1)
CommonElement(d, m, n) ==
  LET ps == (IF d.kind[m] = "text" THEN <<>> ELSE <<m>>) \o ParentsOf(d, m)
  IN ps[SelectInSeq(ps, LAMBDA p : p = n \/ Inside(d, n, p))]

(* Characters are selected with the mouse: captureDocumentSelection, and   *)
(* makeAnnotation if that yields a range.  A selection that is none of     *)
(* this leaves no annotation, but its text nodes are split all the same.   *)
Select(from, to) ==
  LET s == NormalizeStart(doc, from)
      e == NormalizeEnd(doc, to)
      r == Limit(Normalize(doc, s, e, CommonElement(doc, from.node, to.node)), Root)
  IN /\ IF s = NoPoint THEN UNCHANGED vars
        ELSE /\ doc' = r.doc
             /\ IF r.start = None THEN UNCHANGED <<made, drawn>>
                ELSE /\ made' = Append(made, [range |-> Serialize(r), about |-> About(r),
                            wanted |-> IF s.at = Length(doc, s.node) THEN About(r)
                                       ELSE (CharsBefore(doc, from) + 1 .. CharsBefore(doc, to)) \cap ToSet(Reads(doc, Root))])
                     /\ drawn' = Append(drawn, {})

Draw(a) ==
  LET r == Anchor(doc, made[a].range)
      h == HighlightRange(r)
  IN /\ Room(doc, 2)
     /\ IF r.start = None
        THEN doc' = r.doc /\ drawn' = [drawn EXCEPT ![a] = {}]
        ELSE /\ Room(r.doc, Len(RangeNodes(r.doc, r)))
             /\ doc' = h.doc
             /\ drawn' = [drawn EXCEPT ![a] = h.highlights]
     /\ UNCHANGED made

Undraw(a) ==
  /\ drawn[a] # {}
  /\ doc' = UnwrapAll(doc, drawn[a])
  /\ drawn' = [drawn EXCEPT ![a] = {}]
  /\ UNCHANGED made

(* onNewStep of setup.coffee: all highlights are taken out of the page.    *)
Clear ==
  /\ doc' = UnwrapAll(doc, {n \in Nodes : doc.kind[n] = "highlight"})
  /\ drawn' = [a \in DOMAIN drawn |-> {}]
  /\ UNCHANGED made

Next ==
  \/ /\ Len(made) < MaxRanges /\ Room(doc, 2)
     /\ LET place == [c \in Points(doc) |-> CharsBefore(doc, c)]
        IN \E from, to \in DOMAIN place : place[from] < place[to] /\ Select(from, to)
  \/ \E a \in DOMAIN drawn : Draw(a) \/ Undraw(a)
  \/ Clear

Spec == Init /\ [][Next]_vars

-----------------------------------------------------------------------------
(* Whatever is selected, drawn and undrawn, every element of the page has  *)
(* its text, in its order, as the page had it to begin with.               *)
TextIsKept ==
  \E page \in Pages : \A n \in {m \in Nodes : page.kind[m] = "element"} :
    doc.kind[n] = "element" /\ Reads(doc, n) = Reads(page, n)

(* An annotation's range is found again, and as the very characters it was *)
(* made for, whatever has been drawn or undrawn since and was drawn then.  *)
(* (To find it texts may have to be split once more.)                      *)
RangesHold == Room(doc, 2) => \A a \in DOMAIN made : About(Anchor(doc, made[a].range)) = made[a].about

(* An annotation is about what was selected of the annotated element,      *)
(* unless the selection began at the end of a text node.                   *)
SelectionIsExact == \A a \in DOMAIN made : made[a].about = made[a].wanted

(* As long as an annotation is drawn, its highlights cover its characters  *)
(* (but for white space) and no others, however many annotations overlap   *)
(* it and whichever of them are undrawn.                                   *)
Covered(hs) == UNION {ToSet(Reads(doc, h)) : h \in hs}
HighlightsCover ==
  \A a \in DOMAIN made : drawn[a] # {} =>
    Covered(drawn[a]) \subseteq made[a].about /\ made[a].about \ White \subseteq Covered(drawn[a])
=============================================================================
