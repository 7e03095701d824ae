------------------------------- MODULE TiledText ------------------------------
(***************************************************************************)
(* The XML tree behind tiled.Document and tiled.TilesetDocument: every     *)
(* element keeps the text it was read from and is written back as that     *)
(* text, unless it or something inside it was edited.                      *)
(*                                                                         *)
(* A tree is a sequence of elements, the first of which is the root; an    *)
(* element knows its parent and its children by their index.  Text is a    *)
(* sequence of tokens: tags, and whatever else stands between tags.  How   *)
(* far something is indented is left out, that there is Space is not.      *)
(* What Forge writes itself is spelled its way ("ours"), the rest as it    *)
(* was found ("theirs").                                                   *)
(***************************************************************************)
EXTENDS Integers, Sequences, FiniteSets, SequencesExt

Attr(name, value) == [name |-> name, value |-> value, by |-> "ours"]
Raw(text, by) == [el |-> 0, text |-> text, by |-> by]
Space == Raw("space", "ours")
Kid(e) == [el |-> e, text |-> "", by |-> "ours"]
IsElem(k) == k.el # 0

\* newElem
NewElem(name, attrs) ==
  [name |-> name, attrs |-> attrs, kids |-> <<>>, selfClose |-> TRUE,
   authored |-> "", src |-> <<>>, dirty |-> TRUE, parent |-> 0]

ElemKids(t, e) == SelectSeq(t[e].kids, IsElem)
Children(t, e, name) == SelectSeq(ElemKids(t, e), LAMBDA k : t[k.el].name = name)
FirstChild(t, e, name) == LET c == Children(t, e, name) IN IF c = <<>> THEN 0 ELSE c[1].el

HasAttr(t, e, name) == \E i \in DOMAIN t[e].attrs : t[e].attrs[i].name = name
AttrOf(t, e, name) ==
  IF HasAttr(t, e, name)
  THEN LET i == CHOOSE i \in DOMAIN t[e].attrs :
                  t[e].attrs[i].name = name /\ \A j \in 1..(i - 1) : t[e].attrs[j].name # name
       IN  t[e].attrs[i].value
  ELSE ""

-----------------------------------------------------------------------------
(* Writing and reading *)

Tag(kind, name, attrs) == [tag |-> kind, name |-> name, attrs |-> attrs]
TextToken(k) == [tag |-> "text", name |-> k.text, attrs |-> <<[by |-> k.by]>>]

RECURSIVE Render(_, _)
RenderKids(t, e) ==
  FlattenSeq([i \in DOMAIN t[e].kids |->
                IF IsElem(t[e].kids[i]) THEN Render(t, t[e].kids[i].el) ELSE <<TextToken(t[e].kids[i])>>])

\* xelem.render: an authored tag is kept, opened if it has got children since.
Render(t, e) ==
  LET x == t[e]
      empty == x.kids = <<>>
      kind == IF x.authored # "" THEN (IF ~empty THEN "open" ELSE x.authored)
              ELSE IF x.selfClose /\ empty THEN "self" ELSE "open"
  IN  IF ~x.dirty THEN x.src
      ELSE <<Tag(kind, x.name, x.attrs)>>
             \o (IF x.selfClose /\ empty THEN <<>>
                 ELSE RenderKids(t, e) \o <<Tag("close", x.name, <<>>)>>)

\* What a reader makes of text: an element as its name, its attributes and what
\* is inside it; nothing at all if the tags do not match.
Malformed == <<>>
Element(tag) == [name |-> tag.name, attrs |-> tag.attrs, inside |-> <<>>]
Into(x, node) == [x EXCEPT !.inside = Append(@, node)]

ReadToken(stack, token) ==
  CASE stack = Malformed -> Malformed
    [] token.tag = "open" -> Append(stack, Element(token))
    [] token.tag = "self" -> [stack EXCEPT ![Len(stack)] = Into(@, Element(token))]
    [] token.tag = "text" -> [stack EXCEPT ![Len(stack)] = Into(@, token)]
    [] token.tag = "close" ->
         IF Len(stack) = 1 \/ stack[Len(stack)].name # token.name THEN Malformed
         ELSE [Front(stack) EXCEPT ![Len(stack) - 1] = Into(@, stack[Len(stack)])]

Document == Element([name |-> "document", attrs |-> <<>>])
Parsed(text) ==
  LET stack[i \in 0..Len(text)] == IF i = 0 THEN <<Document>> ELSE ReadToken(stack[i - 1], text[i])
      end == stack[Len(text)]
  IN  IF Len(end) = 1 THEN end[1].inside ELSE Malformed

\* What the tree holds, without the texts that are kept and the marks.
RECURSIVE Reading(_, _)
Reading(t, e) ==
  [name |-> t[e].name, attrs |-> t[e].attrs,
   inside |-> [i \in DOMAIN t[e].kids |->
                 IF IsElem(t[e].kids[i]) THEN Reading(t, t[e].kids[i].el) ELSE TextToken(t[e].kids[i])]]

\* parseTree, of a tree given by its elements: each remembers its own text.
Loaded(t) ==
  LET marked == [e \in DOMAIN t |-> [t[e] EXCEPT !.dirty = TRUE]]
  IN  [e \in DOMAIN t |-> [t[e] EXCEPT !.src = Render(marked, e), !.dirty = FALSE]]

-----------------------------------------------------------------------------
(* Changing *)

\* Faulty variant: what the element is inside of is not marked.
MarkAlone(t, e) == [t EXCEPT ![e].dirty = TRUE]

\* markDirty: up to the first ancestor that is marked already.
RECURSIVE MarkDirty(_, _)
MarkDirty(t, e) ==
  IF e = 0 \/ t[e].dirty THEN t ELSE MarkDirty([t EXCEPT ![e].dirty = TRUE], t[e].parent)

\* setAttr: in place where there is one, quoted as it was.
SetAttr(t, e, name, value) ==
  IF HasAttr(t, e, name)
  THEN LET i == CHOOSE i \in DOMAIN t[e].attrs : t[e].attrs[i].name = name
       IN  IF t[e].attrs[i].value = value THEN t
           ELSE MarkDirty([t EXCEPT ![e].attrs[i].value = value], e)
  ELSE MarkDirty([t EXCEPT ![e].attrs = Append(@, Attr(name, value))], e)

RemoveAttr(t, e, name) ==
  IF HasAttr(t, e, name)
  THEN MarkDirty([t EXCEPT ![e].attrs = SelectSeq(@, LAMBDA a : a.name # name)], e)
  ELSE t

SetText(t, e, text) == MarkDirty([t EXCEPT ![e].kids = <<Raw(text, "ours")>>], e)

\* Children inserted after the first n, for code that reaches into kids.
InsertKids(t, e, n, nodes, child) ==
  MarkDirty([t EXCEPT ![e].kids = SubSeq(@, 1, n) \o nodes \o SubSeq(@, n + 1, Len(@)),
                      ![child].parent = e], e)

\* appendChild: after the last element, before what closes the parent.
AppendChild(t, e, child) ==
  LET kids == t[e].kids
      elems == {i \in DOMAIN kids : IsElem(kids[i])}
      n == IF elems = {} THEN 0 ELSE CHOOSE i \in elems : \A j \in elems : j <= i
      nodes == <<Space, Kid(child)>> \o (IF kids = <<>> THEN <<Space>> ELSE <<>>)
  IN  [InsertKids(t, e, n, nodes, child) EXCEPT ![e].selfClose = FALSE]

IndexOf(t, e, child) == CHOOSE i \in DOMAIN t[e].kids : t[e].kids[i].el = child
IsSpace(k) == k.text = "space"

\* Faulty variant: whatever stands before the element goes with it.
RemoveWithLead(t, e, child) ==
  LET i == IndexOf(t, e, child)
      from == IF i > 1 /\ ~IsElem(t[e].kids[i - 1]) THEN i - 1 ELSE i
  IN  MarkDirty([t EXCEPT ![e].kids = SubSeq(@, 1, from - 1) \o SubSeq(@, i + 1, Len(@))], e)

\* removeChild: with the space before it, and nothing else.
RemoveChild(t, e, child) ==
  LET i == IndexOf(t, e, child)
      from == IF i > 1 /\ IsSpace(t[e].kids[i - 1]) THEN i - 1 ELSE i
  IN  MarkDirty([t EXCEPT ![e].kids = SubSeq(@, 1, from - 1) \o SubSeq(@, i + 1, Len(@))], e)

RECURSIVE Subtree(_, _)
Subtree(t, e) ==
  <<e>> \o FlattenSeq([i \in DOMAIN ElemKids(t, e) |-> Subtree(t, ElemKids(t, e)[i].el)])

\* cloneElement: the subtree again, with the texts it was read from; the clone
\* is the element after the last.
Cloned(t, e) ==
  LET old == Subtree(t, e)
      new(x) == Len(t) + SelectInSeq(old, LAMBDA y : y = x)
  IN  t \o [i \in DOMAIN old |->
              [t[old[i]] EXCEPT
                 !.parent = IF i = 1 THEN 0 ELSE new(@),
                 !.kids = [j \in DOMAIN @ |-> IF IsElem(@[j]) THEN Kid(new(@[j].el)) ELSE @[j]]]]
=============================================================================
