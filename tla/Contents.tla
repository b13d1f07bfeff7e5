------------------------------ MODULE Contents ------------------------------
(***************************************************************************)
(* What the containers promise, whatever kind and shape they have.         *)
(*                                                                         *)
(* The containers of fun/ are lists: an operation acts on the sequence of  *)
(* the elements, in order.  A kind that is limited to some size keeps the  *)
(* first elements.  The grids of adt/ are fields: a grid is a function     *)
(* from the points of a box to elements, however its data are laid out.    *)
(* The points are the indices of the box, whose bounds are sequences of    *)
(* one integer per dimension.                                              *)
(*                                                                         *)
(* Containers is shown to implement both specifications, with the fold of  *)
(* the container for list.                                                 *)
(***************************************************************************)
EXTENDS Calls, Functions

VARIABLES list,
          traits,   \* the sizes that the kind of the list allows
          field

-----------------------------------------------------------------------------
(* Lists *)

Keep(xs, t) == IF t.max = -1 THEN xs ELSE SubSeq(xs, 1, Least(Len(xs), t.max))

ListInit == list \in {Indices(inds) : inds \in Ranges} /\ Fits(Len(list), traits)

\* iotaMap, msome, mzero and convert build a container, of any kind.
ListBuild == list' \in {Indices(inds) : inds \in Ranges} /\ Fits(Len(list'), traits')

\* munit has to fill a container that cannot hold fewer elements.
Unit == \E inds \in Ranges :
  /\ shape(inds) = 1
  /\ list' = [i \in 1 .. IF traits.min > 1 THEN traits.min ELSE 1 |-> at(inds, 0)]

ListMap == list' = [i \in DOMAIN list |-> Twist[list[i]]]

Plus == list' \in {Keep(us \o list \o vs, traits) : us, vs \in Operands}

Bind == list' \in
  {Keep(FlattenSeq([i \in DOMAIN list |-> Copies(k, list[i], traits)]), traits) : k \in 0 .. 2}

\* An end of the container, which may be an idtype.
ListEnd ==
  /\ traits' \in {traits, [min |-> 1, max |-> 1]}
  /\ list # <<>> /\ list' \in {<<list[1]>>, <<list[Len(list)]>>}

\* To a container of another kind.
Convert == list' = Keep(list, traits')

ListNext ==
  \/ ListBuild
  \/ Convert
  \/ ListEnd
  \/ UNCHANGED traits /\ (Unit \/ ListMap \/ Plus \/ Bind)

-----------------------------------------------------------------------------
(* Fields *)

Points == DOMAIN field

FieldInit == field \in {[p \in MultiIndices(box) |-> Number(p)] : box \in Boxes}

FieldBuild == field' \in {[p \in MultiIndices(box) |-> Number(p)] : box \in Boxes}

\* The elements are those of a range, in one dimension, or one in several.
FieldIota ==
  \/ \E inds \in Ranges :
       field' = [p \in {<<k>> : k \in 0 .. shape(inds) - 1} |-> at(inds, p[1])]
  \/ \E n \in 0 .. 2, x \in Element : field' = [p \in {[d \in 1 .. n |-> 0]} |-> x]

FieldMap == field' = [p \in Points |-> Twist[field[p]]]

\* The points at the lower (i = 0) or the upper end of dimension d.
End(d, i) ==
  {p \in Points : \A q \in Points : IF i = 0 THEN p[d] <= q[d] ELSE p[d] >= q[d]}

\* The boundary in some direction is the field at that end, with or without
\* the dimension, which has one index left.
FieldEnd == \E p \in Points : \E d \in DOMAIN p, i \in 0 .. 1 :
  \/ field' = Restrict(field, End(d, i))
  \/ LET Side == [q \in End(d, i) |-> RemoveAt(q, d)]
     IN  field' = [r \in Range(Side) |-> field[CHOOSE q \in End(d, i) : Side[q] = r]]

FieldNext == FieldBuild \/ FieldIota \/ FieldMap \/ FieldEnd
=============================================================================
