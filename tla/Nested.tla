------------------------------- MODULE Nested -------------------------------
(***************************************************************************)
(* nested<P, A> of fun/nested_impl.hpp, "P<A<T>>", for the types the tests *)
(* and the trees use: P a shared_ptr, A a vector.  A container is a        *)
(* pointer (see SharedPtr) to a vector of elements; every operation is the *)
(* operation of P applied to the operation of A.                           *)
(*                                                                         *)
(* The program keeps its data in such a container and calls the operations *)
(* on it, one after another.  A call is made only where none of the        *)
(* library's asserts would stop it; so an action's guard is what the       *)
(* library requires of its caller.                                         *)
(***************************************************************************)
EXTENDS NestedSize, Calls

P == INSTANCE SharedPtr
A == INSTANCE Vector

\* The elements of a container.
Values(xss) == IF P!set(xss) THEN Range(xss[1]) ELSE {}

\* The calls of nested_iotaMap and nested_iotaMapMulti that NestedIota takes
\* one by one, here with one pointer for the outer container.
iotaMap(inds) ==
  LET oinds == nested_calc_outer_inds(P!traits, A!traits, inds)
      calls == P!iotaMap(oinds)
  IN  P!fmap([i \in Range(calls) |-> A!iotaMap(nested_calc_inner_inds(inds, oinds, i))],
             calls)

iotaMapMulti(inds) ==
  LET oinds == nested_calc_outer_range(P!traits, A!traits, inds)
      calls == P!iotaMapMulti(oinds)
  IN  P!fmap([i \in Range(calls) |->
                A!iotaMapMulti(nested_calc_inner_range(inds, oinds, i))],
             calls)

fmap(f, xss) == P!fmap([xs \in Range(xss) |-> A!fmap(f, xs)], xss)

same_size(xss, yss) ==
  P!same_size(xss, yss) /\ (P!set(xss) => A!same_size(xss[1], yss[1]))

fmap2(xss, yss) ==
  LET calls == P!fmap2(xss, yss)
  IN  P!fmap([c \in Range(calls) |-> A!fmap2(c[1], c[2])], calls)

fmapStencil(g, xss, bmask, bm, bp) ==
  LET calls == P!fmapStencil(xss, bmask, bm, bp)
  IN  P!fmap([c \in Range(calls) |-> A!fmapStencil(g, c[1], c[2], c[3], c[4])], calls)

\* One dimension; bm0 and bp0 are containers of one element, as boundary
\* makes them.
fmapStencilMulti(g, xss, bmask, bm0, bp0) ==
  LET calls == P!fmapStencilMulti(xss, bmask, bm0, bp0)
  IN  P!fmap([c \in Range(calls) |-> A!fmapStencilMulti(g, c[1], c[2], c[3], c[4])], calls)

\* What head, last, boundary and mextract assert on their way to an element.
nonempty(xss) == P!set(xss) /\ A!nonempty(xss[1])

head(xss) == P!head(P!fmap([xs \in Range(xss) |-> A!head(xs)], xss))

last(xss) == P!last(P!fmap([xs \in Range(xss) |-> A!last(xs)], xss))

boundary(xss, i) == P!fmap([xs \in Range(xss) |-> A!boundary(xs, i)], P!boundary(xss, i))

\* f takes an element and the direction.
boundaryMap(f, xss, i) == fmap([x \in Values(xss) |-> f[x, i]], boundary(xss, i))

\* The operation is applied within A; a pointer hands the result on.
foldMap(f, xss) == P!foldMap([xs \in Range(xss) |-> A!foldMap(f, xs)], xss)

foldMap2(f, xss, yss) ==
  P!foldMap2([xs \in Range(xss), ys \in Range(yss) |-> A!foldMap2(f, xs, ys)], xss, yss)

munit(x) == P!munit(A!munit(x))

mzero == P!mzero

msome(x, ys) == P!munit(A!msome(x, ys))

\* A null pointer counts as no elements; the result is never null.
mplus(xss, yss) ==
  LET inner(zs) == IF P!mempty(zs) THEN A!mzero ELSE P!mextract(zs)
  IN  P!munit(A!mplus(inner(xss), [i \in DOMAIN yss |-> inner(yss[i])]))

mempty(xss) == P!mempty(xss)

msize(xss) == IF mempty(xss) THEN 0 ELSE A!msize(xss[1])

mextract(xss) == A!mextract(P!mextract(xss))

\* mjoin takes the inner containers out of the elements; every element must
\* be a set pointer and, so the assert says, have at most one element.
joinable(xsss) ==
  \A i \in DOMAIN xsss : \A j \in DOMAIN xsss[i] :
    msize(xsss[i][j]) <= 1 /\ P!set(xsss[i][j])

mjoin(xsss) ==
  P!fmap([xss \in Range(xsss) |->
            A!mjoin(A!fmap([ys \in Range(xss) |-> P!mextract(ys)], xss))],
         xsss)

mbind(f, xss) == mjoin(fmap(f, xss))

-----------------------------------------------------------------------------
\* The program.
CONSTANT MaxSize    \* bound of the model: no container grows beyond

VARIABLE xss    \* the container

\* The list that a container stands for: its fold in the free monoid.
elements(yss) == foldMap([x \in Values(yss) |-> <<x>>], yss)

vars == xss

Become(yss) == msize(yss) <= MaxSize /\ xss' = yss

Init == xss = mzero

IotaMap == \E inds \in Ranges :
  LET oinds == nested_calc_outer_inds(P!traits, A!traits, inds)
  IN  /\ outer_inds_ok(P!traits, A!traits, inds)
      /\ \A i \in Range(Indices(oinds)) :
           inner_inds_ok(P!traits, A!traits, nested_calc_inner_inds(inds, oinds, i))
      /\ Become(iotaMap(inds))

\* A container made by mzero, munit or msome.
operand(ys) ==
  IF ys = <<>> THEN mzero ELSE IF Len(ys) = 1 THEN munit(ys[1]) ELSE msome(ys[1], Tail(ys))

Make == \E inds \in Ranges : Become(operand(Indices(inds)))

Fmap == Become(fmap(Twist, xss))

Mplus == \E us, vs \in Operands :
  \E args \in {<<xss>>, <<xss, operand(vs)>>, <<operand(us), xss>>,
               <<operand(us), xss, operand(vs)>>} :
    Become(mplus(Head(args), Tail(args)))

\* The function given to mbind makes none, one or two elements of one; the
\* container of none is a pointer to an empty vector, or null.
kleisli(k, null) ==
  [x \in Element |->
     LET n == (x + k) % 3
     IN  CASE n = 0 -> IF null THEN mzero ELSE mplus(mzero, <<>>)
           [] n = 1 -> munit(x)
           [] n = 2 -> msome(x, <<Twist[x]>>)]

Mbind == \E k \in 0 .. 2, null \in BOOLEAN :
  /\ joinable(fmap(kleisli(k, null), xss))
  /\ Become(mbind(kleisli(k, null), xss))

Boundary == \E i \in 0 .. 1 : nonempty(xss) /\ Become(boundary(xss, i))

Next == IotaMap \/ Make \/ Fmap \/ Mplus \/ Mbind \/ Boundary

Spec == Init /\ [][Next]_vars

-----------------------------------------------------------------------------
\* Type invariant: a pointer to a vector of elements.
TypeOK == xss = <<>> \/ (xss = <<elements(xss)>> /\ Range(elements(xss)) \subseteq Element)

\* The queries agree with the list: msize counts its elements, a container
\* with elements is not mempty and its head, last and boundary, which then
\* meet no assert, are the ends of the list.  mempty implies that there are
\* no elements, but a pointer to an empty vector is neither mempty nor may
\* it be asked for its ends.
Queries ==
  LET list == elements(xss)
  IN  /\ msize(xss) = Len(list)
      /\ mempty(xss) => list = <<>>
      /\ nonempty(xss) <=> list # <<>>
      /\ nonempty(xss) =>
           /\ head(xss) = list[1] /\ mextract(xss) = list[1]
           /\ last(xss) = list[Len(list)]
           /\ LET f == [x \in Element, i \in 0 .. 1 |-> <<x, i>>]
              IN  /\ elements(boundaryMap(f, xss, 0)) = <<<<list[1], 0>>>>
                  /\ elements(boundaryMap(f, xss, 1)) = <<<<list[Len(list)], 1>>>>
=============================================================================
