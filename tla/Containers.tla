----------------------------- MODULE Containers -----------------------------
(***************************************************************************)
(* A program that keeps its data in a container of some kind and now and   *)
(* then moves them to another kind with fun::convert: the programs of Tree *)
(* and Nested, and those of the kinds that hold few elements, composed.    *)
(***************************************************************************)
EXTENDS Tree

CONSTANTS array_size,       \* the size of an array
          max_array_size    \* the largest size of a maxarray

VARIABLES xss,     \* the nested container, null while another kind is in use
          c,       \* a container of one of the flat kinds, else unused
          kind     \* which is in use

NE == INSTANCE Nested
MA == INSTANCE MaxArray WITH N <- max_array_size
AR == INSTANCE Array WITH N <- array_size
MB == INSTANCE Maybe
EI == INSTANCE Either
ID == INSTANCE IdType
PR == INSTANCE Pair
EM == INSTANCE Extra WITH E <- {0}
EX == INSTANCE Extra WITH E <- 0 .. 1
SQ == INSTANCE Seq
VE == INSTANCE Vectors
PT == INSTANCE Pointers
SF == INSTANCE SharedFuture
PA == INSTANCE Par
G1 == INSTANCE Grid
G2 == INSTANCE Grid2

FlatKinds ==
  {"maxarray", "array", "maybe", "either", "idtype", "pair", "empty", "extra", "seq", "par",
   "vector", "shared_ptr", "shared_future"}

GridKinds == {"grid", "grid2"}

unused == <<>>

allVars == <<xs, built, xss, c, kind>>

\* The sizes of a kind; trees, nested containers and grids of vectors have any.
traits == [k \in FlatKinds \cup GridKinds \cup {"tree", "nested"} |->
  CASE k = "maxarray" -> MA!traits
    [] k = "array" -> AR!traits
    [] k = "maybe" -> MB!traits
    [] k = "either" -> EI!traits
    [] k = "idtype" -> ID!traits
    [] k = "pair" -> PR!traits
    [] k = "empty" -> EM!traits
    [] k = "extra" -> EX!traits
    [] k = "seq" -> SQ!traits
    [] k = "par" -> PA!traits
    [] k = "vector" -> VE!traits
    [] k = "shared_ptr" -> PT!traits
    [] k = "shared_future" -> SF!traits
    [] OTHER -> [min |-> 0, max |-> -1]]

\* The elements of the container, whatever its kind: its fold.
list ==
  CASE kind = "tree" -> foldMap(xs)
    [] kind = "nested" -> NE!elements(xss)
    [] kind = "maxarray" -> MA!M!elements(c)
    [] kind = "array" -> AR!M!elements(c)
    [] kind = "maybe" -> MB!M!elements(c)
    [] kind = "either" -> EI!M!elements(c)
    [] kind = "idtype" -> ID!M!elements(c)
    [] kind = "pair" -> PR!M!elements(c)
    [] kind = "empty" -> EM!F!elements(c)
    [] kind = "extra" -> EX!F!elements(c)
    [] kind = "seq" -> SQ!F!elements(c)
    [] kind = "par" -> PA!F!elements(c)
    [] kind = "vector" -> VE!M!elements(c)
    [] kind = "shared_ptr" -> PT!M!elements(c)
    [] kind = "shared_future" -> SF!M!elements(c)
    [] kind = "grid" -> G1!foldMap(G1!Singles, c)
    [] kind = "grid2" -> G2!foldMap(G2!Singles, c)

-----------------------------------------------------------------------------
\* fun::convert to a tree: the elements are added one by one, each a leaf of
\* its own, so that every one is a level above those before it.
ToTree ==
  /\ kind # "tree" /\ kind' = "tree"
  /\ Become(convert(list), "other")
  /\ xss' = NE!mzero /\ c' = unused

\* convert of a tree to a nested container: the fold of the tree with mplus.
RECURSIVE nested_of(_)
nested_of(t) ==
  IF is_left(t)
    THEN NE!munit(t.val)
    ELSE FoldLeft(LAMBDA yss, s : NE!mplus(yss, <<nested_of(s)>>), NE!mzero, subtrees(t))

\* A flat container is folded like a vector.
nested_of_list(ys) == FoldLeft(LAMBDA yss, y : NE!mplus(yss, <<NE!munit(y)>>), NE!mzero, ys)

ToNested ==
  /\ kind # "nested" /\ kind' = "nested"
  /\ NE!Become(IF kind = "tree" THEN nested_of(xs) ELSE nested_of_list(list))
  /\ xs' = mzero /\ built' = "other" /\ c' = unused

\* convert to a flat kind; a maxarray has to have room for the elements.
ToFlat ==
  /\ \/ /\ kind # "maxarray" /\ kind' = "maxarray"
        /\ MA!fits(Len(list))
        /\ c' = Converted(list, MA!make, MA!mzero, MA!mplus)
     \/ /\ kind # "maybe" /\ kind' = "maybe"
        /\ c' = Converted(list, MB!make, MB!mzero, MB!mplus)
     \/ /\ kind # "either" /\ kind' = "either"
        /\ c' = Converted(list, EI!make, EI!mzero, EI!mplus)
     \/ /\ kind # "vector" /\ kind' = "vector"
        /\ c' = Converted(list, VE!make, VE!mzero, VE!mplus)
     \/ /\ kind # "shared_ptr" /\ kind' = "shared_ptr"
        /\ c' = Converted(list, PT!make, PT!mzero, PT!mplus)
  /\ xs' = mzero /\ built' = "other" /\ xss' = NE!mzero

\* The boundary of an array or a vector is an idtype.
Side ==
  /\ kind' = "idtype"
  /\ \E i \in 0 .. 1 :
       \/ kind = "maxarray" /\ MA!nonempty(c) /\ c' = MA!boundary(c, i)
       \/ kind = "array" /\ c' = AR!boundary(c, i)
       \/ kind = "vector" /\ VE!nonempty(c) /\ c' = VE!boundary(c, i)
  /\ UNCHANGED <<xs, built, xss>>

AllInit ==
  /\ Init /\ NE!Init
  /\ kind \in DOMAIN traits
  /\ CASE kind = "maxarray" -> MA!Init
       [] kind = "array" -> AR!Init
       [] kind = "maybe" -> MB!Init
       [] kind = "either" -> EI!Init
       [] kind = "idtype" -> ID!Init
       [] kind = "pair" -> PR!Init
       [] kind = "empty" -> EM!Init
       [] kind = "extra" -> EX!Init
       [] kind = "seq" -> SQ!Init
       [] kind = "par" -> PA!Init
       [] kind = "vector" -> VE!Init
       [] kind = "shared_ptr" -> PT!Init
       [] kind = "shared_future" -> SF!Init
       [] kind = "grid" -> G1!Init
       [] kind = "grid2" -> G2!Init
       [] OTHER -> c = unused

\* A call to the container of kind k leaves the other variables alone.
Flat(k, call) == kind = k /\ call /\ UNCHANGED <<xs, built, xss, kind>>

AllNext ==
  \/ kind = "tree" /\ Next /\ UNCHANGED <<xss, c, kind>>
  \/ kind = "nested" /\ NE!Next /\ UNCHANGED <<xs, built, c, kind>>
  \/ Flat("maxarray", MA!Next)
  \/ Flat("array", AR!Next)
  \/ Flat("maybe", MB!Next)
  \/ Flat("either", EI!Next)
  \/ Flat("idtype", ID!Next)
  \/ Flat("pair", PR!Next)
  \/ Flat("empty", EM!Next)
  \/ Flat("extra", EX!Next)
  \/ Flat("seq", SQ!Next)
  \/ Flat("par", PA!Next)
  \/ Flat("vector", VE!Next)
  \/ Flat("shared_ptr", PT!Next \/ PT!Side)
  \/ Flat("shared_future", SF!Next \/ SF!Side)
  \/ Flat("grid", G1!Next)
  \/ Flat("grid2", G2!Next)
  \/ ToTree \/ ToNested \/ ToFlat
  \/ Side

AllSpec == AllInit /\ [][AllNext]_allVars

-----------------------------------------------------------------------------
AC == INSTANCE Contents WITH
        list <- list, traits <- traits[kind],
        field <- IF kind = "grid" THEN G1!field ELSE G2!field

\* A grid is a function from indices to elements, however its data are laid
\* out: iotaMapMulti sets it, fmap changes every element and a boundary is
\* an end of it, also a boundary of a boundary.
IsField ==
  /\ kind \in GridKinds => AC!FieldInit
  /\ [][{kind, kind'} \subseteq GridKinds => AC!FieldNext]_<<c, kind>>

\* Every other container is a list, whatever its kind and shape: whatever
\* mixture of iotaMap, msome, convert, fmap, mplus, mbind and boundary made
\* it, with null pointers, empty vectors and empty branches or without, a
\* call changes the sequence of its elements as the same call changes a list
\* of which the kind holds as many as it can.  The exception is mbind of a
\* maxarray from which more than one element makes elements: it writes some
\* over others.  A grid is a list only to the fold that converts it.
Overwritten == kind = "maxarray" /\ MA!Overwrites /\ UNCHANGED kind

IsList ==
  /\ kind \in GridKinds \/ AC!ListInit
  /\ [][\/ {kind, kind'} \subseteq GridKinds
        \/ AC!ListNext
        \/ Overwritten]_<<list, kind>>

\* Both: what the users of fun/ rely on.
IsContainer == IsList /\ IsField

\* Type invariant: the container in use is one of its kind, with the number
\* of elements that fun_traits, mempty and msize say it has, and the others
\* are empty.
AllTypeOK ==
  /\ TypeOK /\ NE!TypeOK
  /\ kind # "tree" => xs = mzero
  /\ kind # "nested" => xss = NE!mzero
  /\ kind \in {"tree", "nested"} => c = unused
  /\ (kind = "maxarray" => MA!M!Sized)
  /\ (kind = "array" => AR!M!Sized)
  /\ (kind = "maybe" => MB!M!Sized)
  /\ (kind = "either" => EI!M!Sized)
  /\ (kind = "idtype" => ID!M!Sized)
  /\ (kind = "pair" => PR!M!Sized)
  /\ (kind = "empty" => EM!F!Sized)
  /\ (kind = "extra" => EX!F!Sized)
  /\ (kind = "seq" => SQ!F!Sized)
  /\ (kind = "par" => PA!F!Sized)
  /\ (kind = "vector" => VE!M!Sized)
  /\ (kind = "shared_ptr" => PT!M!Sized)
  /\ (kind = "shared_future" => SF!M!Sized)
  /\ (kind = "grid" => G1!Sized)
  /\ (kind = "grid2" => G2!Sized)

\* Wherever no assert is met, head, last, mextract, boundary and boundaryMap
\* give the ends of the list: see Ends of Tree, Queries of Nested and
\* Ends of the flat kinds.
AllEnds ==
  /\ Ends /\ NE!Queries
  /\ (kind = "maxarray" => MA!Ends)
  /\ (kind = "array" => AR!Ends)
  /\ (kind = "maybe" => MB!Ends)
  /\ (kind = "either" => EI!Ends)
  /\ (kind = "idtype" => ID!Ends)
  /\ (kind = "pair" => PR!Ends)
  /\ (kind = "seq" => SQ!Ends)
  /\ (kind = "par" => PA!Ends)
  /\ (kind = "vector" => VE!Ends)
  /\ (kind = "shared_ptr" => PT!Ends)
  /\ (kind = "shared_future" => SF!Ends)
  /\ (kind = "grid" => G1!Ends)
  /\ (kind = "grid2" => G2!Ends)

\* The stencils of every kind that has more than one element are those of
\* the list: see Stencil and PeriodicStencil of Tree and Stencil of the
\* arrays.
AllStencils ==
  /\ Stencil /\ PeriodicStencil
  /\ (kind = "maxarray" => MA!Stencil)
  /\ (kind = "array" => AR!Stencil)
  /\ (kind = "vector" => VE!Stencil)
  /\ (kind = "shared_ptr" => PT!Stencil)
  /\ (kind = "shared_future" => SF!Stencil)
  /\ (kind = "grid" => G1!Stencil)
  /\ (kind = "grid2" => G2!Stencil)

\* Two containers of the same shape are combined element by element: see
\* Zips of Tree and of Functor.
Zipped ==
  /\ Zips
  /\ (kind = "maxarray" => MA!M!Zips)
  /\ (kind = "array" => AR!M!Zips)
  /\ (kind = "maybe" => MB!M!Zips)
  /\ (kind = "either" => EI!M!Zips)
  /\ (kind = "idtype" => ID!M!Zips)
  /\ (kind = "pair" => PR!M!Zips)
  /\ (kind = "empty" => EM!F!Zips)
  /\ (kind = "extra" => EX!F!Zips)
  /\ (kind = "seq" => SQ!F!Zips)
  /\ (kind = "par" => PA!F!Zips)
  /\ (kind = "vector" => VE!M!Zips)
  /\ (kind = "shared_ptr" => PT!M!Zips)
  /\ (kind = "shared_future" => SF!M!Zips)
  /\ (kind = "grid" => G1!Zips)
  /\ (kind = "grid2" => G2!Zips)

\* fmap2 and foldMap2 combine what belongs together, and mbind and munit
\* obey the laws of a monad for every kind whose mbind loses nothing: see
\* MonadLaws of Tree and Laws of Monad.  mbind loses elements of a maxarray
\* and of an array, what a pair has beside its element and, given an lvalue,
\* the left value of an either: their Laws say where the laws are broken for
\* that reason, and that they hold everywhere else.
AllLaws ==
  /\ Zipped
  /\ MonadLaws
  /\ (kind = "maxarray" => MA!Laws)
  /\ (kind = "array" => AR!Laws)
  /\ (kind = "maybe" => MB!M!Laws)
  /\ (kind = "either" => EI!Laws)
  /\ (kind = "idtype" => ID!M!Laws)
  /\ (kind = "pair" => PR!Laws)
  /\ (kind = "vector" => VE!M!Laws)
  /\ (kind = "shared_ptr" => PT!M!Laws)
  /\ (kind = "shared_future" => SF!M!Laws)
=============================================================================
