------------------------------- MODULE Monad -------------------------------
(***************************************************************************)
(* The part of such a program that calls munit and mbind.  Where mbind has   *)
(* overloads that differ, the module is instantiated for each.             *)
(***************************************************************************)
EXTENDS Functor

CONSTANTS make(_), munit(_), mjoin(_), mjoin_ok(_), mbind(_, _)

kleisli(k) == [x \in Element |-> make(Copies(k, x, traits))]

Unit == \E inds \in Ranges : shape(inds) = 1 /\ c' = munit(at(inds, 0))

Bind == \E k \in 0 .. 2 :
  LET f == kleisli(k)
  IN  mjoin_ok(fmap(f, c)) /\ c' = mbind(f, c)

\* The laws: munit is neutral, mbind is associative and is mjoin of fmap.
Laws ==
  LET unit == [x \in Element |-> munit(x)]
      ok(f, xs) == mjoin_ok(fmap(f, xs))
  IN  /\ mjoin(munit(c)) = c
      /\ ok(unit, c) => mbind(unit, c) = c
      /\ \A k \in 0 .. 2 : LET f == kleisli(k) IN
           /\ ok(f, c) => mbind(f, c) = mjoin(fmap(f, c))
           /\ \A x \in Element : mbind(f, munit(x)) = f[x]
           /\ \A j \in 0 .. 2 : LET g == kleisli(j)
                                    fg == [x \in Element |-> mbind(g, f[x])]
                                IN  ok(f, c) /\ ok(g, mbind(f, c)) /\ ok(fg, c) =>
                                      mbind(g, mbind(f, c)) = mbind(fg, c)
=============================================================================
