---------------------------- MODULE RouteProofs ----------------------------
(***************************************************************************)
(* Proofs about RouteLayers, what the route table the injectors write does  *)
(* with a connection, and about Resolvers, who is asked for a name; for any *)
(* lists, rule sets, custom rules, nodes, groups, DNS settings and base     *)
(* config.                                                                  *)
(***************************************************************************)
EXTENDS Resolvers, FiniteSetTheorems, WellFoundedInduction, TLAPS

(* Sequences by their positions.                                            *)

IsSeq(s) == \E S : s \in Seq(S)

\* The positions of a sequence.
LEMMA Positions ==
    ASSUME NEW s, IsSeq(s)
    PROVE  Len(s) \in Nat /\ DOMAIN s = 1 .. Len(s)
BY DEF IsSeq

\* One sequence after another.
LEMMA Concat ==
    ASSUME NEW S, NEW s \in Seq(S), NEW t \in Seq(S)
    PROVE  /\ s \o t \in Seq(S)
           /\ Len(s \o t) = Len(s) + Len(t)
           /\ \A i \in 1 .. Len(s) : (s \o t)[i] = s[i]
           /\ \A i \in 1 .. Len(t) : (s \o t)[Len(s) + i] = t[i]
OBVIOUS

\* Two sequences are sequences over one set.
LEMMA OverOneSet ==
    ASSUME NEW s, NEW t, IsSeq(s), IsSeq(t)
    PROVE  \E S : s \in Seq(S) /\ t \in Seq(S)
<1>1. PICK S : s \in Seq(S)
    BY DEF IsSeq
<1>2. PICK T : t \in Seq(T)
    BY DEF IsSeq
<1>3. s \in Seq(S \cup T) /\ t \in Seq(S \cup T)
    BY <1>1, <1>2
<1> QED
    BY <1>3

\* The same, whatever the sets are.
LEMMA Joined ==
    ASSUME NEW s, NEW t, IsSeq(s), IsSeq(t)
    PROVE  /\ IsSeq(s \o t)
           /\ Len(s \o t) = Len(s) + Len(t)
           /\ \A i \in 1 .. Len(s) : (s \o t)[i] = s[i]
           /\ \A i \in 1 .. Len(t) : (s \o t)[Len(s) + i] = t[i]
<1>1. PICK S : s \in Seq(S) /\ t \in Seq(S)
    BY OverOneSet
<1> QED
    BY <1>1, Concat DEF IsSeq

\* A sequence of one element.
LEMMA Single == ASSUME NEW e PROVE IsSeq(<<e>>) /\ Len(<<e>>) = 1 /\ <<e>>[1] = e
<1>1. <<e>> \in Seq({e})
    OBVIOUS
<1> QED
    BY <1>1 DEF IsSeq

\* A sequence with others inserted.
LEMMA Inserted ==
    ASSUME NEW s, NEW t, NEW n, IsSeq(s), IsSeq(t), n \in 0 .. Len(s)
    PROVE  /\ IsSeq(Insert(s, n, t))
           /\ Len(Insert(s, n, t)) = Len(s) + Len(t)
           /\ \A i \in 1 .. n : Insert(s, n, t)[i] = s[i]
           /\ \A i \in 1 .. Len(t) : Insert(s, n, t)[n + i] = t[i]
           /\ \A i \in n + 1 .. Len(s) : Insert(s, n, t)[i + Len(t)] = s[i]
<1>1. PICK S : s \in Seq(S) /\ t \in Seq(S)
    BY OverOneSet
<1>2. PICK a : a = SubSeq(s, 1, n)
    OBVIOUS
<1>3. PICK b : b = SubSeq(s, n + 1, Len(s))
    OBVIOUS
<1>4. PICK m : m = a \o t
    OBVIOUS
<1>5. a \in Seq(S) /\ Len(a) = n /\ \A i \in 1 .. n : a[i] = s[i]
    BY <1>1, <1>2
<1>6. b \in Seq(S) /\ Len(b) = Len(s) - n /\ \A i \in 1 .. Len(s) - n : b[i] = s[n + i]
    BY <1>1, <1>3
<1>7. Len(s) \in Nat /\ Len(t) \in Nat /\ n \in Nat
    BY <1>1
<1>8. /\ m \in Seq(S) /\ Len(m) = n + Len(t)
      /\ \A i \in 1 .. n : m[i] = s[i]
      /\ \A i \in 1 .. Len(t) : m[n + i] = t[i]
    <2>1. /\ m \in Seq(S) /\ Len(m) = Len(a) + Len(t)
          /\ \A i \in 1 .. Len(a) : m[i] = a[i]
          /\ \A i \in 1 .. Len(t) : m[Len(a) + i] = t[i]
        <3>1. a \in Seq(S) /\ t \in Seq(S)
            BY <1>1, <1>5
        <3> QED
            BY <1>4, <3>1, Concat
    <2> QED
        BY <1>5, <2>1
<1>9. /\ Insert(s, n, t) = m \o b /\ IsSeq(m \o b) /\ Len(m \o b) = Len(s) + Len(t)
      /\ \A i \in 1 .. n + Len(t) : (m \o b)[i] = m[i]
      /\ \A i \in 1 .. Len(s) - n : (m \o b)[n + Len(t) + i] = b[i]
    <2>1. /\ m \o b \in Seq(S) /\ Len(m \o b) = Len(m) + Len(b)
          /\ \A i \in 1 .. Len(m) : (m \o b)[i] = m[i]
          /\ \A i \in 1 .. Len(b) : (m \o b)[Len(m) + i] = b[i]
        <3>1. m \in Seq(S) /\ b \in Seq(S)
            BY <1>6, <1>8
        <3> QED
            BY <3>1, Concat
    <2>2. Insert(s, n, t) = m \o b
        BY <1>2, <1>3, <1>4 DEF Insert
    <2>3. IsSeq(m \o b)
        BY <2>1 DEF IsSeq
    <2> QED
        BY <1>6, <1>7, <1>8, <2>1, <2>2, <2>3
<1>10. ASSUME NEW i \in n + 1 .. Len(s) PROVE (m \o b)[i + Len(t)] = s[i]
    <2>1. i - n \in 1 .. Len(s) - n /\ n + Len(t) + (i - n) = i + Len(t) /\ n + (i - n) = i
        BY <1>7
    <2>2. (m \o b)[n + Len(t) + (i - n)] = b[i - n]
        BY <1>9, <2>1
    <2> QED
        BY <1>6, <2>1, <2>2
<1> QED
    BY <1>7, <1>8, <1>9, <1>10

\* The less-than relation of the naturals, and that it has least elements.
Before == OpToRel(<, Nat)

\* Which numbers it relates.
LEMMA BeforeIs == ASSUME NEW i \in Nat, NEW j \in Nat, i < j PROVE <<i, j>> \in Before
BY DEF Before, OpToRel

\* Least is the least element of a set of naturals that has one.
LEMMA LeastIs ==
    ASSUME NEW T, T \subseteq Nat, T # {}
    PROVE  Least(T) \in T /\ \A j \in T : Least(T) <= j
<1>1. IsWellFoundedOn(Before, Nat)
    BY NatLessThanWellFounded DEF Before
<1>2. PICK i \in T : \A j \in T : ~(<<j, i>> \in Before)
    BY <1>1, WFMin
<1>3. ASSUME NEW j \in T PROVE i <= j
    <2>1. i \in Nat /\ j \in Nat /\ ~(<<j, i>> \in Before)
        BY <1>2
    <2> QED
        BY <2>1, BeforeIs
<1> QED
    BY <1>2, <1>3 DEF Least
-----------------------------------------------------------------------------
(* The two places where rules are inserted, and the first match.            *)

\* The prelude: every rule in it sniffs, the one after it does not.
LEMMA PreludeIs ==
    ASSUME NEW rules, IsSeq(rules)
    PROVE  /\ preludeLen(rules) \in 0 .. Len(rules)
           /\ \A i \in 1 .. preludeLen(rules) : rules[i].kind = "sniff"
           /\ preludeLen(rules) # Len(rules) => rules[preludeLen(rules) + 1].kind # "sniff"
<1> DEFINE T == {n \in 0 .. Len(rules) : n = Len(rules) \/ rules[n + 1].kind # "sniff"}
           p == preludeLen(rules)
<1>1. Len(rules) \in Nat /\ Len(rules) \in T
    BY Positions
<1>2. p \in T /\ \A j \in T : p <= j
    <2>1. T \subseteq Nat /\ T # {}
        BY <1>1
    <2>2. p = Least(T)
        BY DEF preludeLen
    <2> QED
        BY <2>1, <2>2, LeastIs
<1>3. ASSUME NEW i \in 1 .. p PROVE rules[i].kind = "sniff"
    <2>1. i - 1 \in 0 .. Len(rules) /\ ~(p <= i - 1) /\ (i - 1) + 1 = i
        BY <1>1, <1>2
    <2> QED
        BY <1>2, <2>1
<1> QED
    BY <1>1, <1>2, <1>3

\* A number with the properties of the prelude is its length.
LEMMA PreludeWhere ==
    ASSUME NEW rules, IsSeq(rules), NEW p \in 0 .. Len(rules),
           \A i \in 1 .. p : rules[i].kind = "sniff",
           p # Len(rules) => rules[p + 1].kind # "sniff"
    PROVE  preludeLen(rules) = p
<1>1. Len(rules) \in Nat
    BY Positions
<1>2. ~(preludeLen(rules) < p)
    BY <1>1, PreludeIs
<1>3. ~(p < preludeLen(rules))
    BY <1>1, PreludeIs
<1> QED
    BY <1>1, <1>2, <1>3, PreludeIs

\* The catch-all: no rule above it is one.
LEMMA CatchAllIs ==
    ASSUME NEW rules, IsSeq(rules)
    PROVE  /\ catchAllIdx(rules) \in 1 .. Len(rules) + 1
           /\ \A i \in 1 .. catchAllIdx(rules) - 1 : ~isCatchAllRule(rules[i])
           /\ catchAllIdx(rules) <= Len(rules) => isCatchAllRule(rules[catchAllIdx(rules)])
<1> DEFINE T == {n \in 1 .. Len(rules) + 1 : n = Len(rules) + 1 \/ isCatchAllRule(rules[n])}
           q == catchAllIdx(rules)
<1>1. Len(rules) \in Nat /\ Len(rules) + 1 \in T
    BY Positions
<1>2. q \in T /\ \A j \in T : q <= j
    <2>1. T \subseteq Nat /\ T # {}
        BY <1>1
    <2>2. q = Least(T)
        BY DEF catchAllIdx
    <2> QED
        BY <2>1, <2>2, LeastIs
<1>3. ASSUME NEW i \in 1 .. q - 1 PROVE ~isCatchAllRule(rules[i])
    BY <1>1, <1>2
<1> QED
    BY <1>1, <1>2, <1>3

\* A position with these properties is the catch-all's.
LEMMA CatchAllWhere ==
    ASSUME NEW rules, IsSeq(rules), NEW q \in 1 .. Len(rules) + 1,
           \A i \in 1 .. q - 1 : ~isCatchAllRule(rules[i]),
           q <= Len(rules) => isCatchAllRule(rules[q])
    PROVE  catchAllIdx(rules) = q
<1>1. Len(rules) \in Nat
    BY Positions
<1>2. ~(catchAllIdx(rules) < q)
    BY <1>1, CatchAllIs
<1>3. ~(q < catchAllIdx(rules))
    BY <1>1, CatchAllIs
<1> QED
    BY <1>1, <1>2, <1>3, CatchAllIs

\* A rule that matches is the one that decides, unless one above it matches.
LEMMA FirstMatch ==
    ASSUME NEW rules, IsSeq(rules), NEW c, NEW k \in Matching(rules, c)
    PROVE  \E i \in 1 .. k : /\ i \in Matching(rules, c) /\ Verdict(rules, c) = rules[i].out
                             /\ \A j \in Matching(rules, c) : i <= j
<1>1. Matching(rules, c) \subseteq 1 .. Len(rules) /\ Len(rules) \in Nat
    BY Positions DEF Matching
<1>2. Least(Matching(rules, c)) \in Matching(rules, c)
      /\ \A j \in Matching(rules, c) : Least(Matching(rules, c)) <= j
    BY <1>1, LeastIs
<1> QED
    BY <1>1, <1>2 DEF Verdict

\* Above the resolve rule a connection shows what it was dialled with.
LEMMA AsDialled ==
    ASSUME NEW rules, IsSeq(rules), NEW c, NEW k \in 1 .. Len(rules),
           \A j \in 1 .. k - 1 : rules[j].kind # "resolve"
    PROVE  k \in Matching(rules, c) <=> Matches(rules[k], c, c.byAddr)
BY Positions DEF Matching, Matches, HitsAny, Hits
-----------------------------------------------------------------------------
(* The shape of a route table while the injectors work on it.               *)

Elems(s) == {s[i] : i \in 1 .. Len(s)}

\* The rules the operator wrote into the base config.
BaseAbove == {base.rules[i] : i \in {k \in DOMAIN base.rules : ~isCatchAllRule(base.rules[k])}}

\* No outbound is known.
Open == ""

CatchAlls == {r \in BaseRule : isCatchAllRule(r)}

\* p sniffing rules, the rules F up to position f, rules of the base config up
\* to q, then mid and, if there is one, the catch-all: with the outbound last,
\* if that is known.
Places(rules, F, mid, last, p, f, q) ==
    /\ p <= f /\ f <= q /\ q + Len(mid) <= Len(rules)
    /\ \A j \in 1 .. p : rules[j].kind = "sniff"
    /\ p # Len(rules) => rules[p + 1].kind # "sniff"
    /\ \A j \in p + 1 .. f : rules[j] \in F
    /\ \A r \in F : \E j \in p + 1 .. f : rules[j] = r
    /\ \A j \in f + 1 .. q : rules[j] \in BaseAbove
    /\ \A j \in 1 .. Len(mid) : rules[q + j] = mid[j]
    /\ q + Len(mid) # Len(rules) => rules[q + Len(mid) + 1] \in CatchAlls
    /\ last # Open => q + Len(mid) # Len(rules) /\ rules[q + Len(mid) + 1].out = last
Shaped(rules, F, mid, last) ==
    /\ IsSeq(rules) /\ IsSeq(mid)
    /\ \A r \in F \cup Elems(mid) : ~isCatchAllRule(r)
    /\ \E p, f, q \in Nat : Places(rules, F, mid, last, p, f, q)

\* The base config, before the injectors.
LEMMA BaseShaped ==
    ASSUME base.rules \in Seq(BaseRule)
    PROVE  Shaped(base.rules, {}, <<>>, Open)
<1> DEFINE rules == base.rules
           p == preludeLen(rules)
           q == catchAllIdx(rules) - 1
<1>1. IsSeq(rules) /\ Len(rules) \in Nat /\ DOMAIN rules = 1 .. Len(rules)
    BY Positions DEF IsSeq
<1>2. IsSeq(<<>>) /\ Len(<<>>) = 0 /\ Elems(<<>>) = {}
    <2>1. <<>> \in Seq({})
        OBVIOUS
    <2> QED
        BY <2>1 DEF IsSeq, Elems
<1>3. /\ p \in 0 .. Len(rules) /\ \A i \in 1 .. p : rules[i].kind = "sniff"
      /\ p # Len(rules) => rules[p + 1].kind # "sniff"
    BY <1>1, PreludeIs
<1>4. /\ q \in 0 .. Len(rules) /\ \A i \in 1 .. q : ~isCatchAllRule(rules[i])
      /\ q # Len(rules) => rules[q + 1] \in CatchAlls
    <2>1. /\ catchAllIdx(rules) \in 1 .. Len(rules) + 1
          /\ \A i \in 1 .. catchAllIdx(rules) - 1 : ~isCatchAllRule(rules[i])
          /\ catchAllIdx(rules) <= Len(rules) => isCatchAllRule(rules[catchAllIdx(rules)])
        BY <1>1, CatchAllIs
    <2>2. \A i \in 1 .. Len(rules) : rules[i] \in BaseRule
        OBVIOUS
    <2> QED
        BY <1>1, <2>1, <2>2 DEF CatchAlls
<1>5. p <= q
    <2>1. \A i \in 1 .. p : ~isCatchAllRule(rules[i])
        BY <1>3 DEF isCatchAllRule
    <2>2. p \in Nat /\ q \in Nat /\ p <= Len(rules) /\ Len(rules) \in Nat
        BY <1>1, <1>3, <1>4
    <2>3. ASSUME ~(p <= q) PROVE FALSE
        <3>1. q + 1 \in 1 .. p /\ q # Len(rules)
            BY <2>2, <2>3
        <3> QED
            BY <1>4, <2>1, <3>1 DEF CatchAlls
    <2> QED
        BY <2>3
<1>6. \A j \in p + 1 .. q : rules[j] \in BaseAbove
    BY <1>1, <1>3, <1>4 DEF BaseAbove
<1>7. Places(rules, {}, <<>>, Open, p, p, q)
    BY <1>1, <1>2, <1>3, <1>4, <1>5, <1>6 DEF Places
<1>8. p \in Nat /\ q \in Nat
    BY <1>1, <1>3, <1>4
<1> QED
    BY <1>1, <1>2, <1>7, <1>8 DEF Shaped

\* Rules inserted after the prelude join F.
LEMMA ShapedAfterPrelude ==
    ASSUME NEW rules, NEW F, NEW mid, NEW last, Shaped(rules, F, mid, last),
           NEW new, IsSeq(new),
           \A r \in Elems(new) : r.kind \notin {"sniff", "network"}
    PROVE  Shaped(AfterPrelude(rules, new), F \cup Elems(new), mid, last)
<1>1. PICK p \in Nat, f \in Nat, q \in Nat : Places(rules, F, mid, last, p, f, q)
    BY DEF Shaped
<1>2. IsSeq(rules) /\ Len(rules) \in Nat /\ IsSeq(mid) /\ Len(mid) \in Nat /\ Len(new) \in Nat
    BY Positions DEF Shaped
<1>a. p <= f /\ f <= q /\ q + Len(mid) <= Len(rules)
    BY <1>1 DEF Places
<1>b. p \in 0 .. Len(rules)
    BY <1>1, <1>2, <1>a
<1>3. preludeLen(rules) = p
    <2>1. p \in 0 .. Len(rules)
        BY <1>b
    <2> QED
        BY <1>1, <1>2, <2>1, PreludeWhere DEF Places
<1>4. PICK x : x = AfterPrelude(rules, new)
    OBVIOUS
<1>5. PICK n : n = Len(new)
    OBVIOUS
<1>6. n \in Nat /\ \A i \in 1 .. n : new[i] \in Elems(new)
    BY <1>2, <1>5 DEF Elems
<1>7. /\ IsSeq(x) /\ Len(x) = Len(rules) + n
      /\ \A i \in 1 .. p : x[i] = rules[i]
      /\ \A i \in 1 .. n : x[p + i] = new[i]
      /\ \A i \in p + 1 .. Len(rules) : x[i + n] = rules[i]
    <2>1. x = Insert(rules, p, new)
        BY <1>3, <1>4 DEF AfterPrelude
    <2>2. IsSeq(rules)
        BY <1>2
    <2>3. /\ IsSeq(Insert(rules, p, new))
          /\ Len(Insert(rules, p, new)) = Len(rules) + Len(new)
          /\ \A i \in 1 .. p : Insert(rules, p, new)[i] = rules[i]
          /\ \A i \in 1 .. Len(new) : Insert(rules, p, new)[p + i] = new[i]
          /\ \A i \in p + 1 .. Len(rules) : Insert(rules, p, new)[i + Len(new)] = rules[i]
        BY <1>b, <2>2, Inserted
    <2> QED
        BY <1>5, <2>1, <2>3
<1>8. Places(x, F \cup Elems(new), mid, last, p, f + n, q + n)
    <2>1. p <= f + n /\ f + n <= q + n /\ q + n + Len(mid) <= Len(x)
        BY <1>1, <1>2, <1>6, <1>7, <1>a
    <2>2. \A j \in 1 .. p : x[j].kind = "sniff"
        BY <1>1, <1>7 DEF Places
    <2>3. p # Len(x) => x[p + 1].kind # "sniff"
        <3>1. CASE n = 0
            <4>1. Len(x) = Len(rules)
                BY <1>2, <1>7, <3>1
            <4>2. ASSUME p # Len(rules) PROVE x[p + 1] = rules[p + 1]
                <5>1. p + 1 \in p + 1 .. Len(rules) /\ p + 1 + n = p + 1
                    BY <1>2, <1>b, <3>1, <4>2
                <5> QED
                    BY <1>7, <5>1
            <4> QED
                BY <1>1, <4>1, <4>2 DEF Places
        <3>2. CASE n # 0
            <4>1. 1 \in 1 .. n /\ x[p + 1] = new[1]
                BY <1>6, <1>7, <3>2
            <4> QED
                BY <1>6, <4>1
        <3> QED
            BY <3>1, <3>2
    <2>4. ASSUME NEW j \in p + 1 .. f + n PROVE x[j] \in F \cup Elems(new)
        <3>1. CASE j <= p + n
            <4>1. j - p \in 1 .. n /\ p + (j - p) = j
                BY <1>6, <3>1
            <4> QED
                BY <1>6, <1>7, <4>1
        <3>2. CASE j > p + n
            <4>1. j - n \in p + 1 .. f /\ (j - n) + n = j /\ j - n \in p + 1 .. Len(rules)
                BY <1>1, <1>2, <1>6, <1>a, <3>2
            <4>2. x[j] = rules[j - n] /\ rules[j - n] \in F
                BY <1>1, <1>7, <4>1 DEF Places
            <4> QED
                BY <4>2
        <3> QED
            BY <1>6, <3>1, <3>2
    <2>5. ASSUME NEW r \in F PROVE \E j \in p + 1 .. f + n : x[j] = r
        <3>1. PICK j \in p + 1 .. f : rules[j] = r
            BY <1>1, <2>5 DEF Places
        <3>2. j + n \in p + 1 .. f + n /\ j \in p + 1 .. Len(rules)
            BY <1>1, <1>2, <1>6, <1>a
        <3> QED
            BY <1>7, <3>1, <3>2
    <2>6. ASSUME NEW r \in Elems(new) PROVE \E j \in p + 1 .. f + n : x[j] = r
        <3>1. PICK i \in 1 .. n : new[i] = r
            BY <1>5 DEF Elems
        <3>2. p + i \in p + 1 .. f + n
            BY <1>1, <1>2, <1>6, <1>a
        <3> QED
            BY <1>7, <3>1, <3>2
    <2>7. ASSUME NEW j \in f + n + 1 .. q + n PROVE x[j] \in BaseAbove
        <3>1. j - n \in f + 1 .. q /\ j - n \in p + 1 .. Len(rules) /\ (j - n) + n = j
            BY <1>1, <1>2, <1>6, <1>a
        <3>2. x[j] = rules[j - n] /\ rules[j - n] \in BaseAbove
            BY <1>1, <1>7, <3>1 DEF Places
        <3> QED
            BY <3>2
    <2>8. ASSUME NEW j \in 1 .. Len(mid) PROVE x[q + n + j] = mid[j]
        <3>1. q + j \in p + 1 .. Len(rules) /\ (q + j) + n = q + n + j
            BY <1>1, <1>2, <1>6, <1>a
        <3>2. x[q + n + j] = rules[q + j] /\ rules[q + j] = mid[j]
            BY <1>1, <1>7, <3>1 DEF Places
        <3> QED
            BY <3>2
    <2>9. /\ q + n + Len(mid) # Len(x) => x[q + n + Len(mid) + 1] \in CatchAlls
          /\ last # Open => q + n + Len(mid) # Len(x) /\ x[q + n + Len(mid) + 1].out = last
        <3> DEFINE k == q + Len(mid) + 1
        <3>1. q + n + Len(mid) # Len(x) <=> q + Len(mid) # Len(rules)
            <4>1. Len(x) = Len(rules) + n
                BY <1>7
            <4> QED
                BY <1>1, <1>2, <1>6, <4>1
        <3>2. ASSUME q + Len(mid) # Len(rules) PROVE x[q + n + Len(mid) + 1] = rules[k]
            <4>1. k \in p + 1 .. Len(rules) /\ k + n = q + n + Len(mid) + 1
                BY <1>1, <1>2, <1>6, <1>a, <3>2
            <4> QED
                BY <1>7, <4>1
        <3> QED
            BY <1>1, <3>1, <3>2 DEF Places
    <2> QED
        BY <2>1, <2>2, <2>3, <2>4, <2>5, <2>6, <2>7, <2>8, <2>9 DEF Places
<1>9. f + n \in Nat /\ q + n \in Nat
    BY <1>6
<1>10. \A r \in F \cup Elems(new) \cup Elems(mid) : ~isCatchAllRule(r)
    BY DEF Shaped, isCatchAllRule
<1> QED
    BY <1>2, <1>4, <1>7, <1>8, <1>9, <1>10 DEF Shaped

\* Where the catch-all of a shape is, or would be.
LEMMA CatchAllOfShape ==
    ASSUME NEW rules, NEW F, NEW mid, NEW last, Shaped(rules, F, mid, last),
           NEW p \in Nat, NEW f \in Nat, NEW q \in Nat, Places(rules, F, mid, last, p, f, q)
    PROVE  catchAllIdx(rules) = q + Len(mid) + 1
<1>1. IsSeq(rules) /\ Len(rules) \in Nat /\ Len(mid) \in Nat
    BY Positions DEF Shaped
<1>2. p <= f /\ f <= q /\ q + Len(mid) <= Len(rules)
    BY DEF Places
<1>3. ASSUME NEW i \in 1 .. q + Len(mid) PROVE ~isCatchAllRule(rules[i])
    <2>1. CASE i \in 1 .. p
        BY <2>1 DEF Places, isCatchAllRule
    <2>2. CASE i \in p + 1 .. f
        BY <2>2 DEF Places, Shaped
    <2>3. CASE i \in f + 1 .. q
        BY <2>3 DEF Places, BaseAbove
    <2>4. CASE i - q \in 1 .. Len(mid)
        <3>1. q + (i - q) = i
            BY <1>1
        <3>2. rules[i] = mid[i - q]
            BY <2>4, <3>1 DEF Places
        <3> QED
            BY <2>4, <3>2 DEF Shaped, Elems
    <2> QED
        BY <1>1, <1>2, <2>1, <2>2, <2>3, <2>4
<1>4. q + Len(mid) + 1 \in 1 .. Len(rules) + 1
    BY <1>1, <1>2
<1>5. q + Len(mid) + 1 <= Len(rules) => isCatchAllRule(rules[q + Len(mid) + 1])
    <2>1. q + Len(mid) + 1 <= Len(rules) => q + Len(mid) # Len(rules)
        BY <1>1
    <2> QED
        BY <2>1 DEF Places, CatchAlls
<1>6. (q + Len(mid) + 1) - 1 = q + Len(mid)
    BY <1>1
<1> QED
    BY <1>1, <1>3, <1>4, <1>5, <1>6, CatchAllWhere

\* Rules inserted before the catch-all follow those that are there.
LEMMA ShapedBeforeCatchAll ==
    ASSUME NEW rules, NEW F, NEW mid, Shaped(rules, F, mid, Open),
           NEW new, IsSeq(new), Len(new) # 0,
           \A r \in Elems(new) : r.kind \notin {"sniff", "network"}
    PROVE  Shaped(BeforeCatchAll(rules, new), F, mid \o new, Open)
<1>1. PICK p \in Nat, f \in Nat, q \in Nat : Places(rules, F, mid, Open, p, f, q)
    BY DEF Shaped
<1>2. IsSeq(rules) /\ Len(rules) \in Nat /\ IsSeq(mid) /\ Len(mid) \in Nat /\ Len(new) \in Nat
    BY Positions DEF Shaped
<1>3. p <= f /\ f <= q /\ q + Len(mid) <= Len(rules)
    BY <1>1 DEF Places
<1>4. PICK x : x = BeforeCatchAll(rules, new)
    OBVIOUS
<1>5. PICK y : y = mid \o new
    OBVIOUS
<1>6. PICK k \in Nat : k = q + Len(mid)
    BY <1>1, <1>2
<1>7. x = Insert(rules, k, new)
    <2>1. catchAllIdx(rules) = q + Len(mid) + 1
        BY <1>1, CatchAllOfShape
    <2>2. catchAllIdx(rules) - 1 = k
        BY <1>1, <1>2, <1>6, <2>1
    <2> QED
        BY <1>4, <2>2 DEF BeforeCatchAll
<1>8. k \in 0 .. Len(rules) /\ p <= k /\ q <= k
    BY <1>1, <1>2, <1>3, <1>6
<1>9. /\ IsSeq(x) /\ Len(x) = Len(rules) + Len(new)
      /\ \A i \in 1 .. k : x[i] = rules[i]
      /\ \A i \in 1 .. Len(new) : x[k + i] = new[i]
      /\ \A i \in k + 1 .. Len(rules) : x[i + Len(new)] = rules[i]
    <2>1. IsSeq(rules) /\ k \in 0 .. Len(rules)
        BY <1>2, <1>8
    <2>2. /\ IsSeq(Insert(rules, k, new)) /\ Len(Insert(rules, k, new)) = Len(rules) + Len(new)
          /\ \A i \in 1 .. k : Insert(rules, k, new)[i] = rules[i]
          /\ \A i \in 1 .. Len(new) : Insert(rules, k, new)[k + i] = new[i]
          /\ \A i \in k + 1 .. Len(rules) : Insert(rules, k, new)[i + Len(new)] = rules[i]
        BY <2>1, Inserted
    <2> QED
        BY <1>7, <2>2
<1>10. /\ IsSeq(y) /\ Len(y) = Len(mid) + Len(new)
       /\ \A i \in 1 .. Len(mid) : y[i] = mid[i]
       /\ \A i \in 1 .. Len(new) : y[Len(mid) + i] = new[i]
    <2>1. IsSeq(mid)
        BY <1>2
    <2> QED
        BY <1>5, <2>1, Joined
<1>11. Places(x, F, y, Open, p, f, q)
    <2>1. q + Len(y) <= Len(x)
        BY <1>1, <1>2, <1>3, <1>9, <1>10
    <2>2. \A j \in 1 .. p : x[j].kind = "sniff"
        <3>1. \A j \in 1 .. p : j \in 1 .. k
            BY <1>1, <1>8
        <3> QED
            BY <1>1, <1>9, <3>1 DEF Places
    <2>3. x[p + 1].kind # "sniff"
        <3>1. CASE p = k
            <4>1. 1 \in 1 .. Len(new) /\ new[1] \in Elems(new)
                BY <1>2 DEF Elems
            <4> QED
                BY <1>9, <3>1, <4>1
        <3>2. CASE p # k
            <4>1. p + 1 \in 1 .. k /\ p # Len(rules)
                BY <1>1, <1>2, <1>8, <3>2
            <4> QED
                BY <1>1, <1>9, <4>1 DEF Places
        <3> QED
            BY <3>1, <3>2
    <2>4. \A j \in p + 1 .. f : x[j] = rules[j]
        <3>1. \A j \in p + 1 .. f : j \in 1 .. k
            BY <1>1, <1>3, <1>8
        <3> QED
            BY <1>9, <3>1
    <2>5. \A j \in f + 1 .. q : x[j] \in BaseAbove
        <3>1. \A j \in f + 1 .. q : j \in 1 .. k
            BY <1>1, <1>8
        <3> QED
            BY <1>1, <1>9, <3>1 DEF Places
    <2>6. ASSUME NEW j \in 1 .. Len(y) PROVE x[q + j] = y[j]
        <3>1. CASE j \in 1 .. Len(mid)
            <4>1. q + j \in 1 .. k
                BY <1>1, <1>2, <1>6, <3>1
            <4>2. x[q + j] = rules[q + j] /\ y[j] = mid[j]
                BY <1>9, <1>10, <3>1, <4>1
            <4> QED
                BY <1>1, <3>1, <4>2 DEF Places
        <3>2. CASE j - Len(mid) \in 1 .. Len(new)
            <4>1. k + (j - Len(mid)) = q + j /\ Len(mid) + (j - Len(mid)) = j
                BY <1>1, <1>2, <1>6, <3>2
            <4>2. x[k + (j - Len(mid))] = new[j - Len(mid)]
                BY <1>9, <3>2
            <4>3. y[Len(mid) + (j - Len(mid))] = new[j - Len(mid)]
                BY <1>10, <3>2
            <4> QED
                BY <4>1, <4>2, <4>3
        <3> QED
            <4>1. Len(y) = Len(mid) + Len(new)
                BY <1>10
            <4> QED
                BY <1>2, <3>1, <3>2, <4>1
    <2>7. q + Len(y) # Len(x) => x[q + Len(y) + 1] \in CatchAlls
        <3>1. Len(x) = Len(rules) + Len(new) /\ Len(y) = Len(mid) + Len(new)
            BY <1>9, <1>10
        <3>2. ASSUME q + Len(y) # Len(x)
              PROVE  /\ k + 1 \in k + 1 .. Len(rules) /\ q + Len(mid) # Len(rules)
                     /\ (k + 1) + Len(new) = q + Len(y) + 1
            BY <1>1, <1>2, <1>6, <1>8, <3>1, <3>2
        <3>3. ASSUME q + Len(y) # Len(x) PROVE x[q + Len(y) + 1] = rules[k + 1]
            BY <1>9, <3>2, <3>3
        <3> QED
            BY <1>1, <1>6, <3>2, <3>3 DEF Places
    <2> QED
        BY <1>1, <1>3, <2>1, <2>2, <2>3, <2>4, <2>5, <2>6, <2>7 DEF Places
<1>12. \A r \in F \cup Elems(y) : ~isCatchAllRule(r)
    <2>1. ASSUME NEW j \in 1 .. Len(y) PROVE y[j] \in Elems(mid) \cup Elems(new)
        <3>1. CASE j \in 1 .. Len(mid)
            BY <1>10, <3>1 DEF Elems
        <3>2. CASE j - Len(mid) \in 1 .. Len(new)
            <4>1. Len(mid) + (j - Len(mid)) = j
                BY <1>2
            <4>2. y[j] = new[j - Len(mid)]
                BY <1>10, <3>2, <4>1
            <4> QED
                BY <3>2, <4>2 DEF Elems
        <3> QED
            <4>1. Len(y) = Len(mid) + Len(new)
                BY <1>10
            <4> QED
                BY <1>2, <3>1, <3>2, <4>1
    <2>2. \A r \in Elems(y) : r \in Elems(mid) \cup Elems(new)
        BY <2>1 DEF Elems
    <2> QED
        BY <2>2 DEF Shaped, isCatchAllRule
<1> QED
    BY <1>1, <1>4, <1>5, <1>9, <1>10, <1>11, <1>12 DEF Shaped

\* A sequence with one element replaced.
With(s, k, e) == [s EXCEPT ![k] = e]

\* What it holds.
LEMMA Replaced ==
    ASSUME NEW s, IsSeq(s), NEW k \in 1 .. Len(s), NEW e
    PROVE  /\ IsSeq(With(s, k, e)) /\ Len(With(s, k, e)) = Len(s)
           /\ With(s, k, e)[k] = e
           /\ \A i \in 1 .. Len(s) : i # k => With(s, k, e)[i] = s[i]
<1>1. PICK S : s \in Seq(S)
    BY DEF IsSeq
<1>2. s \in Seq(S \cup {e})
    BY <1>1
<1>3. [s EXCEPT ![k] = e] \in Seq(S \cup {e})
    BY <1>2
<1> QED
    BY <1>2, <1>3 DEF IsSeq, With

\* A sequence with one more element.
LEMMA Appended ==
    ASSUME NEW s, IsSeq(s), NEW e
    PROVE  /\ IsSeq(Append(s, e)) /\ Len(Append(s, e)) = Len(s) + 1
           /\ Append(s, e)[Len(s) + 1] = e
           /\ \A i \in 1 .. Len(s) : Append(s, e)[i] = s[i]
<1>1. PICK S : s \in Seq(S)
    BY DEF IsSeq
<1>2. s \in Seq(S \cup {e})
    BY <1>1
<1>3. Append(s, e) \in Seq(S \cup {e})
    BY <1>2
<1> QED
    BY <1>2, <1>3 DEF IsSeq

\* A catch-all with another outbound, rewritten or appended.
LEMMA ShapedWithCatchAll ==
    ASSUME NEW rules, NEW F, NEW mid, Shaped(rules, F, mid, Open),
           NEW out \in Outbound, NEW x, NEW e \in CatchAlls, e.out = out,
           x = IF catchAllIdx(rules) <= Len(rules)
               THEN With(rules, catchAllIdx(rules), e) ELSE Append(rules, e)
    PROVE  Shaped(x, F, mid, out)
<1>1. PICK p \in Nat, f \in Nat, q \in Nat : Places(rules, F, mid, Open, p, f, q)
    BY DEF Shaped
<1>2. IsSeq(rules) /\ Len(rules) \in Nat /\ IsSeq(mid) /\ Len(mid) \in Nat
    BY Positions DEF Shaped
<1>3. p <= f /\ f <= q /\ q + Len(mid) <= Len(rules)
    BY <1>1 DEF Places
<1>4. PICK k \in Nat : k = q + Len(mid)
    BY <1>1, <1>2
<1>5. catchAllIdx(rules) = k + 1
    BY <1>1, <1>4, CatchAllOfShape
<1>6. k <= Len(rules) /\ p <= k /\ q <= k
    BY <1>1, <1>2, <1>3, <1>4
<1>7. /\ IsSeq(x) /\ Len(x) \in Nat /\ k # Len(x) /\ k + 1 <= Len(x) /\ x[k + 1] = e
      /\ \A i \in 1 .. k : x[i] = rules[i]
    <2>1. CASE k = Len(rules)
        <3>1. x = Append(rules, e)
            BY <1>2, <1>5, <2>1
        <3>2. /\ IsSeq(x) /\ Len(x) = Len(rules) + 1 /\ x[Len(rules) + 1] = e
              /\ \A i \in 1 .. Len(rules) : x[i] = rules[i]
            <4>1. IsSeq(rules)
                BY <1>2
            <4>2. /\ IsSeq(Append(rules, e)) /\ Len(Append(rules, e)) = Len(rules) + 1
                  /\ Append(rules, e)[Len(rules) + 1] = e
                  /\ \A i \in 1 .. Len(rules) : Append(rules, e)[i] = rules[i]
                BY <4>1, Appended
            <4> QED
                BY <3>1, <4>2
        <3> QED
            BY <1>2, <2>1, <3>2
    <2>2. CASE k # Len(rules)
        <3>a. k + 1 \in 1 .. Len(rules)
            BY <1>2, <1>6, <2>2
        <3>b. PICK n \in 1 .. Len(rules) : n = k + 1
            BY <3>a
        <3>1. x = With(rules, n, e)
            BY <1>2, <1>5, <3>b
        <3>2. /\ IsSeq(x) /\ Len(x) = Len(rules) /\ x[k + 1] = e
              /\ \A i \in 1 .. Len(rules) : i # k + 1 => x[i] = rules[i]
            <4>1. IsSeq(rules)
                BY <1>2
            <4>2. /\ IsSeq(With(rules, n, e)) /\ Len(With(rules, n, e)) = Len(rules)
                  /\ With(rules, n, e)[n] = e
                  /\ \A i \in 1 .. Len(rules) : i # n => With(rules, n, e)[i] = rules[i]
                BY <4>1, Replaced
            <4> QED
                BY <3>b, <3>1, <4>2
        <3>3. \A i \in 1 .. k : i \in 1 .. Len(rules) /\ i # k + 1
            BY <1>2, <1>6
        <3> QED
            BY <1>2, <1>6, <2>2, <3>2, <3>3
    <2> QED
        BY <2>1, <2>2
<1>8. Places(x, F, mid, out, p, f, q)
    <2>1. q + Len(mid) <= Len(x)
        BY <1>4, <1>7
    <2>2. \A j \in 1 .. p : x[j].kind = "sniff"
        <3>1. \A j \in 1 .. p : j \in 1 .. k
            BY <1>6
        <3> QED
            BY <1>1, <1>7, <3>1 DEF Places
    <2>3. x[p + 1].kind # "sniff"
        <3>1. CASE p = k
            BY <1>7, <3>1 DEF CatchAlls, isCatchAllRule
        <3>2. CASE p # k
            <4>1. p + 1 \in 1 .. k /\ p # Len(rules)
                BY <1>2, <1>6, <3>2
            <4> QED
                BY <1>1, <1>7, <4>1 DEF Places
        <3> QED
            BY <3>1, <3>2
    <2>4. \A j \in p + 1 .. f : x[j] = rules[j]
        <3>1. \A j \in p + 1 .. f : j \in 1 .. k
            BY <1>3, <1>6
        <3> QED
            BY <1>7, <3>1
    <2>5. \A j \in f + 1 .. q : x[j] \in BaseAbove
        <3>1. \A j \in f + 1 .. q : j \in 1 .. k
            BY <1>6
        <3> QED
            BY <1>1, <1>7, <3>1 DEF Places
    <2>6. ASSUME NEW j \in 1 .. Len(mid) PROVE x[q + j] = mid[j]
        <3>1. q + j \in 1 .. k
            BY <1>2, <1>4
        <3> QED
            BY <1>1, <1>7, <3>1 DEF Places
    <2>7. q + Len(mid) # Len(x) /\ x[q + Len(mid) + 1] = e
        BY <1>4, <1>7
    <2>8. /\ \A j \in p + 1 .. f : rules[j] \in F
          /\ \A r \in F : \E j \in p + 1 .. f : rules[j] = r
        BY <1>1 DEF Places
    <2>9. /\ \A j \in p + 1 .. f : x[j] \in F
          /\ \A r \in F : \E j \in p + 1 .. f : x[j] = r
        BY <2>4, <2>8
    <2> QED
        BY <1>3, <2>1, <2>2, <2>3, <2>5, <2>6, <2>7, <2>9 DEF Places
<1> QED
    BY <1>1, <1>7, <1>8 DEF Shaped
-----------------------------------------------------------------------------
(* What each injector writes.                                               *)

\* The rules of two sequences together.
LEMMA ElemsJoined ==
    ASSUME NEW s, NEW t, IsSeq(s), IsSeq(t)
    PROVE  IsSeq(s \o t) /\ Elems(s \o t) = Elems(s) \cup Elems(t)
<1>1. PICK x : x = s \o t
    OBVIOUS
<1>2. PICK n \in Nat, m \in Nat : n = Len(s) /\ m = Len(t)
    BY Positions
<1>3. /\ IsSeq(x) /\ Len(x) = n + m
      /\ \A i \in 1 .. n : x[i] = s[i]
      /\ \A i \in 1 .. m : x[n + i] = t[i]
    BY <1>1, <1>2, Joined
<1>4. ASSUME NEW i \in 1 .. n + m PROVE x[i] \in Elems(s) \cup Elems(t)
    <2>1. CASE i \in 1 .. n
        BY <1>2, <1>3, <2>1 DEF Elems
    <2>2. CASE i - n \in 1 .. m
        <3>1. n + (i - n) = i
            OBVIOUS
        <3>2. x[i] = t[i - n]
            BY <1>3, <2>2, <3>1
        <3> QED
            BY <1>2, <2>2, <3>2 DEF Elems
    <2> QED
        BY <2>1, <2>2
<1>5. ASSUME NEW i \in 1 .. n PROVE s[i] \in Elems(x)
    <2>1. i \in 1 .. n + m
        OBVIOUS
    <2> QED
        BY <1>3, <2>1 DEF Elems
<1>6. ASSUME NEW i \in 1 .. m PROVE t[i] \in Elems(x)
    <2>1. n + i \in 1 .. n + m
        OBVIOUS
    <2> QED
        BY <1>3, <2>1 DEF Elems
<1>7. Elems(x) \subseteq Elems(s) \cup Elems(t)
    BY <1>3, <1>4 DEF Elems
<1>8. Elems(s) \subseteq Elems(x) /\ Elems(t) \subseteq Elems(x)
    BY <1>2, <1>5, <1>6 DEF Elems
<1> QED
    BY <1>1, <1>3, <1>7, <1>8

\* The rule of one element.
LEMMA ElemsSingle == ASSUME NEW e PROVE Elems(<<e>>) = {e}
BY Single DEF Elems

\* No rules.
LEMMA NoRules == IsSeq(<<>>) /\ Len(<<>>) = 0 /\ Elems(<<>>) = {}
<1>1. <<>> \in Seq({})
    OBVIOUS
<1> QED
    BY <1>1 DEF IsSeq, Elems

\* The rule of a list that may be empty.
IfAny(kind, of, out) == IF of = {} THEN {} ELSE {Rule(kind, of, out)}

\* What RuleIfAny writes.
LEMMA ElemsIfAny ==
    ASSUME NEW kind, NEW of, NEW out
    PROVE  IsSeq(RuleIfAny(kind, of, out)) /\ Elems(RuleIfAny(kind, of, out)) = IfAny(kind, of, out)
<1>1. CASE of = {}
    BY <1>1, NoRules DEF RuleIfAny, IfAny
<1>2. CASE of # {}
    BY <1>2, Single, ElemsSingle DEF RuleIfAny, IfAny
<1> QED
    BY <1>1, <1>2

\* The rules of a deny list.
ListRules(S, out) ==
    IfAny("any", S \cap Suffix, out) \cup IfAny("any", S \cap Glob, out)
        \cup IfAny("any", S \cap CIDR, out)

\* What Lists writes.
LEMMA ElemsLists ==
    ASSUME NEW S, NEW out
    PROVE  IsSeq(Lists(S, out)) /\ Elems(Lists(S, out)) = ListRules(S, out)
<1>1. PICK a : a = RuleIfAny("any", S \cap Suffix, out)
    OBVIOUS
<1>2. PICK b : b = RuleIfAny("any", S \cap Glob, out)
    OBVIOUS
<1>3. PICK d : d = RuleIfAny("any", S \cap CIDR, out)
    OBVIOUS
<1>4. /\ IsSeq(a) /\ Elems(a) = IfAny("any", S \cap Suffix, out)
      /\ IsSeq(b) /\ Elems(b) = IfAny("any", S \cap Glob, out)
      /\ IsSeq(d) /\ Elems(d) = IfAny("any", S \cap CIDR, out)
    BY <1>1, <1>2, <1>3, ElemsIfAny
<1>5. IsSeq(a \o b) /\ Elems(a \o b) = Elems(a) \cup Elems(b)
    BY <1>4, ElemsJoined
<1>6. IsSeq((a \o b) \o d) /\ Elems((a \o b) \o d) = Elems(a \o b) \cup Elems(d)
    BY <1>4, <1>5, ElemsJoined
<1>7. Lists(S, out) = (a \o b) \o d
    BY <1>1, <1>2, <1>3 DEF Lists
<1> QED
    BY <1>4, <1>5, <1>6, <1>7 DEF ListRules

ProcessRules == IfAny("process", wl.procs, "reject")
DeviceRules == IfAny("device", wl.devs, "reject")
SetRules == IfAny("any", DenySets, "reject")

\* The security floor.
FloorRules ==
    ListRules(bl, "reject") \cup ListRules(quar, "reject") \cup SetRules
        \cup (ProcessRules \cup DeviceRules)

\* Each of its rules rejects, and what it rejects is denied.
LEMMA FloorStops ==
    ASSUME NEW r \in FloorRules
    PROVE  /\ r.out = "reject" /\ r.kind \in {"any", "process", "device"}
           /\ ~isCatchAllRule(r)
           /\ \A c : Matches(r, c, c.byAddr) => Denied(c)
<1>1. ASSUME NEW S \in {bl, quar}, r \in ListRules(S, "reject")
      PROVE  r.kind = "any" /\ r.out = "reject" /\ r.of \subseteq bl \cup quar
    <2>1. PICK T : T \subseteq S /\ r = Rule("any", T, "reject")
        BY <1>1 DEF ListRules, IfAny
    <2> QED
        BY <2>1 DEF Rule
<1>2. ASSUME r \in SetRules
      PROVE  r.kind = "any" /\ r.out = "reject" /\ r.of = DenySets
    BY <1>2 DEF SetRules, IfAny, Rule
<1>3. ASSUME r \in ProcessRules
      PROVE  r.kind = "process" /\ r.out = "reject" /\ r.of = wl.procs /\ wl.procs # {}
    BY <1>3 DEF ProcessRules, IfAny, Rule
<1>4. ASSUME r \in DeviceRules
      PROVE  r.kind = "device" /\ r.out = "reject" /\ r.of = wl.devs /\ wl.devs # {}
    BY <1>4 DEF DeviceRules, IfAny, Rule
<1>5. CASE \E S \in {bl, quar} : r \in ListRules(S, "reject")
    <2>1. r.kind = "any" /\ r.out = "reject" /\ r.of \subseteq bl \cup quar
        BY <1>1, <1>5
    <2> QED
        BY <2>1 DEF Matches, Denied, HitsAny, isCatchAllRule
<1>6. CASE r \in SetRules
    <2>1. DenySets = {t \in Tag : sets[t] = "deny"}
        BY DEF DenySets, WithRole
    <2> QED
        BY <1>2, <1>6, <2>1 DEF Matches, Denied, HitsAny, isCatchAllRule
<1>7. CASE r \in ProcessRules
    BY <1>3, <1>7 DEF Matches, Denied, isCatchAllRule
<1>8. CASE r \in DeviceRules
    BY <1>4, <1>8 DEF Matches, Denied, isCatchAllRule
<1> QED
    BY <1>5, <1>6, <1>7, <1>8 DEF FloorRules

\* Something denied is rejected by one of them.
LEMMA FloorDenies ==
    ASSUME TypeOK, NEW c, Denied(c)
    PROVE  \E r \in FloorRules : Matches(r, c, c.byAddr)
<1>1. ASSUME NEW S \in {bl, quar}, NEW e \in S, Hits(e, c, c.byAddr)
      PROVE  \E r \in FloorRules : Matches(r, c, c.byAddr)
    <2>1. e \in Suffix \/ e \in Glob \/ e \in CIDR
        BY DEF TypeOK, Dest
    <2>2. PICK T : e \in T /\ Rule("any", T, "reject") \in ListRules(S, "reject")
        <3>1. ASSUME e \in S \cap Suffix PROVE Rule("any", S \cap Suffix, "reject") \in ListRules(S, "reject")
            BY <3>1 DEF ListRules, IfAny
        <3>2. ASSUME e \in S \cap Glob PROVE Rule("any", S \cap Glob, "reject") \in ListRules(S, "reject")
            BY <3>2 DEF ListRules, IfAny
        <3>3. ASSUME e \in S \cap CIDR PROVE Rule("any", S \cap CIDR, "reject") \in ListRules(S, "reject")
            BY <3>3 DEF ListRules, IfAny
        <3> QED
            BY <2>1, <3>1, <3>2, <3>3
    <2>3. Matches(Rule("any", T, "reject"), c, c.byAddr)
        BY <1>1, <2>2 DEF Matches, Rule, HitsAny
    <2>4. Rule("any", T, "reject") \in FloorRules
        BY <2>2 DEF FloorRules
    <2> QED
        BY <2>3, <2>4
<1>2. ASSUME NEW t \in Tag, sets[t] = "deny", Hits(t, c, c.byAddr)
      PROVE  \E r \in FloorRules : Matches(r, c, c.byAddr)
    <2>1. t \in DenySets
        BY <1>2 DEF DenySets, WithRole
    <2>2. Rule("any", DenySets, "reject") \in FloorRules
        BY <2>1 DEF FloorRules, SetRules, IfAny
    <2>3. Matches(Rule("any", DenySets, "reject"), c, c.byAddr)
        BY <1>2, <2>1 DEF Matches, Rule, HitsAny
    <2> QED
        BY <2>2, <2>3
<1>3. ASSUME wl.procs # {}, c.proc \notin wl.procs
      PROVE  \E r \in FloorRules : Matches(r, c, c.byAddr)
    <2>1. Rule("process", wl.procs, "reject") \in FloorRules
        BY <1>3 DEF FloorRules, ProcessRules, IfAny
    <2>2. Matches(Rule("process", wl.procs, "reject"), c, c.byAddr)
        BY <1>3 DEF Matches, Rule
    <2> QED
        BY <2>1, <2>2
<1>4. ASSUME wl.devs # {}, c.dev \notin wl.devs
      PROVE  \E r \in FloorRules : Matches(r, c, c.byAddr)
    <2>1. Rule("device", wl.devs, "reject") \in FloorRules
        BY <1>4 DEF FloorRules, DeviceRules, IfAny
    <2>2. Matches(Rule("device", wl.devs, "reject"), c, c.byAddr)
        BY <1>4 DEF Matches, Rule
    <2> QED
        BY <2>1, <2>2
<1>5. \/ \E e \in bl \cup quar : Hits(e, c, c.byAddr)
      \/ \E t \in Tag : sets[t] = "deny" /\ Hits(t, c, c.byAddr)
      \/ wl.procs # {} /\ c.proc \notin wl.procs
      \/ wl.devs # {} /\ c.dev \notin wl.devs
    BY DEF Denied, HitsAny
<1> QED
    BY <1>1, <1>2, <1>3, <1>4, <1>5

\* The base config with the floor above it.
LEMMA FloorShaped ==
    ASSUME base.rules \in Seq(BaseRule)
    PROVE  Shaped(Floor(base.rules), FloorRules, <<>>, Open)
<1> DEFINE A == ListRules(bl, "reject")
           B == ListRules(quar, "reject")
<1>1. \A r \in A \cup B \cup SetRules \cup (ProcessRules \cup DeviceRules) :
        r.kind \notin {"sniff", "network"}
    BY FloorStops DEF FloorRules
<1>2. PICK x1 : x1 = injectBlacklist(base.rules)
    OBVIOUS
<1>3. PICK x2 : x2 = injectQuarantine(x1)
    OBVIOUS
<1>4. PICK x3 : x3 = injectRuleSets(x2)
    OBVIOUS
<1>5. PICK x4 : x4 = injectProcessDeviceFloor(x3)
    OBVIOUS
<1>6. Shaped(x1, {} \cup A, <<>>, Open)
    <2>1. PICK new : new = Lists(bl, "reject")
        OBVIOUS
    <2>2. IsSeq(new) /\ Elems(new) = A
        BY <2>1, ElemsLists
    <2>3. x1 = AfterPrelude(base.rules, new)
        BY <1>2, <2>1 DEF injectBlacklist
    <2>4. \A r \in Elems(new) : r.kind \notin {"sniff", "network"}
        BY <1>1, <2>2
    <2>5. Shaped(AfterPrelude(base.rules, new), {} \cup Elems(new), <<>>, Open)
        BY <2>2, <2>4, BaseShaped, ShapedAfterPrelude
    <2> QED
        BY <2>2, <2>3, <2>5
<1>7. Shaped(x2, ({} \cup A) \cup B, <<>>, Open)
    <2>1. PICK new : new = Lists(quar, "reject")
        OBVIOUS
    <2>2. IsSeq(new) /\ Elems(new) = B
        BY <2>1, ElemsLists
    <2>3. x2 = AfterPrelude(x1, new)
        BY <1>3, <2>1 DEF injectQuarantine
    <2>4. \A r \in Elems(new) : r.kind \notin {"sniff", "network"}
        BY <1>1, <2>2
    <2>5. Shaped(AfterPrelude(x1, new), ({} \cup A) \cup Elems(new), <<>>, Open)
        BY <1>6, <2>2, <2>4, ShapedAfterPrelude
    <2> QED
        BY <2>2, <2>3, <2>5
<1>8. Shaped(x3, (({} \cup A) \cup B) \cup SetRules, <<>>, Open)
    <2>1. PICK new : new = RuleIfAny("any", DenySets, "reject")
        OBVIOUS
    <2>2. IsSeq(new) /\ Elems(new) = SetRules
        BY <2>1, ElemsIfAny DEF SetRules
    <2>3. x3 = AfterPrelude(x2, new)
        BY <1>4, <2>1 DEF injectRuleSets
    <2>4. \A r \in Elems(new) : r.kind \notin {"sniff", "network"}
        BY <1>1, <2>2
    <2>5. Shaped(AfterPrelude(x2, new), (({} \cup A) \cup B) \cup Elems(new), <<>>, Open)
        BY <1>7, <2>2, <2>4, ShapedAfterPrelude
    <2> QED
        BY <2>2, <2>3, <2>5
<1>9. Shaped(x4, ((({} \cup A) \cup B) \cup SetRules) \cup (ProcessRules \cup DeviceRules), <<>>, Open)
    <2>1. PICK a : a = RuleIfAny("process", wl.procs, "reject")
        OBVIOUS
    <2>2. PICK b : b = RuleIfAny("device", wl.devs, "reject")
        OBVIOUS
    <2>3. IsSeq(a) /\ Elems(a) = ProcessRules /\ IsSeq(b) /\ Elems(b) = DeviceRules
        BY <2>1, <2>2, ElemsIfAny DEF ProcessRules, DeviceRules
    <2>4. PICK new : new = a \o b
        OBVIOUS
    <2>5. IsSeq(new) /\ Elems(new) = ProcessRules \cup DeviceRules
        BY <2>3, <2>4, ElemsJoined
    <2>6. x4 = AfterPrelude(x3, new)
        BY <1>5, <2>1, <2>2, <2>4 DEF injectProcessDeviceFloor
    <2>7. \A r \in Elems(new) : r.kind \notin {"sniff", "network"}
        BY <1>1, <2>5
    <2>8. Shaped(AfterPrelude(x3, new),
                 ((({} \cup A) \cup B) \cup SetRules) \cup Elems(new), <<>>, Open)
        BY <1>8, <2>5, <2>7, ShapedAfterPrelude
    <2> QED
        BY <2>5, <2>6, <2>8
<1>10. x4 = Floor(base.rules)
    BY <1>2, <1>3, <1>4, <1>5 DEF Floor
<1>11. ((({} \cup A) \cup B) \cup SetRules) \cup (ProcessRules \cup DeviceRules) = FloorRules
    BY DEF FloorRules
<1> QED
    BY <1>9, <1>10, <1>11

\* The rules between those of the base config and the catch-all.
ModeRule == Rule("mode", {"Global"}, "proxy")
ResolveRule == Rule("resolve", {}, "")
GateRule == Rule("none", GatePermits, "blocked")
ManagementRule == Rule("port", {"management"}, "direct")
CatchAll(out) == Rule("network", Everything, out)

\* Nothing is permitted, and the gateway is strict.
Closed == ~hasUserPermit /\ ~splitOpen

\* What injectAllow inserts, and the catch-all it leaves.
Middle == (Gate \o <<ResolveRule>>) \o Egress
LastOut == IF Closed THEN "blocked" ELSE resolveFinal(final)

\* What is proved of an egress rule: its outbound is there, it is not one that
\* stops unless the operator asked for it.
EgressRule(r) ==
    /\ r.kind = "any"
    /\ \/ r.out \in {"direct", "proxy"}
       \/ \E i \in DOMAIN cr : /\ r.out \notin Stopped \/ cr[i].egress = "block"
                               /\ r.of = {cr[i].at}
       \/ r.of = {}

\* The gate, which is not there in Split.
LEMMA GateIs ==
    /\ IsSeq(Gate)
    /\ splitOpen => Gate = <<>>
    /\ ~splitOpen => Gate = <<GateRule>>
BY NoRules, Single DEF Gate, GateRule

\* The custom egress rules.
LEMMA CustomIs ==
    ASSUME TypeOK
    PROVE  IsSeq(customEgress) /\ \A r \in Elems(customEgress) : EgressRule(r)
<1>1. cr \in Seq(CustomRule) /\ members \subseteq Member
    BY DEF TypeOK
<1> DEFINE E(i) == IF Live(cr[i]) /\ cr[i].egress # "none"
                   THEN Rule("any", {cr[i].at}, CustomEgress(cr[i])) ELSE Rule("any", {}, "")
<1>2. PICK n \in Nat : n = Len(cr) /\ DOMAIN cr = 1 .. n
    BY <1>1
<1>3. PICK T : \A i \in 1 .. n : E(i) \in T
    <2>1. \A i \in 1 .. n : E(i) \in {E(j) : j \in 1 .. n}
        OBVIOUS
    <2> QED
        BY <2>1
<1>4. customEgress = [i \in 1 .. n |-> E(i)]
    BY <1>2 DEF customEgress
<1>5. IsSeq(customEgress) /\ Len(customEgress) = n
      /\ \A i \in 1 .. n : customEgress[i] = E(i)
    <2> HIDE DEF E
    <2>1. customEgress \in [1 .. n -> T]
        BY <1>3, <1>4
    <2>2. customEgress \in Seq(T) /\ Len(customEgress) = n
        BY <2>1
    <2> QED
        BY <1>4, <2>2 DEF IsSeq
<1>6. ASSUME NEW i \in 1 .. n PROVE EgressRule(E(i))
    <2>1. i \in DOMAIN cr /\ cr[i] \in CustomRule
        BY <1>1, <1>2
    <2>2. CASE Live(cr[i]) /\ cr[i].egress # "none"
        <3>1. E(i).kind = "any" /\ E(i).of = {cr[i].at} /\ E(i).out = CustomEgress(cr[i])
            BY <2>2 DEF Rule
        <3>2. CustomEgress(cr[i]) \notin Stopped \/ cr[i].egress = "block"
            <4>1. "reject" \notin Member /\ "blocked" \notin Member
                BY RouteLayersAssumption DEF Builtin
            <4>2. cr[i].egress \in {"none", "direct", "proxy", "block", "node"}
                BY <2>1, RouteLayersAssumption
            <4> QED
                BY <1>1, <2>2, <4>1, <4>2 DEF CustomEgress, Stopped, Live
        <3> QED
            BY <2>1, <3>1, <3>2 DEF EgressRule
    <2>3. CASE ~(Live(cr[i]) /\ cr[i].egress # "none")
        BY <2>3 DEF EgressRule, Rule
    <2> QED
        BY <2>2, <2>3
<1> QED
    BY <1>5, <1>6 DEF Elems

\* A list of plain or routed entries.
LEMMA RoutedIs ==
    ASSUME NEW of, NEW out \in {"direct", "proxy"}
    PROVE  /\ IsSeq(RuleIfAny("any", of, out))
           /\ \A r \in Elems(RuleIfAny("any", of, out)) : EgressRule(r)
<1>1. Elems(RuleIfAny("any", of, out)) = IfAny("any", of, out) /\ IsSeq(RuleIfAny("any", of, out))
    BY ElemsIfAny
<1> QED
    BY <1>1 DEF IfAny, Rule, EgressRule

\* r is the first rule of s.
Starts(s, r) == IsSeq(s) /\ Len(s) # 0 /\ s[1] = r

\* It stays the first when others follow.
LEMMA StartsTogether ==
    ASSUME NEW s, NEW t, NEW r, Starts(s, r), IsSeq(t)
    PROVE  Starts(s \o t, r)
<1>1. PICK n \in Nat, m \in Nat : n = Len(s) /\ m = Len(t)
    BY Positions DEF Starts
<1>2. IsSeq(s \o t) /\ Len(s \o t) = n + m /\ \A i \in 1 .. n : (s \o t)[i] = s[i]
    BY <1>1, Joined DEF Starts
<1>3. 1 \in 1 .. n /\ n + m # 0
    BY <1>1 DEF Starts
<1> QED
    BY <1>2, <1>3 DEF Starts

\* Two parts of the Route layer.
LEMMA RoutedTogether ==
    ASSUME NEW s, NEW t, IsSeq(s), IsSeq(t),
           \A r \in Elems(s) : EgressRule(r), \A r \in Elems(t) : EgressRule(r)
    PROVE  IsSeq(s \o t) /\ \A r \in Elems(s \o t) : EgressRule(r)
BY ElemsJoined

\* The Route layer of the box: a plain no-proxy name comes first.
LEMMA EgressIs ==
    ASSUME TypeOK
    PROVE  /\ IsSeq(Egress) /\ \A r \in Elems(Egress) : EgressRule(r)
           /\ dl.dests \cap Suffix # {} =>
                Len(Egress) # 0 /\ Egress[1] = Rule("any", dl.dests \cap Suffix, "direct")
<1>1. PICK a : a = RuleIfAny("any", dl.dests \cap Suffix, "direct")
    OBVIOUS
<1>2. PICK b : b = RuleIfAny("any", dl.dests \cap Glob, "direct")
    OBVIOUS
<1>3. PICK d : d = RuleIfAny("any", DirectRanges, "direct")
    OBVIOUS
<1>4. PICK e : e = RuleIfAny("any", ProxySets, "proxy")
    OBVIOUS
<1>5. PICK g : g = RuleIfAny("any", DirectSets, "direct")
    OBVIOUS
<1>6. \A s \in {a, b, d, e, g} : IsSeq(s) /\ \A r \in Elems(s) : EgressRule(r)
    BY <1>1, <1>2, <1>3, <1>4, <1>5, RoutedIs
<1>7. PICK x : x = a \o customEgress
    OBVIOUS
<1>8. IsSeq(x) /\ \A r \in Elems(x) : EgressRule(r)
    BY <1>6, <1>7, CustomIs, RoutedTogether
<1>9. PICK y : y = x \o b
    OBVIOUS
<1>10. IsSeq(y) /\ \A r \in Elems(y) : EgressRule(r)
    BY <1>6, <1>8, <1>9, RoutedTogether
<1>11. PICK z : z = y \o d
    OBVIOUS
<1>12. IsSeq(z) /\ \A r \in Elems(z) : EgressRule(r)
    BY <1>6, <1>10, <1>11, RoutedTogether
<1>13. PICK u : u = z \o e
    OBVIOUS
<1>14. IsSeq(u) /\ \A r \in Elems(u) : EgressRule(r)
    BY <1>6, <1>12, <1>13, RoutedTogether
<1>15. Egress = u \o g
    BY <1>1, <1>2, <1>3, <1>4, <1>5, <1>7, <1>9, <1>11, <1>13 DEF Egress
<1>16. IsSeq(Egress) /\ \A r \in Elems(Egress) : EgressRule(r)
    BY <1>6, <1>14, <1>15, RoutedTogether
<1>17. ASSUME dl.dests \cap Suffix # {}
       PROVE  Len(Egress) # 0 /\ Egress[1] = Rule("any", dl.dests \cap Suffix, "direct")
    <2>1. PICK r : r = Rule("any", dl.dests \cap Suffix, "direct")
        OBVIOUS
    <2>2. Starts(a, r)
        <3>1. a = <<r>>
            BY <1>1, <1>17, <2>1 DEF RuleIfAny
        <3> QED
            BY <3>1, Single DEF Starts
    <2>3. Starts(x, r)
        BY <1>6, <1>7, <2>2, CustomIs, StartsTogether
    <2>4. Starts(y, r)
        BY <1>6, <1>9, <2>3, StartsTogether
    <2>5. Starts(z, r)
        BY <1>6, <1>11, <2>4, StartsTogether
    <2>6. Starts(u, r)
        BY <1>6, <1>13, <2>5, StartsTogether
    <2>7. Starts(Egress, r)
        BY <1>6, <1>15, <2>6, StartsTogether
    <2> QED
        BY <2>1, <2>7 DEF Starts
<1> QED
    BY <1>16, <1>17

\* The Route layer of the view.
LEMMA ViewRouteIs ==
    ASSUME TypeOK
    PROVE  IsSeq(ViewRoute) /\ \A r \in Elems(ViewRoute) : EgressRule(r)
<1>1. PICK a : a = RuleIfAny("any", dl.dests \cap Suffix, "direct")
    OBVIOUS
<1>2. PICK b : b = RuleIfAny("any", dl.dests \cap Glob, "direct")
    OBVIOUS
<1>3. PICK d : d = RuleIfAny("any", DirectRanges, "direct")
    OBVIOUS
<1>4. PICK e : e = RuleIfAny("any", ProxySets, "proxy")
    OBVIOUS
<1>5. PICK g : g = RuleIfAny("any", DirectSets, "direct")
    OBVIOUS
<1>6. \A s \in {a, b, d, e, g} : IsSeq(s) /\ \A r \in Elems(s) : EgressRule(r)
    BY <1>1, <1>2, <1>3, <1>4, <1>5, RoutedIs
<1>7. PICK x : x = customEgress \o a
    OBVIOUS
<1>8. IsSeq(x) /\ \A r \in Elems(x) : EgressRule(r)
    BY <1>6, <1>7, CustomIs, RoutedTogether
<1>9. PICK y : y = x \o b
    OBVIOUS
<1>10. IsSeq(y) /\ \A r \in Elems(y) : EgressRule(r)
    BY <1>6, <1>8, <1>9, RoutedTogether
<1>11. PICK z : z = y \o d
    OBVIOUS
<1>12. IsSeq(z) /\ \A r \in Elems(z) : EgressRule(r)
    BY <1>6, <1>10, <1>11, RoutedTogether
<1>13. PICK u : u = z \o e
    OBVIOUS
<1>14. IsSeq(u) /\ \A r \in Elems(u) : EgressRule(r)
    BY <1>6, <1>12, <1>13, RoutedTogether
<1>15. ViewRoute = u \o g
    BY <1>1, <1>2, <1>3, <1>4, <1>5, <1>7, <1>9, <1>11, <1>13 DEF ViewRoute
<1> QED
    BY <1>6, <1>14, <1>15, RoutedTogether

\* The gate, the resolve rule and a Route layer R.
Mid(R) == (Gate \o <<ResolveRule>>) \o R

\* What it holds, and where.
LEMMA MidIs ==
    ASSUME NEW R, IsSeq(R), \A r \in Elems(R) : EgressRule(r),
           NEW g \in Nat, g = Len(Gate)
    PROVE  /\ IsSeq(Mid(R)) /\ Len(Mid(R)) = g + 1 + Len(R) /\ Len(Mid(R)) # 0
           /\ \A i \in 1 .. g : Mid(R)[i] = Gate[i]
           /\ Mid(R)[g + 1] = ResolveRule
           /\ \A i \in 1 .. Len(R) : Mid(R)[g + 1 + i] = R[i]
           /\ \A r \in Elems(Mid(R)) : r.kind \notin {"sniff", "network"}
<1>1. PICK a : a = Gate \o <<ResolveRule>>
    OBVIOUS
<1>2. PICK x : x = a \o R
    OBVIOUS
<1>3. PICK e : e = <<ResolveRule>>
    OBVIOUS
<1>4. IsSeq(e) /\ Len(e) = 1 /\ e[1] = ResolveRule /\ Elems(e) = {ResolveRule}
    BY <1>3, Single, ElemsSingle
<1>5. /\ IsSeq(a) /\ Len(a) = g + 1
      /\ \A i \in 1 .. g : a[i] = Gate[i]
      /\ a[g + 1] = ResolveRule
      /\ Elems(a) = Elems(Gate) \cup {ResolveRule}
    <2>1. /\ IsSeq(Gate \o e) /\ Len(Gate \o e) = Len(Gate) + Len(e)
          /\ \A i \in 1 .. Len(Gate) : (Gate \o e)[i] = Gate[i]
          /\ \A i \in 1 .. Len(e) : (Gate \o e)[Len(Gate) + i] = e[i]
          /\ Elems(Gate \o e) = Elems(Gate) \cup Elems(e)
        <3>1. IsSeq(Gate) /\ IsSeq(e)
            BY <1>4, GateIs
        <3> QED
            BY <3>1, Joined, ElemsJoined
    <2>2. a = Gate \o e
        BY <1>1, <1>3
    <2>3. 1 \in 1 .. Len(e)
        BY <1>4
    <2> QED
        BY <1>4, <2>1, <2>2, <2>3
<1>6. /\ IsSeq(x) /\ Len(x) = g + 1 + Len(R)
      /\ \A i \in 1 .. g + 1 : x[i] = a[i]
      /\ \A i \in 1 .. Len(R) : x[g + 1 + i] = R[i]
      /\ Elems(x) = Elems(a) \cup Elems(R)
    <2>1. /\ IsSeq(a \o R) /\ Len(a \o R) = Len(a) + Len(R)
          /\ \A i \in 1 .. Len(a) : (a \o R)[i] = a[i]
          /\ \A i \in 1 .. Len(R) : (a \o R)[Len(a) + i] = R[i]
          /\ Elems(a \o R) = Elems(a) \cup Elems(R)
        BY <1>5, Joined, ElemsJoined
    <2> QED
        BY <1>2, <1>5, <2>1
<1>7. Mid(R) = x
    BY <1>1, <1>2 DEF Mid
<1>8. \A r \in Elems(x) : r.kind \notin {"sniff", "network"}
    <2>1. \A r \in Elems(Gate) : r = GateRule
        BY GateIs, NoRules, ElemsSingle
    <2>2. GateRule.kind = "none" /\ ResolveRule.kind = "resolve"
        BY DEF GateRule, ResolveRule, Rule
    <2> QED
        BY <1>5, <1>6, <2>1, <2>2 DEF EgressRule
<1>9. Len(R) \in Nat
    BY Positions
<1>10. g + 1 + Len(R) # 0 /\ \A i \in 1 .. g : i \in 1 .. g + 1
    BY <1>9
<1>11. g + 1 \in 1 .. g + 1
    OBVIOUS
<1> QED
    BY <1>5, <1>6, <1>7, <1>8, <1>10, <1>11

\* Everything between the rules of the base config and the catch-all.
Whole(R) == IF Closed THEN <<ModeRule>> ELSE <<ModeRule>> \o Mid(R)

\* A rule put on top is the first after the prelude.
LEMMA OnTop ==
    ASSUME NEW rules, IsSeq(rules), NEW e, e.kind # "sniff", NEW x,
           x = AfterPrelude(rules, <<e>>)
    PROVE  IsSeq(x) /\ preludeLen(x) < Len(x) /\ x[preludeLen(x) + 1] = e
<1>1. PICK n \in Nat : n = Len(rules)
    BY Positions
<1>2. PICK p : p = preludeLen(rules)
    OBVIOUS
<1>3. p \in 0 .. n /\ \A i \in 1 .. p : rules[i].kind = "sniff"
    BY <1>1, <1>2, PreludeIs
<1>4. PICK t : t = <<e>>
    OBVIOUS
<1>5. IsSeq(t) /\ Len(t) = 1 /\ t[1] = e
    BY <1>4, Single
<1>6. /\ IsSeq(x) /\ Len(x) = n + 1
      /\ \A i \in 1 .. p : x[i] = rules[i]
      /\ x[p + 1] = e
    <2>1. p \in 0 .. Len(rules)
        BY <1>1, <1>3
    <2>2. /\ IsSeq(Insert(rules, p, t)) /\ Len(Insert(rules, p, t)) = Len(rules) + Len(t)
          /\ \A i \in 1 .. p : Insert(rules, p, t)[i] = rules[i]
          /\ \A i \in 1 .. Len(t) : Insert(rules, p, t)[p + i] = t[i]
        <3>1. IsSeq(t)
            BY <1>5
        <3> QED
            BY <2>1, <3>1, Inserted
    <2>3. x = Insert(rules, p, t)
        BY <1>2, <1>4 DEF AfterPrelude
    <2>4. 1 \in 1 .. Len(t)
        BY <1>5
    <2> QED
        BY <1>1, <1>5, <2>2, <2>3, <2>4
<1>7. p \in 0 .. Len(x)
    BY <1>3, <1>6
<1>8. preludeLen(x) = p
    <2>1. \A i \in 1 .. p : x[i].kind = "sniff"
        BY <1>3, <1>6
    <2>2. x[p + 1].kind # "sniff"
        BY <1>6
    <2> QED
        BY <1>6, <1>7, <2>1, <2>2, PreludeWhere
<1> QED
    BY <1>3, <1>6, <1>8

\* The catch-all with an outbound that exists.
LEMMA CatchAllOut ==
    ASSUME NEW out \in Outbound
    PROVE  CatchAll(out) \in CatchAlls /\ CatchAll(out).out = out
BY DEF CatchAll, CatchAlls, Rule, BaseRule, isCatchAllRule

\* The same for one that is rewritten.
LEMMA CatchAllRewritten ==
    ASSUME NEW r \in CatchAlls, NEW out \in Outbound
    PROVE  [r EXCEPT !.out = out] \in CatchAlls /\ [r EXCEPT !.out = out].out = out
BY DEF CatchAlls, BaseRule, isCatchAllRule

\* The outbound of the catch-all exists.
LEMMA LastOutIs ==
    ASSUME TypeOK
    PROVE  /\ "blocked" \in Outbound /\ resolveFinal(final) \in Outbound
           /\ LastOut \in Outbound /\ LastOut # Open
<1>1. "" \notin Member /\ members \subseteq Member
    BY RouteLayersAssumption DEF TypeOK
<1> QED
    BY <1>1 DEF Outbound, Builtin, resolveFinal, LastOut, Open

\* The floor and the rule of the live mode.
LEMMA ModeShaped ==
    ASSUME TypeOK
    PROVE  Shaped(injectClashModeGlobal(Floor(base.rules)), FloorRules, <<>> \o <<ModeRule>>, Open)
<1>1. Shaped(Floor(base.rules), FloorRules, <<>>, Open)
    BY FloorShaped, RouteLayersAssumption DEF TypeOK
<1>2. PICK new : new = <<ModeRule>>
    OBVIOUS
<1>3. IsSeq(new) /\ Len(new) # 0 /\ Elems(new) = {ModeRule}
    BY <1>2, Single, ElemsSingle
<1>4. ModeRule.kind = "mode"
    BY DEF ModeRule, Rule
<1>5. \A r \in Elems(new) : r.kind \notin {"sniff", "network"}
    BY <1>3, <1>4
<1>6. Shaped(BeforeCatchAll(Floor(base.rules), new), FloorRules, <<>> \o new, Open)
    BY <1>1, <1>3, <1>5, ShapedBeforeCatchAll
<1> QED
    BY <1>2, <1>6 DEF injectClashModeGlobal, ModeRule

\* Strict and nothing permitted: the catch-all blocks.
LEMMA ClosedShaped ==
    ASSUME TypeOK, Closed, NEW rules, NEW F, NEW mid, Shaped(rules, F, mid, Open)
    PROVE  Shaped(injectAllow(rules), F, mid, LastOut)
<1>1. PICK out : out = "blocked"
    OBVIOUS
<1>2. out \in Outbound /\ LastOut = out
    BY <1>1, LastOutIs DEF LastOut
<1>3. PICK e : e = CatchAll(out)
    OBVIOUS
<1>4. e \in CatchAlls /\ e.out = out
    BY <1>2, <1>3, CatchAllOut
<1>5. PICK x : x = injectAllow(rules)
    OBVIOUS
<1>6. x = IF catchAllIdx(rules) <= Len(rules)
          THEN With(rules, catchAllIdx(rules), e) ELSE Append(rules, e)
    BY <1>1, <1>3, <1>5 DEF injectAllow, Closed, ensureCatchAll, With, CatchAll
<1>7. Shaped(x, F, mid, out)
    BY <1>2, <1>4, <1>6, ShapedWithCatchAll
<1> QED
    BY <1>2, <1>5, <1>7

\* Otherwise the gate and the Route layer stand above a catch-all to Final.
LEMMA OpenShaped ==
    ASSUME TypeOK, ~Closed, NEW rules, NEW F, NEW mid, Shaped(rules, F, mid, Open)
    PROVE  Shaped(injectAllow(rules), F, mid \o Mid(Egress), LastOut)
<1>1. PICK out : out = resolveFinal(final)
    OBVIOUS
<1>2. out \in Outbound /\ LastOut = out
    BY <1>1, LastOutIs DEF LastOut
<1>3. PICK new : new = Mid(Egress)
    OBVIOUS
<1>4. IsSeq(new) /\ Len(new) # 0 /\ \A r \in Elems(new) : r.kind \notin {"sniff", "network"}
    <2>1. PICK g \in Nat : g = Len(Gate)
        BY GateIs, Positions
    <2>2. IsSeq(Egress) /\ \A r \in Elems(Egress) : EgressRule(r)
        BY EgressIs
    <2> QED
        BY <1>3, <2>1, <2>2, MidIs
<1>5. PICK y : y = BeforeCatchAll(rules, new)
    OBVIOUS
<1>6. Shaped(y, F, mid \o new, Open)
    BY <1>4, <1>5, ShapedBeforeCatchAll
<1>7. PICK k : k = catchAllIdx(y)
    OBVIOUS
<1>8. IsSeq(y) /\ (k <= Len(y) => y[k] \in CatchAlls)
    <2>1. IsSeq(y) /\ IsSeq(mid \o new)
        BY <1>6 DEF Shaped
    <2>2. PICK p \in Nat, f \in Nat, q \in Nat : Places(y, F, mid \o new, Open, p, f, q)
        BY <1>6 DEF Shaped
    <2>3. PICK m \in Nat, n \in Nat : m = Len(mid \o new) /\ n = Len(y)
        BY <2>1, Positions
    <2>4. k = q + m + 1
        <3>1. PICK z : z = mid \o new
            OBVIOUS
        <3>2. Shaped(y, F, z, Open) /\ Places(y, F, z, Open, p, f, q)
            BY <1>6, <2>2, <3>1
        <3>3. catchAllIdx(y) = q + Len(z) + 1
            BY <3>2, CatchAllOfShape
        <3> QED
            BY <1>7, <2>3, <3>1, <3>3
    <2>5. q + m # n => y[q + m + 1] \in CatchAlls
        BY <2>2, <2>3 DEF Places
    <2>6. k <= n => q + m # n
        BY <2>4
    <2> QED
        BY <2>1, <2>3, <2>4, <2>5, <2>6
<1>9. PICK e \in CatchAlls :
        /\ e.out = out
        /\ IF k <= Len(y) THEN e = [y[k] EXCEPT !.out = out] ELSE e = CatchAll(out)
    BY <1>2, <1>8, CatchAllOut, CatchAllRewritten
<1>10. PICK x : x = injectAllow(rules)
    OBVIOUS
<1>11. x = IF k <= Len(y) THEN With(y, k, e) ELSE Append(y, e)
    <2>1. x = FlipCatchAll(y)
        BY <1>3, <1>5, <1>10 DEF injectAllow, Closed, Mid, ResolveRule
    <2>2. CASE k <= Len(y)
        BY <1>1, <1>7, <1>9, <2>1, <2>2 DEF FlipCatchAll, With
    <2>3. CASE ~(k <= Len(y))
        BY <1>1, <1>7, <1>9, <2>1, <2>3 DEF FlipCatchAll, CatchAll
    <2> QED
        BY <2>2, <2>3
<1>12. Shaped(x, F, mid \o new, out)
    BY <1>2, <1>6, <1>7, <1>9, <1>11, ShapedWithCatchAll
<1> QED
    BY <1>2, <1>3, <1>10, <1>12

\* Nothing before a sequence.
LEMMA EmptyFirst == ASSUME NEW s, IsSeq(s) PROVE <<>> \o s = s
<1>1. PICK S : s \in Seq(S)
    BY DEF IsSeq
<1> QED
    BY <1>1

\* The layers: the management rule, the floor, the rules of the base config,
\* the live mode, and a gate over the Route layer R.
Layered(rules, R) ==
    /\ Shaped(rules, FloorRules \cup {ManagementRule}, Whole(R), LastOut)
    /\ preludeLen(rules) < Len(rules)
    /\ rules[preludeLen(rules) + 1] = ManagementRule

\* What the box gets.
LEMMA MergedLayered == ASSUME TypeOK PROVE Layered(Merged, Egress)
<1>1. PICK a : a = injectClashModeGlobal(Floor(base.rules))
    OBVIOUS
<1>2. PICK b : b = injectAllow(a)
    OBVIOUS
<1>3. PICK live : live = <<ModeRule>>
    OBVIOUS
<1>4. Shaped(a, FloorRules, live, Open)
    <2>1. <<>> \o live = live
        BY <1>3, Single, EmptyFirst
    <2> QED
        BY <1>1, <1>3, <2>1, ModeShaped
<1>5. Shaped(b, FloorRules, Whole(Egress), LastOut)
    <2>1. CASE Closed
        BY <1>2, <1>3, <1>4, <2>1, ClosedShaped DEF Whole
    <2>2. CASE ~Closed
        BY <1>2, <1>3, <1>4, <2>2, OpenShaped DEF Whole
    <2> QED
        BY <2>1, <2>2
<1>6. PICK new : new = <<ManagementRule>>
    OBVIOUS
<1>7. IsSeq(new) /\ Elems(new) = {ManagementRule}
    BY <1>6, Single, ElemsSingle
<1>8. ManagementRule.kind = "port"
    BY DEF ManagementRule, Rule
<1>9. \A r \in Elems(new) : r.kind \notin {"sniff", "network"}
    BY <1>7, <1>8
<1>10. Shaped(AfterPrelude(b, new), FloorRules \cup Elems(new), Whole(Egress), LastOut)
    BY <1>5, <1>7, <1>9, ShapedAfterPrelude
<1>11. Merged = AfterPrelude(b, new)
    BY <1>1, <1>2, <1>6 DEF Merged, injectManagement, ManagementRule
<1>12. preludeLen(Merged) < Len(Merged) /\ Merged[preludeLen(Merged) + 1] = ManagementRule
    <2>1. IsSeq(b)
        BY <1>5 DEF Shaped
    <2> QED
        BY <1>6, <1>8, <1>11, <2>1, OnTop
<1> QED
    BY <1>7, <1>10, <1>11, <1>12 DEF Layered

\* The floor of the view has the rules of the floor.
LEMMA ViewFloorIs == IsSeq(ViewFloor) /\ Elems(ViewFloor) = FloorRules
<1>1. PICK a : a = Lists(bl, "reject")
    OBVIOUS
<1>2. PICK b : b = Lists(quar, "reject")
    OBVIOUS
<1>3. PICK d : d = RuleIfAny("any", DenySets, "reject")
    OBVIOUS
<1>4. PICK e : e = RuleIfAny("process", wl.procs, "reject")
    OBVIOUS
<1>5. PICK g : g = RuleIfAny("device", wl.devs, "reject")
    OBVIOUS
<1>6. /\ IsSeq(a) /\ Elems(a) = ListRules(bl, "reject")
      /\ IsSeq(b) /\ Elems(b) = ListRules(quar, "reject")
      /\ IsSeq(d) /\ Elems(d) = SetRules
      /\ IsSeq(e) /\ Elems(e) = ProcessRules
      /\ IsSeq(g) /\ Elems(g) = DeviceRules
    BY <1>1, <1>2, <1>3, <1>4, <1>5, ElemsLists, ElemsIfAny DEF SetRules, ProcessRules, DeviceRules
<1>7. PICK x : x = a \o b
    OBVIOUS
<1>8. IsSeq(x) /\ Elems(x) = Elems(a) \cup Elems(b)
    BY <1>6, <1>7, ElemsJoined
<1>9. PICK y : y = x \o d
    OBVIOUS
<1>10. IsSeq(y) /\ Elems(y) = Elems(x) \cup Elems(d)
    BY <1>6, <1>8, <1>9, ElemsJoined
<1>11. PICK z : z = y \o e
    OBVIOUS
<1>12. IsSeq(z) /\ Elems(z) = Elems(y) \cup Elems(e)
    BY <1>6, <1>10, <1>11, ElemsJoined
<1>13. IsSeq(z \o g) /\ Elems(z \o g) = Elems(z) \cup Elems(g)
    BY <1>6, <1>12, ElemsJoined
<1>14. ViewFloor = z \o g
    BY <1>1, <1>2, <1>3, <1>4, <1>5, <1>7, <1>9, <1>11 DEF ViewFloor
<1> QED
    BY <1>6, <1>8, <1>10, <1>12, <1>13, <1>14 DEF FloorRules

\* Where the brackets are does not matter.
LEMMA Regrouped ==
    ASSUME NEW s, NEW t, NEW u, IsSeq(s), IsSeq(t), IsSeq(u)
    PROVE  s \o (t \o u) = (s \o t) \o u
<1>1. PICK S : s \in Seq(S) /\ t \in Seq(S)
    BY OverOneSet
<1>2. PICK T : u \in Seq(T)
    BY DEF IsSeq
<1>3. s \in Seq(S \cup T) /\ t \in Seq(S \cup T) /\ u \in Seq(S \cup T)
    BY <1>1, <1>2
<1> QED
    BY <1>3

SniffRule == Rule("sniff", {}, "")
Opening == <<SniffRule, ManagementRule>>

\* The first two rules of the view.
LEMMA OpeningIs == IsSeq(Opening) /\ Len(Opening) = 2 /\ Opening[1] = SniffRule /\ Opening[2] = ManagementRule
<1>1. Opening \in Seq({SniffRule, ManagementRule})
    BY DEF Opening
<1> QED
    BY <1>1 DEF IsSeq, Opening

\* What EffectiveRules lists, part by part.
LEMMA ViewParts ==
    ASSUME TypeOK
    PROVE  /\ IsSeq(Whole(ViewRoute))
           /\ EffectiveRules = ((Opening \o ViewFloor) \o Whole(ViewRoute)) \o <<CatchAll(LastOut)>>
<1>1. PICK top : top = Opening \o ViewFloor
    OBVIOUS
<1>2. PICK live : live = <<ModeRule>>
    OBVIOUS
<1>3. PICK last : last = <<CatchAll(LastOut)>>
    OBVIOUS
<1>4. IsSeq(top) /\ IsSeq(live) /\ IsSeq(last)
    <2>1. IsSeq(Opening) /\ IsSeq(ViewFloor)
        BY OpeningIs, ViewFloorIs
    <2> QED
        BY <1>1, <1>2, <1>3, <2>1, Joined, Single
<1>5. CASE Closed
    <2>1. Whole(ViewRoute) = live
        BY <1>2, <1>5 DEF Whole
    <2>2. EffectiveRules = (top \o live) \o last
        BY <1>1, <1>2, <1>3, <1>5
           DEF EffectiveRules, Closed, LastOut, CatchAll, ModeRule, Opening, SniffRule, ManagementRule
    <2> QED
        BY <1>1, <1>3, <1>4, <2>1, <2>2
<1>6. CASE ~Closed
    <2>1. PICK m : m = Mid(ViewRoute)
        OBVIOUS
    <2>2. IsSeq(m)
        <3>1. PICK g \in Nat : g = Len(Gate)
            BY GateIs, Positions
        <3>2. IsSeq(ViewRoute) /\ \A r \in Elems(ViewRoute) : EgressRule(r)
            BY ViewRouteIs
        <3> QED
            BY <2>1, <3>1, <3>2, MidIs
    <2>3. Whole(ViewRoute) = live \o m /\ IsSeq(live \o m)
        BY <1>2, <1>4, <1>6, <2>1, <2>2, Joined DEF Whole
    <2>4. EffectiveRules = (top \o live) \o (m \o last)
        BY <1>1, <1>2, <1>3, <1>6, <2>1
           DEF EffectiveRules, Closed, LastOut, CatchAll, ModeRule, Opening, SniffRule, ManagementRule,
               Mid, ResolveRule
    <2>5. IsSeq(top \o live)
        BY <1>4, Joined
    <2>6. (top \o live) \o (m \o last) = ((top \o live) \o m) \o last
        <3>1. PICK x : x = top \o live
            OBVIOUS
        <3>2. IsSeq(x) /\ IsSeq(m) /\ IsSeq(last)
            BY <1>4, <2>2, <2>5, <3>1
        <3>3. x \o (m \o last) = (x \o m) \o last
            BY <3>2, Regrouped
        <3> QED
            BY <3>1, <3>3
    <2>7. (top \o live) \o m = top \o (live \o m)
        BY <1>4, <2>2, Regrouped
    <2> QED
        BY <1>1, <1>3, <2>3, <2>4, <2>6, <2>7
<1> QED
    BY <1>5, <1>6

\* No rule of a Route layer, and none of the rules around it, is a catch-all.
LEMMA WholeIs ==
    ASSUME NEW R, IsSeq(R), \A r \in Elems(R) : EgressRule(r)
    PROVE  IsSeq(Whole(R)) /\ \A r \in Elems(Whole(R)) : r.kind \notin {"sniff", "network"}
<1>1. PICK live : live = <<ModeRule>>
    OBVIOUS
<1>2. PICK m : m = Mid(R)
    OBVIOUS
<1>3. IsSeq(live) /\ Elems(live) = {ModeRule}
    BY <1>1, Single, ElemsSingle
<1>4. IsSeq(m) /\ \A r \in Elems(m) : r.kind \notin {"sniff", "network"}
    <2>1. PICK g \in Nat : g = Len(Gate)
        BY GateIs, Positions
    <2> QED
        BY <1>2, <2>1, MidIs
<1>5. IsSeq(live \o m) /\ Elems(live \o m) = Elems(live) \cup Elems(m)
    BY <1>3, <1>4, ElemsJoined
<1>6. ModeRule.kind = "mode"
    BY DEF ModeRule, Rule
<1> QED
    BY <1>1, <1>2, <1>3, <1>4, <1>5, <1>6 DEF Whole

\* The view has the layers too.
LEMMA ViewLayered == ASSUME TypeOK PROVE Layered(EffectiveRules, ViewRoute)
<1>1. PICK w : w = Whole(ViewRoute)
    OBVIOUS
<1>2. PICK last : last = <<CatchAll(LastOut)>>
    OBVIOUS
<1>3. PICK top : top = Opening \o ViewFloor
    OBVIOUS
<1>4. PICK upper : upper = top \o w
    OBVIOUS
<1>5. PICK view : view = upper \o last
    OBVIOUS
<1>6. view = EffectiveRules
    BY <1>1, <1>2, <1>3, <1>4, <1>5, ViewParts
<1>7. PICK n \in Nat, m \in Nat : n = Len(ViewFloor) /\ m = Len(w) /\ IsSeq(w)
    <2>1. IsSeq(ViewFloor) /\ IsSeq(w)
        BY <1>1, ViewFloorIs, ViewParts
    <2> QED
        BY <2>1, Positions
<1>8. /\ IsSeq(top) /\ Len(top) = 2 + n
      /\ top[1] = SniffRule /\ top[2] = ManagementRule
      /\ \A i \in 1 .. n : top[2 + i] = ViewFloor[i]
    <2>1. IsSeq(Opening) /\ IsSeq(ViewFloor)
        BY OpeningIs, ViewFloorIs
    <2>2. /\ IsSeq(top) /\ Len(top) = Len(Opening) + Len(ViewFloor)
          /\ \A i \in 1 .. Len(Opening) : top[i] = Opening[i]
          /\ \A i \in 1 .. Len(ViewFloor) : top[Len(Opening) + i] = ViewFloor[i]
        BY <1>3, <2>1, Joined
    <2>3. Len(Opening) = 2 /\ Opening[1] = SniffRule /\ Opening[2] = ManagementRule
        BY OpeningIs
    <2> QED
        BY <1>7, <2>2, <2>3
<1>9. /\ IsSeq(upper) /\ Len(upper) = 2 + n + m
      /\ \A i \in 1 .. 2 + n : upper[i] = top[i]
      /\ \A i \in 1 .. m : upper[2 + n + i] = w[i]
    <2>1. IsSeq(top) /\ IsSeq(w)
        BY <1>7, <1>8
    <2>2. /\ IsSeq(upper) /\ Len(upper) = Len(top) + Len(w)
          /\ \A i \in 1 .. Len(top) : upper[i] = top[i]
          /\ \A i \in 1 .. Len(w) : upper[Len(top) + i] = w[i]
        BY <1>4, <2>1, Joined
    <2> QED
        BY <1>7, <1>8, <2>2
<1>10. /\ IsSeq(view) /\ Len(view) = 2 + n + m + 1
       /\ \A i \in 1 .. 2 + n + m : view[i] = upper[i]
       /\ view[2 + n + m + 1] = CatchAll(LastOut)
    <2>1. IsSeq(last) /\ Len(last) = 1 /\ last[1] = CatchAll(LastOut)
        BY <1>2, Single
    <2>2. IsSeq(upper) /\ IsSeq(last)
        BY <1>9, <2>1
    <2>3. /\ IsSeq(view) /\ Len(view) = Len(upper) + Len(last)
          /\ \A i \in 1 .. Len(upper) : view[i] = upper[i]
          /\ \A i \in 1 .. Len(last) : view[Len(upper) + i] = last[i]
        BY <1>5, <2>2, Joined
    <2>4. 1 \in 1 .. Len(last)
        BY <2>1
    <2> QED
        BY <1>9, <2>1, <2>3, <2>4
<1>11. view[1] = SniffRule /\ view[2] = ManagementRule
    <2>1. 1 \in 1 .. 2 + n /\ 2 \in 1 .. 2 + n /\ 1 \in 1 .. 2 + n + m /\ 2 \in 1 .. 2 + n + m
        OBVIOUS
    <2> QED
        BY <1>8, <1>9, <1>10, <2>1
<1>12. ASSUME NEW i \in 1 .. n PROVE view[2 + i] = ViewFloor[i]
    <2>1. 2 + i \in 1 .. 2 + n /\ 2 + i \in 1 .. 2 + n + m
        OBVIOUS
    <2> QED
        BY <1>8, <1>9, <1>10, <2>1
<1>13. ASSUME NEW i \in 1 .. m PROVE view[2 + n + i] = w[i]
    <2>1. 2 + n + i \in 1 .. 2 + n + m
        OBVIOUS
    <2> QED
        BY <1>9, <1>10, <2>1
<1>14. /\ SniffRule.kind = "sniff" /\ ManagementRule.kind = "port"
       /\ CatchAll(LastOut) \in CatchAlls /\ CatchAll(LastOut).out = LastOut
    <2>1. LastOut \in Outbound
        BY LastOutIs
    <2> QED
        BY <2>1, CatchAllOut DEF SniffRule, ManagementRule, Rule
<1>15. PICK f \in Nat : f = 2 + n
    OBVIOUS
<1>16. PICK F : F = FloorRules \cup {ManagementRule}
    OBVIOUS
<1>17. PICK out : out = LastOut
    OBVIOUS
<1>18. Places(view, F, w, out, 1, f, f)
    <2>1. 1 <= f /\ f <= f /\ f + Len(w) <= Len(view)
        BY <1>7, <1>10, <1>15
    <2>2. \A j \in 1 .. 1 : view[j].kind = "sniff"
        BY <1>11, <1>14
    <2>3. view[1 + 1].kind # "sniff"
        BY <1>11, <1>14
    <2>4. ASSUME NEW j \in 1 + 1 .. f PROVE view[j] \in F
        <3>1. CASE j = 2
            BY <1>11, <1>16, <3>1
        <3>2. CASE j # 2
            <4>1. j - 2 \in 1 .. n /\ 2 + (j - 2) = j
                BY <1>15, <3>2
            <4>2. view[j] = ViewFloor[j - 2]
                BY <1>12, <4>1
            <4>3. ViewFloor[j - 2] \in Elems(ViewFloor)
                BY <1>7, <4>1 DEF Elems
            <4> QED
                BY <1>16, <4>2, <4>3, ViewFloorIs
        <3> QED
            BY <3>1, <3>2
    <2>5. ASSUME NEW r \in F PROVE \E j \in 1 + 1 .. f : view[j] = r
        <3>1. CASE r = ManagementRule
            <4>1. 2 \in 1 + 1 .. f
                BY <1>15
            <4> QED
                BY <1>11, <3>1, <4>1
        <3>2. CASE r \in FloorRules
            <4>1. PICK i \in 1 .. n : ViewFloor[i] = r
                BY <1>7, <3>2, ViewFloorIs DEF Elems
            <4>2. 2 + i \in 1 + 1 .. f
                BY <1>15
            <4> QED
                BY <1>12, <4>1, <4>2
        <3> QED
            BY <1>16, <2>5, <3>1, <3>2
    <2>6. \A j \in f + 1 .. f : view[j] \in BaseAbove
        OBVIOUS
    <2>7. \A j \in 1 .. Len(w) : view[f + j] = w[j]
        BY <1>7, <1>13, <1>15
    <2>8. f + Len(w) # Len(view) /\ view[f + Len(w) + 1] = CatchAll(LastOut)
        BY <1>7, <1>10, <1>15
    <2> QED
        BY <1>14, <1>17, <2>1, <2>2, <2>3, <2>4, <2>5, <2>6, <2>7, <2>8 DEF Places
<1>19. \A r \in F \cup Elems(w) : ~isCatchAllRule(r)
    <2>1. \A r \in Elems(w) : r.kind \notin {"sniff", "network"}
        BY <1>1, ViewRouteIs, WholeIs
    <2>2. \A r \in F : ~isCatchAllRule(r)
        BY <1>14, <1>16, FloorStops DEF isCatchAllRule
    <2> QED
        BY <2>1, <2>2 DEF isCatchAllRule
<1>20. Shaped(view, F, w, out)
    BY <1>7, <1>10, <1>15, <1>18, <1>19 DEF Shaped
<1>21. preludeLen(view) = 1
    <2>1. 1 \in 0 .. Len(view)
        BY <1>10
    <2>2. \A j \in 1 .. 1 : view[j].kind = "sniff"
        BY <1>11, <1>14
    <2>3. view[1 + 1].kind # "sniff"
        BY <1>11, <1>14
    <2> QED
        BY <1>10, <2>1, <2>2, <2>3, PreludeWhere
<1>22. 1 < Len(view) /\ view[1 + 1] = ManagementRule
    BY <1>10, <1>11
<1> QED
    BY <1>1, <1>6, <1>16, <1>17, <1>20, <1>21, <1>22 DEF Layered
-----------------------------------------------------------------------------
(* Which layer decides a connection.                                        *)

\* The positions of the layers; g rules of the gate, the catch-all is at k.
Spots(rules, R, p, f, q, g, k) ==
    /\ p < f /\ f <= q /\ q < k /\ k <= Len(rules)
    /\ \A j \in 1 .. p : rules[j].kind = "sniff"
    /\ rules[p + 1] = ManagementRule
    /\ \A j \in p + 1 .. f : rules[j] \in FloorRules \cup {ManagementRule}
    /\ \A r \in FloorRules : \E j \in p + 1 .. f : rules[j] = r
    /\ \A j \in f + 1 .. q : rules[j] \in BaseAbove
    /\ rules[q + 1] = ModeRule
    /\ Closed => k = q + 2
    /\ ~Closed => /\ k = q + g + 3 + Len(R)
                  /\ \A j \in 1 .. g : rules[q + 1 + j] = GateRule
                  /\ rules[q + g + 2] = ResolveRule
                  /\ \A j \in 1 .. Len(R) : rules[q + g + 2 + j] = R[j]
    /\ g = IF splitOpen THEN 0 ELSE 1
    /\ rules[k] \in CatchAlls /\ rules[k].out = LastOut

\* The layers have positions.
LEMMA Spotted ==
    ASSUME TypeOK, NEW rules, NEW R, Layered(rules, R), IsSeq(R),
           \A r \in Elems(R) : EgressRule(r)
    PROVE  \E p, f, q, g, k \in Nat : Spots(rules, R, p, f, q, g, k)
<1>1. PICK F : F = FloorRules \cup {ManagementRule}
    OBVIOUS
<1>2. PICK w : w = Whole(R)
    OBVIOUS
<1>3. PICK out : out = LastOut
    OBVIOUS
<1>4. Shaped(rules, F, w, out)
    BY <1>1, <1>2, <1>3 DEF Layered
<1>5. PICK p \in Nat, f \in Nat, q \in Nat : Places(rules, F, w, out, p, f, q)
    BY <1>4 DEF Shaped
<1>6. IsSeq(rules) /\ IsSeq(w)
    BY <1>4 DEF Shaped
<1>7. PICK len \in Nat, n \in Nat, m \in Nat : len = Len(rules) /\ n = Len(w) /\ m = Len(R)
    BY <1>6, Positions
<1>8. p <= f /\ f <= q /\ q + n <= len
    BY <1>5, <1>7 DEF Places
<1>9. PICK g \in Nat : g = IF splitOpen THEN 0 ELSE 1
    OBVIOUS
<1>10. g = Len(Gate) /\ \A j \in 1 .. g : Gate[j] = GateRule
    BY <1>9, GateIs, NoRules, Single
<1>11. n # 0 /\ w[1] = ModeRule /\ (Closed => n = 1)
       /\ (~Closed => n = 1 + Len(Mid(R)) /\ \A j \in 1 .. Len(Mid(R)) : w[1 + j] = Mid(R)[j])
    <2>1. PICK live : live = <<ModeRule>>
        OBVIOUS
    <2>2. IsSeq(live) /\ Len(live) = 1 /\ live[1] = ModeRule
        BY <2>1, Single
    <2>3. CASE Closed
        BY <1>2, <1>7, <2>1, <2>2, <2>3 DEF Whole
    <2>4. CASE ~Closed
        <3>1. PICK mm : mm = Mid(R)
            OBVIOUS
        <3>2. IsSeq(mm)
            BY <1>10, <3>1, MidIs
        <3>3. w = live \o mm
            BY <1>2, <2>1, <2>4, <3>1 DEF Whole
        <3>4. IsSeq(live)
            BY <2>2
        <3>5. /\ Len(w) = Len(live) + Len(mm) /\ Len(mm) \in Nat
              /\ \A j \in 1 .. Len(live) : w[j] = live[j]
              /\ \A j \in 1 .. Len(mm) : w[Len(live) + j] = mm[j]
            BY <3>2, <3>3, <3>4, Joined, Positions
        <3>6. 1 \in 1 .. Len(live)
            BY <2>2
        <3> QED
            BY <1>7, <2>2, <2>4, <3>1, <3>5, <3>6
    <2> QED
        BY <2>3, <2>4
<1>12. /\ Len(Mid(R)) = g + 1 + m
       /\ \A j \in 1 .. g : Mid(R)[j] = GateRule
       /\ Mid(R)[g + 1] = ResolveRule
       /\ \A j \in 1 .. m : Mid(R)[g + 1 + j] = R[j]
    BY <1>7, <1>10, MidIs
<1>13. PICK k \in Nat : k = q + n + 1
    OBVIOUS
<1>14. k <= len /\ rules[k] \in CatchAlls /\ rules[k].out = LastOut
    <2>1. out # Open
        BY <1>3, LastOutIs
    <2>2. q + n # len /\ rules[q + n + 1] \in CatchAlls /\ rules[q + n + 1].out = out
        BY <1>5, <1>7, <2>1 DEF Places
    <2> QED
        BY <1>3, <1>8, <1>13, <2>2
<1>15. \A j \in 1 .. n : rules[q + j] = w[j]
    BY <1>5, <1>7 DEF Places
<1>16. rules[q + 1] = ModeRule
    <2>1. 1 \in 1 .. n
        BY <1>11
    <2> QED
        BY <1>11, <1>15, <2>1
<1>17. ASSUME ~Closed, NEW j \in 1 .. g + 1 + m PROVE rules[q + 1 + j] = Mid(R)[j]
    <2>1. 1 + j \in 1 .. n /\ q + (1 + j) = q + 1 + j
        BY <1>11, <1>12, <1>17
    <2>2. w[1 + j] = Mid(R)[j]
        BY <1>11, <1>12, <1>17
    <2> QED
        BY <1>15, <2>1, <2>2
<1>18. ASSUME ~Closed
       PROVE  /\ k = q + g + 3 + m
              /\ \A j \in 1 .. g : rules[q + 1 + j] = GateRule
              /\ rules[q + g + 2] = ResolveRule
              /\ \A j \in 1 .. m : rules[q + g + 2 + j] = R[j]
    <2>1. k = q + g + 3 + m
        BY <1>11, <1>12, <1>13, <1>18
    <2>2. ASSUME NEW j \in 1 .. g PROVE rules[q + 1 + j] = GateRule
        <3>1. j \in 1 .. g + 1 + m
            OBVIOUS
        <3> QED
            BY <1>12, <1>17, <1>18, <3>1
    <2>3. rules[q + g + 2] = ResolveRule
        <3>1. g + 1 \in 1 .. g + 1 + m /\ q + 1 + (g + 1) = q + g + 2
            OBVIOUS
        <3>2. rules[q + 1 + (g + 1)] = Mid(R)[g + 1]
            BY <1>17, <1>18, <3>1
        <3> QED
            BY <1>12, <3>1, <3>2
    <2>4. ASSUME NEW j \in 1 .. m PROVE rules[q + g + 2 + j] = R[j]
        <3>1. g + 1 + j \in 1 .. g + 1 + m /\ q + 1 + (g + 1 + j) = q + g + 2 + j
            OBVIOUS
        <3>2. rules[q + 1 + (g + 1 + j)] = Mid(R)[g + 1 + j]
            BY <1>17, <1>18, <3>1
        <3> QED
            BY <1>12, <3>1, <3>2
    <2> QED
        BY <2>1, <2>2, <2>3, <2>4
<1>19. ManagementRule.kind = "port"
    BY DEF ManagementRule, Rule
<1>20. p < f /\ p # len
    <2>1. PICK j \in p + 1 .. f : rules[j] = ManagementRule
        BY <1>1, <1>5 DEF Places
    <2> QED
        BY <1>8, <2>1
<1>21. rules[p + 1] = ManagementRule
    <2>1. p \in 0 .. Len(rules)
        BY <1>7, <1>8
    <2>2. /\ \A j \in 1 .. p : rules[j].kind = "sniff"
          /\ p # Len(rules) => rules[p + 1].kind # "sniff"
        BY <1>5 DEF Places
    <2>3. preludeLen(rules) = p
        BY <1>6, <2>1, <2>2, PreludeWhere
    <2> QED
        BY <2>3 DEF Layered
<1>22. Closed => k = q + 2
    BY <1>11, <1>13
<1>23. q < k
    BY <1>13
<1>24. /\ \A j \in 1 .. p : rules[j].kind = "sniff"
       /\ \A j \in p + 1 .. f : rules[j] \in F
       /\ \A r \in F : \E j \in p + 1 .. f : rules[j] = r
       /\ \A j \in f + 1 .. q : rules[j] \in BaseAbove
    BY <1>5 DEF Places
<1>25. Spots(rules, R, p, f, q, g, k)
    BY <1>1, <1>7, <1>8, <1>9, <1>14, <1>16, <1>18, <1>20, <1>21, <1>22, <1>23, <1>24 DEF Spots
<1> QED
    BY <1>25

\* What each kind of rule matches.
LEMMA MatchesIs ==
    ASSUME TypeOK, NEW c, NEW known
    PROVE  /\ Matches(ManagementRule, c, known) <=> c.mgmt
           /\ Matches(ModeRule, c, known) <=> clashMode = "Global"
           /\ Matches(GateRule, c, known) <=> ~HitsAny(GatePermits, c, known)
           /\ ~Matches(ResolveRule, c, known)
           /\ \A r : r.kind = "sniff" => ~Matches(r, c, known)
           /\ \A r : EgressRule(r) /\ Matches(r, c, known) => HitsAny(r.of, c, known)
           /\ c \in Conn => \A r \in CatchAlls : Matches(r, c, known)
<1>1. Matches(ManagementRule, c, known) <=> c.mgmt
    BY DEF Matches, ManagementRule, Rule
<1>2. Matches(ModeRule, c, known) <=> clashMode = "Global"
    BY DEF Matches, ModeRule, Rule
<1>3. Matches(GateRule, c, known) <=> ~HitsAny(GatePermits, c, known)
    BY DEF Matches, GateRule, Rule
<1>4. ~Matches(ResolveRule, c, known)
    BY DEF Matches, ResolveRule, Rule
<1>5. \A r : r.kind = "sniff" => ~Matches(r, c, known)
    BY DEF Matches
<1>6. \A r : EgressRule(r) /\ Matches(r, c, known) => HitsAny(r.of, c, known)
    BY DEF Matches, EgressRule
<1>7. ASSUME c \in Conn, NEW r \in CatchAlls PROVE Matches(r, c, known)
    <2>1. c.net \in Everything
        BY <1>7, RouteLayersAssumption
    <2> QED
        BY <1>7, <2>1 DEF Matches, CatchAlls, isCatchAllRule, Everything
<1> QED
    BY <1>1, <1>2, <1>3, <1>4, <1>5, <1>6, <1>7

\* Above the resolve rule the rule that decides is what AboveRoute gives.
LEMMA DecidedAbove ==
    ASSUME NEW rules, IsSeq(rules), NEW c, NEW i \in Matching(rules, c),
           \A j \in Matching(rules, c) : i <= j, Verdict(rules, c) = rules[i].out,
           \A j \in 1 .. i - 1 : rules[j].kind # "resolve"
    PROVE  AboveRoute(rules, c) = rules[i].out
<1>1. DOMAIN rules = 1 .. Len(rules) /\ Len(rules) \in Nat /\ i \in DOMAIN rules
    BY Positions DEF Matching
<1>2. ASSUME NEW j \in DOMAIN rules, rules[j].kind = "resolve",
             \A m \in Matching(rules, c) : j < m
      PROVE  FALSE
    <2>1. j \in 1 .. i - 1
        BY <1>1, <1>2
    <2> QED
        BY <1>2, <2>1
<1> QED
    BY <1>2 DEF AboveRoute

\* What becomes of c: what the layers promise, from the policy alone.
Decided(rules, R, c) ==
    \/ c.mgmt /\ Verdict(rules, c) = "direct" /\ AboveRoute(rules, c) = "direct"
    \/ /\ ~c.mgmt /\ Denied(c)
       /\ Verdict(rules, c) = "reject" /\ AboveRoute(rules, c) = "reject"
    \/ ~c.mgmt /\ ~Denied(c) /\ DecidedByBase(c)
    \/ /\ ~c.mgmt /\ ~Denied(c) /\ clashMode = "Global"
       /\ Verdict(rules, c) = "proxy" /\ AboveRoute(rules, c) = "proxy"
    \/ /\ ~c.mgmt /\ ~Denied(c) /\ clashMode # "Global"
       /\ Closed \/ (~splitOpen /\ ~HitsAny(GatePermits, c, c.byAddr))
       /\ Verdict(rules, c) = "blocked" /\ AboveRoute(rules, c) = "blocked"
    \/ /\ ~c.mgmt /\ ~Denied(c) /\ clashMode # "Global" /\ ~Closed
       /\ splitOpen \/ HitsAny(GatePermits, c, c.byAddr)
       /\ AboveRoute(rules, c) = "route"
       /\ \/ Verdict(rules, c) = LastOut
          \/ \E r \in Elems(R) : HitsAny(r.of, c, TRUE) /\ Verdict(rules, c) = r.out
       /\ Len(R) # 0 /\ R[1].kind = "any" /\ HitsAny(R[1].of, c, FALSE) =>
            Verdict(rules, c) = R[1].out

\* No rule above position n resolves.
NoneResolves(rules, n) == \A j \in 1 .. n : rules[j].kind # "resolve"

\* None of the layers above the Route layer does.
LEMMA ResolvesBelow ==
    ASSUME TypeOK, NEW rules, NEW R, NEW p \in Nat, NEW f \in Nat, NEW q \in Nat,
           NEW g \in Nat, NEW k \in Nat, Spots(rules, R, p, f, q, g, k),
           base.rules \in Seq(BaseRule)
    PROVE  NoneResolves(rules, q + 1) /\ (~Closed => NoneResolves(rules, q + 1 + g))
<1>1. p < f /\ f <= q
    BY DEF Spots
<1>2. ManagementRule.kind = "port" /\ ModeRule.kind = "mode" /\ GateRule.kind = "none"
    BY DEF ManagementRule, ModeRule, GateRule, Rule
<1>3. \A r \in BaseAbove : r.kind # "resolve"
    <2>1. \A i \in DOMAIN base.rules : base.rules[i] \in BaseRule
        OBVIOUS
    <2>2. \A r \in BaseRule : r.kind # "resolve"
        BY DEF BaseRule
    <2> QED
        BY <2>1, <2>2 DEF BaseAbove
<1>4. ASSUME NEW j \in 1 .. q + 1 PROVE rules[j].kind # "resolve"
    <2>1. CASE j \in 1 .. p
        BY <2>1 DEF Spots
    <2>2. CASE j \in p + 1 .. f
        <3>1. rules[j] \in FloorRules \cup {ManagementRule}
            BY <2>2 DEF Spots
        <3> QED
            BY <1>2, <3>1, FloorStops
    <2>3. CASE j \in f + 1 .. q
        BY <1>3, <2>3 DEF Spots
    <2>4. CASE j = q + 1
        BY <1>2, <2>4 DEF Spots
    <2> QED
        BY <1>1, <2>1, <2>2, <2>3, <2>4
<1>5. ASSUME ~Closed, NEW j \in 1 .. q + 1 + g PROVE rules[j].kind # "resolve"
    <2>1. CASE j \in 1 .. q + 1
        BY <1>4, <2>1
    <2>2. CASE j - (q + 1) \in 1 .. g
        <3>1. q + 1 + (j - (q + 1)) = j
            OBVIOUS
        <3>2. rules[j] = GateRule
            BY <1>5, <2>2, <3>1 DEF Spots
        <3> QED
            BY <1>2, <3>2
    <2> QED
        BY <2>1, <2>2
<1> QED
    BY <1>4, <1>5 DEF NoneResolves

\* At a position above every resolve rule a connection is as it was dialled.
LEMMA DialledAt ==
    ASSUME NEW rules, IsSeq(rules), NEW c, NEW n \in Nat, NoneResolves(rules, n),
           NEW i \in 1 .. Len(rules), i <= n + 1
    PROVE  i \in Matching(rules, c) <=> Matches(rules[i], c, c.byAddr)
<1>1. Len(rules) \in Nat
    BY Positions
<1>2. \A j \in 1 .. i - 1 : rules[j].kind # "resolve"
    BY <1>1 DEF NoneResolves
<1> QED
    BY <1>2, AsDialled

\* Every connection gets what the layers promise.
LEMMA LayersDecide ==
    ASSUME TypeOK, NEW rules, NEW R, Layered(rules, R), IsSeq(R),
           \A r \in Elems(R) : EgressRule(r), NEW c \in Conn
    PROVE  Decided(rules, R, c)
<1>1. PICK p \in Nat, f \in Nat, q \in Nat, g \in Nat, k \in Nat : Spots(rules, R, p, f, q, g, k)
    BY Spotted
<1>2. IsSeq(rules)
    BY DEF Layered, Shaped
<1>3. PICK len \in Nat : len = Len(rules) /\ DOMAIN rules = 1 .. len
    BY <1>2, Positions
<1>4. p < f /\ f <= q /\ q < k /\ k <= len
    BY <1>1, <1>3 DEF Spots
<1>5. base.rules \in Seq(BaseRule)
    BY RouteLayersAssumption DEF TypeOK
<1>6. NoneResolves(rules, q + 1) /\ (~Closed => NoneResolves(rules, q + 1 + g))
    BY <1>1, <1>5, ResolvesBelow
<1>7. PICK M : M = Matching(rules, c)
    OBVIOUS
<1>8. \A i \in M : i \in 1 .. len
    BY <1>3, <1>7 DEF Matching
<1>9. \A i \in 1 .. q + 1 : i \in M <=> Matches(rules[i], c, c.byAddr)
    <2>1. ASSUME NEW i \in 1 .. q + 1 PROVE i \in M <=> Matches(rules[i], c, c.byAddr)
        <3>1. i \in 1 .. Len(rules) /\ i <= (q + 1) + 1 /\ q + 1 \in Nat
            BY <1>3, <1>4
        <3> QED
            BY <1>2, <1>6, <1>7, <3>1, DialledAt
    <2> QED
        BY <2>1
<1>10. k \in M
    <2>1. k \in DOMAIN rules /\ rules[k] \in CatchAlls
        BY <1>1, <1>3, <1>4 DEF Spots
    <2>2. \A known : Matches(rules[k], c, known)
        BY <2>1, MatchesIs
    <2> QED
        BY <1>7, <2>1, <2>2 DEF Matching
<1>11. PICK i \in 1 .. k : i \in M /\ Verdict(rules, c) = rules[i].out /\ \A j \in M : i <= j
    BY <1>2, <1>7, <1>10, FirstMatch
<1>12. i > p
    <2>1. ASSUME i \in 1 .. p PROVE FALSE
        <3>1. rules[i].kind = "sniff" /\ i \in 1 .. q + 1
            BY <1>1, <1>4, <2>1 DEF Spots
        <3> QED
            BY <1>9, <1>11, <3>1, MatchesIs
    <2> QED
        BY <2>1
<1>13. ASSUME i <= q + 1 PROVE AboveRoute(rules, c) = rules[i].out
    <2>1. \A j \in 1 .. i - 1 : rules[j].kind # "resolve"
        BY <1>6, <1>13 DEF NoneResolves
    <2> QED
        BY <1>2, <1>7, <1>11, <2>1, DecidedAbove
<1>14. CASE c.mgmt
    <2>1. rules[p + 1] = ManagementRule /\ p + 1 \in 1 .. q + 1
        BY <1>1, <1>4 DEF Spots
    <2>2. p + 1 \in M
        BY <1>9, <1>14, <2>1, MatchesIs
    <2>3. i = p + 1
        BY <1>11, <1>12, <2>2
    <2>4. ManagementRule.out = "direct"
        BY DEF ManagementRule, Rule
    <2>5. Verdict(rules, c) = "direct" /\ AboveRoute(rules, c) = "direct"
        <3>1. i <= q + 1
            BY <1>4, <2>3
        <3> QED
            BY <1>11, <1>13, <2>1, <2>3, <2>4, <3>1
    <2> QED
        BY <1>14, <2>5 DEF Decided
<1>15. ASSUME ~c.mgmt, i <= f PROVE rules[i] \in FloorRules /\ rules[i].out = "reject" /\ Denied(c)
    <2>1. i \in p + 1 .. f /\ i \in 1 .. q + 1
        BY <1>4, <1>12, <1>15
    <2>2. rules[i] \in FloorRules \cup {ManagementRule}
        BY <1>1, <2>1 DEF Spots
    <2>3. Matches(rules[i], c, c.byAddr)
        BY <1>9, <1>11, <2>1
    <2>4. rules[i] \in FloorRules
        BY <1>15, <2>2, <2>3, MatchesIs
    <2> QED
        BY <2>3, <2>4, FloorStops
<1>16. CASE ~c.mgmt /\ Denied(c)
    <2>1. PICK r \in FloorRules : Matches(r, c, c.byAddr)
        BY <1>16, FloorDenies
    <2>2. PICK j \in p + 1 .. f : rules[j] = r
        BY <1>1 DEF Spots
    <2>3. j \in 1 .. q + 1
        BY <1>4
    <2>4. j \in M
        BY <1>9, <2>1, <2>2, <2>3
    <2>5. i <= f /\ i <= q + 1
        BY <1>4, <1>11, <2>4
    <2>6. Verdict(rules, c) = "reject" /\ AboveRoute(rules, c) = "reject"
        BY <1>11, <1>13, <1>15, <1>16, <2>5
    <2> QED
        BY <1>16, <2>6 DEF Decided
<1>17. CASE ~c.mgmt /\ ~Denied(c)
    <2>1. i > f
        BY <1>15, <1>17
    <2>2. CASE i <= q
        <3>1. i \in f + 1 .. q /\ i \in 1 .. q + 1
            BY <2>1, <2>2
        <3>2. rules[i] \in BaseAbove /\ Matches(rules[i], c, c.byAddr)
            BY <1>1, <1>9, <1>11, <3>1 DEF Spots
        <3>3. DecidedByBase(c)
            BY <3>2 DEF BaseAbove, DecidedByBase
        <3> QED
            BY <1>17, <3>3 DEF Decided
    <2>3. rules[q + 1] = ModeRule /\ q + 1 \in 1 .. q + 1
        BY <1>1 DEF Spots
    <2>4. q + 1 \in M <=> clashMode = "Global"
        BY <1>9, <2>3, MatchesIs
    <2>5. CASE i > q /\ clashMode = "Global"
        <3>1. i = q + 1
            BY <1>11, <2>4, <2>5
        <3>2. ModeRule.out = "proxy"
            BY DEF ModeRule, Rule
        <3>3. Verdict(rules, c) = "proxy" /\ AboveRoute(rules, c) = "proxy"
            BY <1>11, <1>13, <2>3, <3>1, <3>2
        <3> QED
            BY <1>17, <2>5, <3>3 DEF Decided
    <2>6. CASE i > q /\ clashMode # "Global" /\ Closed
        <3>1. k = q + 2 /\ rules[k].out = LastOut
            BY <1>1, <2>6 DEF Spots
        <3>2. i = k
            <4>1. i # q + 1
                BY <1>11, <2>4, <2>6
            <4> QED
                BY <2>6, <3>1, <4>1
        <3>3. AboveRoute(rules, c) = rules[i].out
            <4>1. \A j \in 1 .. i - 1 : rules[j].kind # "resolve"
                BY <1>6, <3>1, <3>2 DEF NoneResolves
            <4> QED
                BY <1>2, <1>7, <1>11, <4>1, DecidedAbove
        <3>4. LastOut = "blocked"
            BY <2>6 DEF LastOut
        <3> QED
            BY <1>11, <1>17, <2>6, <3>1, <3>2, <3>3, <3>4 DEF Decided
    <2>7. CASE i > q /\ clashMode # "Global" /\ ~Closed
        <3>1. PICK m \in Nat : m = Len(R)
            BY Positions
        <3>2. /\ k = q + g + 3 + m
              /\ \A j \in 1 .. g : rules[q + 1 + j] = GateRule
              /\ rules[q + g + 2] = ResolveRule
              /\ \A j \in 1 .. m : rules[q + g + 2 + j] = R[j]
              /\ g = IF splitOpen THEN 0 ELSE 1
              /\ rules[k].out = LastOut
            BY <1>1, <2>7, <3>1 DEF Spots
        <3>3. i > q + 1
            <4>1. i # q + 1
                BY <1>11, <2>4, <2>7
            <4> QED
                BY <2>7, <4>1
        <3>4. ASSUME ~splitOpen
              PROVE  /\ g = 1 /\ rules[q + 2] = GateRule
                     /\ q + 2 \in M <=> ~HitsAny(GatePermits, c, c.byAddr)
            <4>1. g = 1 /\ 1 \in 1 .. g /\ q + 1 + 1 = q + 2
                BY <3>2, <3>4
            <4>2. rules[q + 2] = GateRule
                BY <3>2, <4>1
            <4>3. q + 2 \in 1 .. Len(rules) /\ q + 2 <= (q + 1) + 1 /\ q + 1 \in Nat
                BY <1>3, <1>4, <3>2, <4>1
            <4>4. q + 2 \in M <=> Matches(rules[q + 2], c, c.byAddr)
                <5>1. PICK n : n = q + 2
                    OBVIOUS
                <5>2. PICK h \in Nat : h = q + 1
                    OBVIOUS
                <5>3. NoneResolves(rules, h) /\ n \in 1 .. Len(rules) /\ n <= h + 1
                    BY <1>6, <4>3, <5>1, <5>2
                <5> QED
                    BY <1>2, <1>7, <5>1, <5>3, DialledAt
            <4> QED
                BY <4>1, <4>2, <4>4, MatchesIs
        <3>5. CASE ~splitOpen /\ ~HitsAny(GatePermits, c, c.byAddr)
            <4>1. i = q + 2 /\ g = 1
                BY <1>11, <3>3, <3>4, <3>5
            <4>2. GateRule.out = "blocked"
                BY DEF GateRule, Rule
            <4>3. AboveRoute(rules, c) = rules[i].out
                <5>1. \A j \in 1 .. i - 1 : rules[j].kind # "resolve"
                    BY <1>6, <4>1 DEF NoneResolves
                <5> QED
                    BY <1>2, <1>7, <1>11, <5>1, DecidedAbove
            <4>4. Verdict(rules, c) = "blocked" /\ AboveRoute(rules, c) = "blocked"
                BY <1>11, <3>4, <3>5, <4>1, <4>2, <4>3
            <4> QED
                BY <1>17, <2>7, <3>5, <4>4 DEF Decided
        <3>6. CASE splitOpen \/ HitsAny(GatePermits, c, c.byAddr)
            <4>1. i > q + g + 2
                <5>1. i > q + 1 + g
                    <6>1. CASE splitOpen
                        BY <3>2, <3>3, <6>1
                    <6>2. CASE ~splitOpen
                        <7>1. i # q + 2
                            BY <1>11, <3>4, <3>6, <6>2
                        <7> QED
                            BY <3>3, <3>4, <6>2, <7>1
                    <6> QED
                        BY <6>1, <6>2
                <5>2. i # q + g + 2
                    <6>1. \A known : ~Matches(ResolveRule, c, known)
                        BY MatchesIs
                    <6>2. ASSUME i = q + g + 2 PROVE FALSE
                        <7>1. rules[i] = ResolveRule
                            BY <3>2, <6>2
                        <7> QED
                            BY <1>7, <1>11, <6>1, <7>1 DEF Matching
                    <6> QED
                        BY <6>2
                <5> QED
                    BY <5>1, <5>2
            <4>2. AboveRoute(rules, c) = "route"
                <5>1. ResolveRule.kind = "resolve"
                    BY DEF ResolveRule, Rule
                <5>2. PICK s : s = q + g + 2
                    OBVIOUS
                <5>3. s \in DOMAIN rules /\ rules[s] = ResolveRule
                    BY <1>3, <1>4, <3>2, <5>2
                <5>4. \A j \in M : s < j
                    BY <1>8, <1>11, <4>1, <5>2
                <5> QED
                    BY <1>7, <5>1, <5>3, <5>4 DEF AboveRoute
            <4>3. ASSUME i # k
                  PROVE  /\ i - (q + g + 2) \in 1 .. m /\ q + g + 2 + (i - (q + g + 2)) = i
                         /\ rules[i] = R[i - (q + g + 2)]
                <5>1. i - (q + g + 2) \in 1 .. m /\ q + g + 2 + (i - (q + g + 2)) = i
                    BY <3>2, <4>1, <4>3
                <5> QED
                    BY <3>2, <5>1
            <4>4. \/ Verdict(rules, c) = LastOut
                  \/ \E r \in Elems(R) : HitsAny(r.of, c, TRUE) /\ Verdict(rules, c) = r.out
                <5>1. CASE i = k
                    BY <1>11, <3>2, <5>1
                <5>2. CASE i # k
                    <6>1. rules[i] \in Elems(R)
                        BY <3>1, <4>3, <5>2 DEF Elems
                    <6>2. PICK known : Matches(rules[i], c, known)
                        BY <1>7, <1>11 DEF Matching
                    <6>3. HitsAny(rules[i].of, c, known)
                        BY <6>1, <6>2, MatchesIs
                    <6>4. HitsAny(rules[i].of, c, TRUE)
                        BY <6>3 DEF HitsAny, Hits
                    <6> QED
                        BY <1>11, <6>1, <6>4
                <5> QED
                    BY <5>1, <5>2
            <4>5. ASSUME Len(R) # 0, R[1].kind = "any", HitsAny(R[1].of, c, FALSE)
                  PROVE  Verdict(rules, c) = R[1].out
                <5>1. PICK s : s = q + g + 2 + 1
                    OBVIOUS
                <5>a. m # 0 /\ k = q + g + 3 + m /\ k <= len
                    BY <1>4, <3>1, <3>2, <4>5
                <5>b. 1 \in 1 .. m /\ s \in 1 .. len
                    BY <5>a, <5>1
                <5>2. 1 \in 1 .. m /\ s \in DOMAIN rules
                    BY <1>3, <5>b
                <5>3. rules[s] = R[1]
                    BY <3>2, <5>1, <5>2
                <5>4. \A known : Matches(R[1], c, known)
                    BY <4>5 DEF Matches, HitsAny, Hits
                <5>5. s \in M
                    BY <1>7, <5>2, <5>3, <5>4 DEF Matching
                <5>6. i = s
                    BY <1>11, <4>1, <5>1, <5>5
                <5> QED
                    BY <1>11, <5>3, <5>6
            <4> QED
                BY <1>17, <2>7, <3>6, <4>2, <4>4, <4>5 DEF Decided
        <3> QED
            BY <3>5, <3>6
    <2> QED
        BY <2>2, <2>5, <2>6, <2>7
<1> QED
    BY <1>14, <1>16, <1>17
-----------------------------------------------------------------------------
(* The promises.                                                            *)

\* Each part of the policy stays what its Set* method was given.
LEMMA TypesHold == Spec => []TypeOK
<1>1. ASSUME Init PROVE TypeOK
    <2>1. /\ wl = [dests |-> {}, procs |-> {}, devs |-> {}] /\ bl = {} /\ quar = {}
          /\ sets = [t \in Tag |-> "off"] /\ dl = [dests |-> {}, bypass |-> TRUE]
          /\ cr = <<>> /\ members = {} /\ final = "direct" /\ posture = "strict"
          /\ clientMode = FALSE /\ clashMode = "Rule" /\ base \in Bases
        BY <1>1 DEF Init, Fresh
    <2>2. sets \in [Tag -> Roles] /\ final \in Outbound
        BY <2>1 DEF Roles, Outbound, Builtin
    <2>3. wl.dests \subseteq Dest /\ dl \in [dests : SUBSET Dest, bypass : BOOLEAN]
        BY <2>1
    <2>4. cr \in Seq(CustomRule)
        BY <2>1
    <2> QED
        BY <2>1, <2>2, <2>3, <2>4 DEF TypeOK
<1>2. ASSUME TypeOK, [Next]_vars PROVE TypeOK'
    <2>1. CASE SetWhitelist
        BY <1>2, <2>1, RouteLayersAssumption DEF SetWhitelist, TypeOK
    <2>2. CASE SetBlacklist
        BY <1>2, <2>2, RouteLayersAssumption DEF SetBlacklist, TypeOK
    <2>3. CASE SetQuarantine
        BY <1>2, <2>3, RouteLayersAssumption DEF SetQuarantine, TypeOK
    <2>4. CASE SetDirectList
        BY <1>2, <2>4, RouteLayersAssumption DEF SetDirectList, TypeOK
    <2>5. CASE SetCustomRules
        BY <1>2, <2>5, RouteLayersAssumption DEF SetCustomRules, TypeOK
    <2>6. CASE SetRuleSets
        BY <1>2, <2>6 DEF SetRuleSets, TypeOK
    <2>7. CASE Apply
        BY <1>2, <2>7 DEF Apply, TypeOK
    <2>8. CASE SetFinal
        BY <1>2, <2>8 DEF SetFinal, TypeOK
    <2>9. CASE SetPosture
        BY <1>2, <2>9 DEF SetPosture, TypeOK
    <2>10. CASE SetClientMode
        BY <1>2, <2>10 DEF SetClientMode, TypeOK
    <2>11. CASE SetClashMode
        BY <1>2, <2>11 DEF SetClashMode, TypeOK
    <2>12. CASE ApplyProfile
        <3>1. PICK p \in Profiles :
                /\ wl' = p.wl /\ bl' = p.bl /\ dl' = p.dl /\ cr' = p.cr
                /\ sets' = p.sets /\ members' = p.members
                /\ final' = IF p.final # "" THEN p.final ELSE final
                /\ posture' = p.posture
            BY <2>12 DEF ApplyProfile
        <3>2. /\ p.wl \in Whitelists /\ p.bl \in Denylists /\ p.dl \in DirectLists
              /\ p.cr \in CustomLists /\ p.sets \in [Tag -> Roles] /\ p.members \subseteq Member
              /\ p.final \in Outbound \cup {""} /\ p.posture \in {"strict", "split"}
            BY RouteLayersAssumption
        <3>3. /\ p.wl.dests \subseteq Dest /\ p.bl \subseteq Dest
              /\ p.dl \in [dests : SUBSET Dest, bypass : BOOLEAN] /\ p.cr \in Seq(CustomRule)
            BY <3>2, RouteLayersAssumption
        <3>4. final' \in Outbound
            BY <1>2, <3>1, <3>2 DEF TypeOK
        <3>5. UNCHANGED <<quar, clientMode, clashMode, base>>
            BY <2>12 DEF ApplyProfile
        <3> QED
            BY <1>2, <3>1, <3>2, <3>3, <3>4, <3>5 DEF TypeOK
    <2>13. CASE UNCHANGED vars
        BY <1>2, <2>13 DEF vars, TypeOK
    <2> QED
        BY <1>2, <2>1, <2>2, <2>3, <2>4, <2>5, <2>6, <2>7, <2>8, <2>9, <2>10, <2>11, <2>12, <2>13
           DEF Next
<1>3. Init => TypeOK
    BY <1>1
<1> QED
    BY <1>2, <1>3, PTL DEF Spec

\* Each connection the box sees is decided as the layers promise.
LEMMA MergedDecides == ASSUME TypeOK, NEW c \in Conn PROVE Decided(Merged, Egress, c)
BY MergedLayered, EgressIs, LayersDecide

\* The same for the view.
LEMMA ViewDecides == ASSUME TypeOK, NEW c \in Conn PROVE Decided(EffectiveRules, ViewRoute, c)
BY ViewLayered, ViewRouteIs, LayersDecide

\* What the gate lets through, in terms of the permits.
LEMMA GateAdmits ==
    ASSUME NEW c, clashMode # "Global"
    PROVE  /\ Closed => ~Admitted(c)
           /\ ~Closed => (Admitted(c) <=> splitOpen \/ HitsAny(GatePermits, c, c.byAddr))
<1>1. GatePermits = Permits \cup {Private} /\ (hasUserPermit <=> Permits # {})
    BY DEF GatePermits, Permits, hasUserPermit, PermitSets, WithRole, CustomPermits
<1>2. HitsAny(GatePermits, c, c.byAddr) <=> HitsAny(Permits, c, c.byAddr) \/ Hits(Private, c, c.byAddr)
    BY <1>1 DEF HitsAny
<1>3. HitsAny(Permits, c, c.byAddr) => Permits # {}
    BY DEF HitsAny
<1> QED
    BY <1>1, <1>2, <1>3 DEF Admitted, Closed

\* What is denied is rejected, whatever the lists, the rule sets, the posture,
\* the live mode and the base config are.
THEOREM FloorRejects == Spec => []DeniedIsRejected
<1>1. ASSUME TypeOK PROVE DeniedIsRejected
    <2>1. ASSUME NEW c \in Conn, Denied(c), ~c.mgmt PROVE Verdict(Merged, c) = "reject"
        BY <1>1, <2>1, MergedDecides DEF Decided
    <2> QED
        BY <2>1 DEF DeniedIsRejected
<1> QED
    BY <1>1, TypesHold, PTL

\* Nothing leaves that is denied, or that neither the policy nor a rule the
\* operator wrote into the base config admits.
THEOREM GateHolds == Spec => []NothingUnadmittedLeaves
<1>1. ASSUME TypeOK PROVE NothingUnadmittedLeaves
    <2>1. ASSUME NEW c \in Conn, Verdict(Merged, c) \notin Stopped, ~c.mgmt
          PROVE  ~Denied(c) /\ (Admitted(c) \/ DecidedByBase(c))
        <3>1. Decided(Merged, Egress, c)
            BY <1>1, MergedDecides
        <3>2. clashMode = "Global" => Admitted(c)
            BY DEF Admitted
        <3> QED
            BY <2>1, <3>1, <3>2, GateAdmits DEF Decided, Stopped
    <2> QED
        BY <2>1 DEF NothingUnadmittedLeaves
<1> QED
    BY <1>1, TypesHold, PTL

\* What is admitted is stopped only by a custom block rule, a rule of the base
\* config or Final.
THEOREM StopsOnPurpose == Spec => []AdmittedIsStoppedOnlyOnPurpose
<1>1. ASSUME TypeOK PROVE AdmittedIsStoppedOnlyOnPurpose
    <2>1. ASSUME NEW c \in Conn, Admitted(c), ~Denied(c), Verdict(Merged, c) \in Stopped,
                 ~DecidedByBase(c)
          PROVE  \/ final = "blocked"
                 \/ \E i \in DOMAIN cr : cr[i].egress = "block" /\ Hits(cr[i].at, c, TRUE)
        <3>1. Decided(Merged, Egress, c)
            BY <1>1, MergedDecides
        <3>2. /\ clashMode # "Global" /\ ~Closed
              /\ \/ Verdict(Merged, c) = LastOut
                 \/ \E r \in Elems(Egress) : HitsAny(r.of, c, TRUE) /\ Verdict(Merged, c) = r.out
            BY <2>1, <3>1, GateAdmits DEF Decided, Stopped
        <3>3. CASE Verdict(Merged, c) = LastOut
            <4>1. "blocked" \notin Member /\ "reject" \notin Member /\ members \subseteq Member
                BY <1>1, RouteLayersAssumption DEF Builtin, TypeOK
            <4>2. resolveFinal(final) \in Stopped
                BY <2>1, <3>2, <3>3 DEF LastOut
            <4> QED
                BY <4>1, <4>2 DEF resolveFinal, Stopped, Builtin
        <3>4. ASSUME NEW r \in Elems(Egress), HitsAny(r.of, c, TRUE), Verdict(Merged, c) = r.out
              PROVE  \E i \in DOMAIN cr : cr[i].egress = "block" /\ Hits(cr[i].at, c, TRUE)
            <4>1. EgressRule(r)
                BY <1>1, EgressIs
            <4> QED
                BY <2>1, <3>4, <4>1 DEF EgressRule, HitsAny, Stopped
        <3> QED
            BY <3>2, <3>3, <3>4
    <2> QED
        BY <2>1 DEF AdmittedIsStoppedOnlyOnPurpose
<1> QED
    BY <1>1, TypesHold, PTL

\* A plain no-proxy name, once admitted, goes direct.
THEOREM NoProxyNamesGoDirect == Spec => []NoProxyNameGoesDirect
<1>1. ASSUME TypeOK PROVE NoProxyNameGoesDirect
    <2>1. ASSUME NEW c \in Conn, HitsAny(dl.dests \cap Suffix, c, FALSE), Admitted(c), ~Denied(c),
                 clashMode = "Rule", ~DecidedByBase(c)
          PROVE  Verdict(Merged, c) = "direct"
        <3>1. Decided(Merged, Egress, c)
            BY <1>1, MergedDecides
        <3>2. dl.dests \cap Suffix # {}
            BY <2>1 DEF HitsAny
        <3>3. Len(Egress) # 0 /\ Egress[1] = Rule("any", dl.dests \cap Suffix, "direct")
            BY <1>1, <3>2, EgressIs
        <3>4. /\ Len(Egress) # 0 /\ Egress[1].kind = "any" /\ Egress[1].out = "direct"
              /\ HitsAny(Egress[1].of, c, FALSE)
            <4>1. PICK T : T = dl.dests \cap Suffix
                OBVIOUS
            <4>2. PICK r : r = Egress[1]
                OBVIOUS
            <4>3. r.kind = "any" /\ r.of = T /\ r.out = "direct"
                BY <3>3, <4>1, <4>2 DEF Rule
            <4>4. HitsAny(r.of, c, FALSE)
                BY <2>1, <4>1, <4>3
            <4> QED
                BY <3>3, <4>2, <4>3, <4>4
        <3>5. clashMode # "Global"
            BY <2>1
        <3> QED
            BY <2>1, <3>1, <3>4, <3>5, GateAdmits DEF Decided
    <2> QED
        BY <2>1 DEF NoProxyNameGoesDirect
<1> QED
    BY <1>1, TypesHold, PTL

\* The view gives the answer the box gives, down to the gate.
THEOREM ViewAgrees == Spec => []ViewExplainsTheGate
<1>1. ASSUME TypeOK PROVE ViewExplainsTheGate
    <2>1. ASSUME NEW c \in Conn, ~DecidedByBase(c)
          PROVE  AboveRoute(EffectiveRules, c) = AboveRoute(Merged, c)
        <3>1. Decided(Merged, Egress, c) /\ Decided(EffectiveRules, ViewRoute, c)
            BY <1>1, MergedDecides, ViewDecides
        <3>2. PICK gated : gated <=> Closed \/ (~splitOpen /\ ~HitsAny(GatePermits, c, c.byAddr))
            OBVIOUS
        <3>3. ASSUME NEW rules, NEW R, Decided(rules, R, c)
              PROVE  AboveRoute(rules, c) =
                        IF c.mgmt THEN "direct"
                        ELSE IF Denied(c) THEN "reject"
                        ELSE IF clashMode = "Global" THEN "proxy"
                        ELSE IF gated THEN "blocked" ELSE "route"
            BY <2>1, <3>2, <3>3 DEF Decided
        <3> QED
            BY <3>1, <3>3
    <2> QED
        BY <2>1 DEF ViewExplainsTheGate
<1> QED
    BY <1>1, TypesHold, PTL
-----------------------------------------------------------------------------
(***************************************************************************)
(* The DNS block (Resolvers).  Up to injectDirectDNS the config is Plain    *)
(* and Resolving; from there on it is Followed, and after healBootstrapDNS  *)
(* it Reaches, which the repair of the groups leaves as it is.              *)
(***************************************************************************)
(* The outbounds, which are made of parts of lists.                         *)

Rank(S, i) == Cardinality({j \in S : j <= i})

\* Where the positions in a set come in their order.
LEMMA Ranks ==
    ASSUME NEW n \in Nat, NEW S, S \subseteq 1 .. n
    PROVE  /\ IsFiniteSet(S) /\ Cardinality(S) \in Nat
           /\ \A i \in S : Rank(S, i) \in 1 .. Cardinality(S)
           /\ \A i, j \in S : i < j => Rank(S, i) < Rank(S, j)
           /\ \A k \in 1 .. Cardinality(S) : \E i \in S : Rank(S, i) = k
<1> DEFINE Up(i) == {j \in S : j <= i}
           c == Cardinality(S)
<1>1. IsFiniteSet(S) /\ c \in Nat
    <2>1. IsFiniteSet(1 .. n)
        BY FS_Interval
    <2>2. S \in SUBSET (1 .. n)
        OBVIOUS
    <2> QED
        BY <2>1, <2>2, FS_Subset, FS_CardinalityType
<1>2. ASSUME NEW i \in S
      PROVE  IsFiniteSet(Up(i)) /\ Cardinality(Up(i)) \in Nat /\ Cardinality(Up(i)) <= c
    <2>1. Up(i) \in SUBSET S
        OBVIOUS
    <2> QED
        BY <1>1, <2>1, FS_Subset, FS_CardinalityType
<1>3. ASSUME NEW i \in S PROVE Rank(S, i) \in 1 .. c
    <2>1. Up(i) # {}
        <3>1. i <= i
            OBVIOUS
        <3> QED
            BY <3>1
    <2>2. Cardinality(Up(i)) # 0
        BY <1>2, <2>1, FS_EmptySet
    <2> QED
        BY <1>1, <1>2, <2>2 DEF Rank
<1>4. ASSUME NEW i \in S, NEW j \in S, i < j PROVE Rank(S, i) < Rank(S, j)
    <2>1. Up(i) \in SUBSET Up(j) /\ j \in Up(j) /\ j \notin Up(i)
        <3>1. i \in Nat /\ j \in Nat /\ i < j /\ \A x \in S : x \in Nat
            BY <1>4
        <3>2. j <= j /\ ~(j <= i) /\ \A x \in S : x <= i => x <= j
            BY <3>1
        <3> QED
            BY <3>2
    <2>2. Cardinality(Up(i)) <= Cardinality(Up(j)) /\ Cardinality(Up(i)) # Cardinality(Up(j))
        BY <1>2, <2>1, FS_Subset
    <2> QED
        BY <1>2, <2>2 DEF Rank
<1>5. ASSUME NEW k \in 1 .. c PROVE \E i \in S : Rank(S, i) = k
    <2>1. PICK f : f = [i \in S |-> Rank(S, i)]
        OBVIOUS
    <2>2. IsFiniteSet(1 .. c) /\ Cardinality(1 .. c) = c
        <3>1. /\ IsFiniteSet(1 .. c)
              /\ Cardinality(1 .. c) = IF 1 > c THEN 0 ELSE c - 1 + 1
            BY <1>1, FS_Interval
        <3> QED
            BY <1>1, <3>1
    <2>3. f \in [S -> 1 .. c]
        BY <1>3, <2>1
    <2>4. \A i, j \in S : f[i] = f[j] => i = j
        <3>1. \A i, j \in S : i < j => f[i] < f[j]
            BY <1>4, <2>1
        <3>2. \A i \in S : f[i] \in Nat /\ i \in Nat
            BY <1>1, <2>3
        <3> QED
            BY <3>1, <3>2
    <2>5. f \in Injection(S, 1 .. c)
        BY <2>3, <2>4 DEF Injection, IsInjective
    <2>6. f \in Surjection(S, 1 .. c)
        BY <2>2, <2>5, FS_Injection
    <2>7. PICK i \in S : f[i] = k
        BY <2>6 DEF Surjection
    <2> QED
        BY <2>1, <2>7
<1> QED
    BY <1>1, <1>3, <1>4, <1>5

\* The entries of s at the positions in S, in their order.
LEMMA OnlyIs ==
    ASSUME NEW s, IsSeq(s), NEW S, S \subseteq DOMAIN s
    PROVE  /\ IsSeq(Only(s, S)) /\ Len(Only(s, S)) = Cardinality(S)
           /\ \A i \in S : Rank(S, i) \in 1 .. Cardinality(S) /\ Only(s, S)[Rank(S, i)] = s[i]
           /\ \A k \in 1 .. Cardinality(S) : \E i \in S : Rank(S, i) = k /\ Only(s, S)[k] = s[i]
           /\ \A i, j \in S : i < j => Rank(S, i) < Rank(S, j)
<1>1. Len(s) \in Nat /\ DOMAIN s = 1 .. Len(s)
    BY Positions
<1>2. /\ Cardinality(S) \in Nat
      /\ \A i \in S : Rank(S, i) \in 1 .. Cardinality(S)
      /\ \A i, j \in S : i < j => Rank(S, i) < Rank(S, j)
      /\ \A k \in 1 .. Cardinality(S) : \E i \in S : Rank(S, i) = k
    BY <1>1, Ranks
<1>3. \A i, j \in S : Rank(S, i) = Rank(S, j) => i = j
    <2>1. S \subseteq Nat
        BY <1>1
    <2> QED
        BY <1>2, <2>1
<1>4. PICK r : r = Only(s, S)
    OBVIOUS
<1>5. r = [k \in 1 .. Cardinality(S) |-> s[CHOOSE i \in S : Rank(S, i) = k]]
    BY <1>4 DEF Only, Rank
<1>6. ASSUME NEW i \in S PROVE Rank(S, i) \in 1 .. Cardinality(S) /\ r[Rank(S, i)] = s[i]
    <2>1. PICK k \in 1 .. Cardinality(S) : k = Rank(S, i)
        BY <1>2
    <2>2. (CHOOSE j \in S : Rank(S, j) = k) = i
        BY <1>3, <2>1
    <2> QED
        BY <1>5, <2>1, <2>2
<1>7. ASSUME NEW k \in 1 .. Cardinality(S) PROVE \E i \in S : Rank(S, i) = k /\ r[k] = s[i]
    <2>1. PICK i \in S : Rank(S, i) = k
        BY <1>2
    <2> QED
        BY <1>6, <2>1
<1>8. IsSeq(r) /\ Len(r) = Cardinality(S)
    <2>1. r \in [1 .. Cardinality(S) -> {s[i] : i \in S}]
        BY <1>5, <1>7
    <2>2. r \in Seq({s[i] : i \in S}) /\ Len(r) = Cardinality(S)
        BY <1>2, <2>1
    <2> QED
        BY <2>2 DEF IsSeq
<1> QED
    BY <1>2, <1>4, <1>6, <1>7, <1>8

\* f gives the first n names their tags, one after another.
Gives(f, used, names, n) ==
    f = [k \in 0 .. n |->
            IF k = 0 THEN <<>>
            ELSE Append(f[k - 1], FirstFree(used \cup Elements(f[k - 1]), names[k]))]

\* There is such a function.
LEMMA GivesExists ==
    ASSUME NEW used, NEW names, NEW N \in Nat
    PROVE  \E f : Gives(f, used, names, N)
<1> DEFINE T == {n \in Nat : ~\E f : Gives(f, used, names, n)}
<1>1. ASSUME T # {} PROVE FALSE
    <2>1. PICK m \in Nat : m \in T /\ \A j \in T : m <= j
        BY <1>1, LeastIs
    <2>2. m # 0
        <3>1. PICK f : f = [k \in 0 .. 0 |-> <<>>]
            OBVIOUS
        <3>2. Gives(f, used, names, 0)
            BY <3>1 DEF Gives
        <3> QED
            BY <2>1, <3>2
    <2>3. PICK n \in Nat : m = n + 1
        <3>1. m - 1 \in Nat /\ m = (m - 1) + 1
            BY <2>2
        <3> QED
            BY <3>1
    <2>4. n \notin T
        BY <2>1, <2>3
    <2>5. PICK f : Gives(f, used, names, n)
        BY <2>4
    <2>6. PICK last : last = Append(f[n], FirstFree(used \cup Elements(f[n]), names[m]))
        OBVIOUS
    <2>7. PICK g : g = [k \in 0 .. m |-> IF k = m THEN last ELSE f[k]]
        OBVIOUS
    <2>8. \A k \in 0 .. m : g[k] = IF k = m THEN last ELSE f[k]
        BY <2>7
    <2>9. ASSUME NEW k \in 0 .. m
          PROVE  g[k] = IF k = 0 THEN <<>>
                        ELSE Append(g[k - 1], FirstFree(used \cup Elements(g[k - 1]), names[k]))
        <3>1. CASE k = m
            <4>1. g[k] = last /\ k # 0 /\ k - 1 = n /\ g[n] = f[n]
                BY <2>2, <2>3, <2>8, <3>1
            <4> QED
                BY <2>6, <3>1, <4>1
        <3>2. CASE k # m /\ k # 0
            <4>1. k \in 0 .. n /\ k - 1 \in 0 .. n /\ k - 1 \in 0 .. m /\ k - 1 # m
                BY <2>3, <3>2
            <4>2. g[k] = f[k] /\ g[k - 1] = f[k - 1]
                BY <2>8, <3>2, <4>1
            <4>3. f[k] = Append(f[k - 1], FirstFree(used \cup Elements(f[k - 1]), names[k]))
                BY <2>5, <3>2, <4>1 DEF Gives
            <4> QED
                BY <3>2, <4>2, <4>3
        <3>3. CASE k = 0 /\ k # m
            <4>1. g[k] = f[k] /\ 0 \in 0 .. n
                BY <2>8, <3>3
            <4>2. f[0] = <<>>
                BY <2>5, <4>1 DEF Gives
            <4> QED
                BY <3>3, <4>1, <4>2
        <3> QED
            BY <3>1, <3>2, <3>3
    <2>10. Gives(g, used, names, m)
        BY <2>7, <2>9 DEF Gives
    <2> QED
        BY <2>1, <2>10
<1> QED
    BY <1>1

\* f[n] is the sequence of the first n tags.
Grown(f, used, names, n) ==
    /\ IsSeq(f[n]) /\ Len(f[n]) = n
    /\ \A m \in 1 .. n :
        f[n][m] = FirstFree(used \cup {f[n][i] : i \in 1 .. m - 1}, names[m])

\* The tags d are taken one after another.
Taken(d, names, used) ==
    \A m \in 1 .. Len(names) : d[m] = FirstFree(used \cup {d[i] : i \in 1 .. m - 1}, names[m])

\* What Distinct gives: to each name the first tag that is free by then.
LEMMA DistinctIs ==
    ASSUME NEW used, NEW names, IsSeq(names)
    PROVE  /\ IsSeq(Distinct(used, names)) /\ Len(Distinct(used, names)) = Len(names)
           /\ Taken(Distinct(used, names), names, used)
<1>1. PICK N \in Nat : N = Len(names)
    BY Positions
<1>2. PICK f : Gives(f, used, names, N) /\ Distinct(used, names) = f[N]
    <2>1. \E f : Gives(f, used, names, N)
        BY GivesExists
    <2>2. PICK f : f = CHOOSE g : Gives(g, used, names, N)
        OBVIOUS
    <2>3. Gives(f, used, names, N)
        BY <2>1, <2>2
    <2>4. Distinct(used, names) = f[N]
        BY <1>1, <2>2 DEF Distinct, Gives
    <2> QED
        BY <2>3, <2>4
<1>3. ASSUME {n \in 0 .. N : ~Grown(f, used, names, n)} # {} PROVE FALSE
    <2>1. PICK m \in 0 .. N : ~Grown(f, used, names, m) /\ \A j \in 0 .. N : j < m => Grown(f, used, names, j)
        <3> DEFINE T == {n \in 0 .. N : ~Grown(f, used, names, n)}
        <3>1. T \subseteq Nat /\ T # {}
            BY <1>3
        <3>2. PICK m \in T : \A j \in T : m <= j
            <4> HIDE DEF T
            <4> QED
                BY <3>1, LeastIs
        <3>3. \A j \in 0 .. N : j < m => j \notin T
            BY <3>1, <3>2
        <3> QED
            BY <3>2, <3>3
    <2>2. m # 0
        <3>1. ASSUME m = 0 PROVE FALSE
            <4>1. f[0] = <<>>
                BY <1>2 DEF Gives
            <4>2. IsSeq(<<>>) /\ Len(<<>>) = 0
                BY NoRules
            <4>3. Grown(f, used, names, 0)
                BY <4>1, <4>2 DEF Grown
            <4> QED
                BY <2>1, <3>1, <4>3
        <3> QED
            BY <3>1
    <2>3. PICK n \in Nat : m = n + 1
        <3>1. m - 1 \in Nat /\ m = (m - 1) + 1
            BY <2>2
        <3> QED
            BY <3>1
    <2>4. Grown(f, used, names, n)
        <3>1. n \in 0 .. N /\ n < m
            BY <2>1, <2>3
        <3> QED
            BY <2>1, <3>1
    <2>5. PICK s, e : /\ s = f[n] /\ e = FirstFree(used \cup Elements(s), names[m])
                      /\ f[m] = Append(s, e)
        <3>1. m \in 0 .. N /\ m # 0 /\ m - 1 = n
            BY <2>1, <2>2, <2>3
        <3>2. f[m] = Append(f[m - 1], FirstFree(used \cup Elements(f[m - 1]), names[m]))
            BY <1>2, <3>1 DEF Gives
        <3> QED
            BY <3>1, <3>2
    <2>6. /\ IsSeq(s) /\ Len(s) = n /\ DOMAIN s = 1 .. n
          /\ \A k \in 1 .. n : s[k] = FirstFree(used \cup {s[i] : i \in 1 .. k - 1}, names[k])
        BY <2>4, <2>5, Positions DEF Grown
    <2>7. /\ IsSeq(Append(s, e)) /\ Len(Append(s, e)) = n + 1
          /\ \A k \in 1 .. n : Append(s, e)[k] = s[k]
          /\ Append(s, e)[n + 1] = e
        <3>1. PICK S : s \in Seq(S)
            BY <2>6 DEF IsSeq
        <3>2. s \in Seq(S \cup {e})
            BY <3>1
        <3>3. Append(s, e) \in Seq(S \cup {e})
            BY <3>2
        <3> QED
            BY <2>6, <3>2, <3>3 DEF IsSeq
    <2>8. ASSUME NEW k \in 1 .. m
          PROVE  f[m][k] = FirstFree(used \cup {f[m][i] : i \in 1 .. k - 1}, names[k])
        <3>1. {f[m][i] : i \in 1 .. k - 1} = {s[i] : i \in 1 .. k - 1}
            <4>1. \A i \in 1 .. k - 1 : i \in 1 .. n
                BY <2>3
            <4>2. \A i \in 1 .. k - 1 : f[m][i] = s[i]
                BY <2>5, <2>7, <4>1
            <4> QED
                BY <4>2
        <3>2. CASE k = m
            <4>1. Elements(s) = {s[i] : i \in 1 .. k - 1}
                BY <2>3, <2>6, <3>2 DEF Elements
            <4> QED
                BY <2>3, <2>5, <2>7, <3>1, <3>2, <4>1
        <3>3. CASE k # m
            <4>1. k \in 1 .. n
                BY <2>3, <3>3
            <4> QED
                BY <2>5, <2>6, <2>7, <3>1, <4>1
        <3> QED
            BY <3>2, <3>3
    <2> QED
        <3>1. IsSeq(f[m]) /\ Len(f[m]) = m
            BY <2>3, <2>5, <2>7
        <3>2. Grown(f, used, names, m)
            BY <2>8, <3>1 DEF Grown
        <3> QED
            BY <2>1, <3>2
<1>4. Grown(f, used, names, N)
    <2>1. N \in 0 .. N
        OBVIOUS
    <2> QED
        BY <1>3, <2>1
<1>5. Taken(f[N], names, used)
    BY <1>1, <1>4 DEF Grown, Taken
<1> QED
    BY <1>1, <1>2, <1>4, <1>5 DEF Grown

\* A function on the first numbers is a sequence.
LEMMA Listing ==
    ASSUME NEW n \in Nat, NEW f, f = [i \in 1 .. n |-> f[i]]
    PROVE  IsSeq(f) /\ Len(f) = n
<1>1. f \in [1 .. n -> {f[i] : i \in 1 .. n}]
    OBVIOUS
<1>2. f \in Seq({f[i] : i \in 1 .. n}) /\ Len(f) = n
    BY <1>1
<1> QED
    BY <1>2 DEF IsSeq

\* Groups whose members are in an order.
Formed(s) == IsSeq(s) /\ \A g \in Elems(s) : IsSeq(g.members)

LEMMA FormedTogether ==
    ASSUME NEW s, NEW t, Formed(s), Formed(t)
    PROVE  Formed(s \o t)
BY ElemsJoined DEF Formed

\* No group, or one.
LEMMA FormedNone == Formed(<<>>)
BY NoRules DEF Formed

LEMMA FormedIf ==
    ASSUME NEW condition, NEW type, NEW name, NEW inside, IsSeq(inside)
    PROVE  Formed(If(condition, Group(type, name, inside)))
<1>1. PICK g : g = Group(type, name, inside)
    OBVIOUS
<1>2. g.members = inside
    BY <1>1 DEF Group
<1>3. Formed(<<g>>)
    <2>1. IsSeq(<<g>>) /\ Elems(<<g>>) = {g}
        BY Single, ElemsSingle
    <2> QED
        BY <1>2, <2>1 DEF Formed
<1> QED
    BY <1>1, <1>3, FormedNone DEF If

\* What is kept of a sequence is one.
LEMMA OnlySeq ==
    ASSUME NEW s, IsSeq(s), NEW S, S \subseteq DOMAIN s
    PROVE  IsSeq(Only(s, S))
BY OnlyIs

\* The groups of the operator that can be read.
Readable(g) ==
    /\ g.filter \in {"country", "regex", "manual"}
    /\ g.filter = "manual" => IsSeq(g.value)

LEMMA UserMembers ==
    ASSUME NEW g, Readable(g), NEW tags, IsSeq(tags)
    PROVE  IsSeq(groupMembers(g, tags))
<1>1. CASE g.filter = "country"
    <2>1. PICK S : S = {i \in DOMAIN tags : CountryOf[tags[i]] = g.value}
        OBVIOUS
    <2>2. groupMembers(g, tags) = Only(tags, S) /\ S \subseteq DOMAIN tags
        BY <1>1, <2>1 DEF groupMembers
    <2> QED
        BY <2>2, OnlySeq
<1>2. CASE g.filter = "regex"
    <2>1. PICK S : S = {i \in DOMAIN tags : tags[i] \in g.value}
        OBVIOUS
    <2>2. groupMembers(g, tags) = Only(tags, S) /\ S \subseteq DOMAIN tags
        BY <1>2, <2>1 DEF groupMembers
    <2> QED
        BY <2>2, OnlySeq
<1>3. CASE g.filter = "manual"
    <2>1. PICK S : S = {i \in DOMAIN g.value : g.value[i] \in Elements(tags)}
        OBVIOUS
    <2>2. groupMembers(g, tags) = Only(g.value, S) /\ S \subseteq DOMAIN g.value
        BY <1>3, <2>1 DEF groupMembers
    <2> QED
        BY <1>3, <2>2, OnlySeq DEF Readable
<1> QED
    BY <1>1, <1>2, <1>3 DEF Readable

LEMMA UserFormed ==
    ASSUME NEW pg, IsSeq(pg.groups), \A i \in DOMAIN pg.groups : Readable(pg.groups[i]),
           NEW tags, IsSeq(tags)
    PROVE  Formed(UserGroups(pg, tags))
<1>1. PICK n \in Nat : n = Len(pg.groups) /\ DOMAIN pg.groups = 1 .. n
    BY Positions
<1>2. PICK made : made = [i \in DOMAIN pg.groups |->
                    Group(Strategy(pg.groups[i]), pg.groups[i].name,
                          groupMembers(pg.groups[i], tags))]
    OBVIOUS
<1>3. IsSeq(made) /\ Len(made) = n /\ DOMAIN made = 1 .. n
    <2>1. made = [i \in 1 .. n |-> made[i]]
        BY <1>1, <1>2
    <2> QED
        BY <1>1, <1>2, <2>1, Listing
<1>4. \A i \in 1 .. n : IsSeq(made[i].members)
    <2>1. ASSUME NEW i \in 1 .. n PROVE IsSeq(made[i].members)
        <3>1. made[i].members = groupMembers(pg.groups[i], tags)
            BY <1>1, <1>2 DEF Group
        <3> QED
            BY <1>1, <3>1, UserMembers
    <2> QED
        BY <2>1
<1>5. PICK S : S = {i \in DOMAIN made : made[i].members # <<>>}
    OBVIOUS
<1>6. PICK r : r = Only(made, S)
    OBVIOUS
<1>7. UserGroups(pg, tags) = r
    BY <1>2, <1>5, <1>6 DEF UserGroups
<1>8. /\ IsSeq(r) /\ Len(r) = Cardinality(S)
      /\ \A k \in 1 .. Cardinality(S) : \E i \in S : r[k] = made[i]
    <2>1. IsSeq(made) /\ S \subseteq DOMAIN made
        BY <1>3, <1>5
    <2>2. /\ IsSeq(Only(made, S)) /\ Len(Only(made, S)) = Cardinality(S)
          /\ \A k \in 1 .. Cardinality(S) : \E i \in S : Rank(S, i) = k /\ Only(made, S)[k] = made[i]
        BY <2>1, OnlyIs
    <2> QED
        BY <1>6, <2>2
<1> QED
    BY <1>3, <1>4, <1>5, <1>7, <1>8 DEF Formed, Elems

\* The groups over countries.
LEMMA CountriesFormed ==
    ASSUME NEW remote, IsSeq(remote)
    PROVE  Formed(Countries(remote))
<1>1. PICK n \in Nat : n = Len(remote) /\ DOMAIN remote = 1 .. n
    BY Positions
<1>2. PICK labels : labels = [i \in DOMAIN remote |-> Label(remote[i])]
    OBVIOUS
<1>3. IsSeq(labels)
    <2>1. labels = [i \in 1 .. n |-> labels[i]]
        BY <1>1, <1>2
    <2> QED
        BY <1>1, <2>1, Listing
<1>4. PICK order : order = Only(labels, {i \in DOMAIN labels :
                                  \A j \in 1 .. i - 1 : labels[j] # labels[i]})
    OBVIOUS
<1>5. IsSeq(order)
    <2>1. PICK S : S = {i \in DOMAIN labels : \A j \in 1 .. i - 1 : labels[j] # labels[i]}
        OBVIOUS
    <2>2. S \subseteq DOMAIN labels
        BY <2>1
    <2> QED
        BY <1>3, <1>4, <2>1, <2>2, OnlySeq
<1>6. PICK made : made = [i \in DOMAIN order |->
                Group("urltest", CountryName[order[i]],
                      Only(remote, {j \in DOMAIN remote : labels[j] = order[i]}))]
    OBVIOUS
<1>7. PICK m \in Nat : m = Len(order) /\ DOMAIN order = 1 .. m
    BY <1>5, Positions
<1>8. IsSeq(made) /\ Len(made) = m
    <2>1. made = [i \in 1 .. m |-> made[i]]
        BY <1>6, <1>7
    <2> QED
        BY <1>7, <2>1, Listing
<1>9. ASSUME NEW i \in 1 .. m PROVE IsSeq(made[i].members)
    <2>1. PICK S : S = {j \in DOMAIN remote : labels[j] = order[i]}
        OBVIOUS
    <2>2. S \subseteq DOMAIN remote
        BY <2>1
    <2>3. made[i].members = Only(remote, S)
        BY <1>6, <1>7, <2>1 DEF Group
    <2> QED
        BY <2>2, <2>3, OnlySeq
<1>10. Formed(made)
    BY <1>8, <1>9 DEF Formed, Elems
<1>11. Countries(remote) = IF Elements(order) \subseteq {"Other"} THEN <<>> ELSE made
    BY <1>2, <1>4, <1>6 DEF Countries
<1> QED
    BY <1>10, <1>11, FormedNone

LEMMA OverseasFormed ==
    ASSUME NEW remote, IsSeq(remote), NEW excluded
    PROVE  Formed(Overseas(remote, excluded))
<1>1. PICK known : known = {i \in DOMAIN remote : CountryOf[remote[i]] # ""}
    OBVIOUS
<1>2. PICK allowed : allowed = {i \in known : CountryOf[remote[i]] \notin excluded}
    OBVIOUS
<1>3. allowed \subseteq DOMAIN remote
    BY <1>1, <1>2
<1>4. PICK inside : inside = Only(remote, allowed) /\ IsSeq(inside)
    BY <1>3, OnlySeq
<1>5. Overseas(remote, excluded)
        = If(allowed \notin {{}, known}, Group("urltest", "Overseas", inside))
    BY <1>1, <1>2, <1>4 DEF Overseas
<1>6. PICK condition : condition <=> allowed \notin {{}, known}
    OBVIOUS
<1>7. Formed(If(allowed \notin {{}, known}, Group("urltest", "Overseas", inside)))
    BY <1>4, FormedIf
<1> QED
    BY <1>5, <1>7

\* The settings of the groups can be read.
Settled(pg) == IsSeq(pg.groups) /\ \A i \in DOMAIN pg.groups : Readable(pg.groups[i])

\* An outbound as the injectors write it.
Written(o) ==
    /\ o = Out(o.tag, o.type, o.members, o.host)
    /\ IsSeq(o.members)

LEMMA WrittenOut ==
    ASSUME NEW tag, NEW type, NEW inside, NEW host, IsSeq(inside)
    PROVE  Written(Out(tag, type, inside, host))
<1>1. PICK o : o = Out(tag, type, inside, host)
    OBVIOUS
<1>2. /\ o.tag = tag /\ o.type = type /\ o.members = inside
      /\ o.host = host
    BY <1>1 DEF Out
<1>3. o = Out(o.tag, o.type, o.members, o.host) /\ IsSeq(o.members)
    BY <1>1, <1>2
<1> QED
    BY <1>1, <1>3 DEF Written

\* Outbounds in an order, of which one is the selector of the proxies.
Outs(s) == IsSeq(s) /\ \A o \in Elems(s) : Written(o)

LEMMA OutsTogether ==
    ASSUME NEW s, NEW t, Outs(s), Outs(t)
    PROVE  Outs(s \o t) /\ Elems(s \o t) = Elems(s) \cup Elems(t)
BY ElemsJoined DEF Outs

LEMMA OutsSingle ==
    ASSUME NEW o, Written(o)
    PROVE  Outs(<<o>>) /\ Elems(<<o>>) = {o}
BY Single, ElemsSingle DEF Outs

\* A sequence and one more.
LEMMA ElemsAppended ==
    ASSUME NEW s, IsSeq(s), NEW e
    PROVE  IsSeq(Append(s, e)) /\ Elems(Append(s, e)) = Elems(s) \cup {e}
<1>1. PICK n \in Nat : n = Len(s)
    BY Positions
<1>2. PICK x : x = Append(s, e)
    OBVIOUS
<1>3. /\ IsSeq(x) /\ Len(x) = n + 1 /\ x[n + 1] = e
      /\ \A i \in 1 .. n : x[i] = s[i]
    BY <1>1, <1>2, Appended
<1>4. \A i \in 1 .. n + 1 : i \in 1 .. n \/ i = n + 1
    OBVIOUS
<1>5. n + 1 \in 1 .. n + 1 /\ \A i \in 1 .. n : i \in 1 .. n + 1
    OBVIOUS
<1>6. Elems(x) \subseteq Elems(s) \cup {e}
    BY <1>1, <1>3, <1>4 DEF Elems
<1>7. Elems(s) \cup {e} \subseteq Elems(x)
    BY <1>1, <1>3, <1>5 DEF Elems
<1> QED
    BY <1>2, <1>3, <1>6, <1>7

LEMMA WantedFormed ==
    ASSUME NEW tags, IsSeq(tags), NEW loopback, NEW pg, Settled(pg)
    PROVE  Formed(Wanted(tags, loopback, pg))
<1>1. PICK remote : remote = Only(tags, {i \in DOMAIN tags : tags[i] \notin loopback})
    OBVIOUS
<1>2. PICK local : local = Only(tags, {i \in DOMAIN tags : tags[i] \in loopback})
    OBVIOUS
<1>3. IsSeq(remote)
    <2>1. PICK S : S = {i \in DOMAIN tags : tags[i] \notin loopback}
        OBVIOUS
    <2>2. S \subseteq DOMAIN tags
        BY <2>1
    <2> QED
        BY <1>1, <2>1, <2>2, OnlySeq
<1>4. IsSeq(local)
    <2>1. PICK S : S = {i \in DOMAIN tags : tags[i] \in loopback}
        OBVIOUS
    <2>2. S \subseteq DOMAIN tags
        BY <2>1
    <2> QED
        BY <1>2, <2>1, <2>2, OnlySeq
<1>5. PICK a : a = <<Group("urltest", "Auto", AutoMembers(remote, tags))>>
    OBVIOUS
<1>6. Formed(a)
    <2>1. PICK inside : inside = AutoMembers(remote, tags)
        OBVIOUS
    <2>2. IsSeq(inside)
        BY <1>3, <2>1 DEF AutoMembers
    <2>3. PICK b : b = If(TRUE, Group("urltest", "Auto", inside))
        OBVIOUS
    <2>4. a = b
        BY <1>5, <2>1, <2>3 DEF If
    <2> QED
        BY <2>2, <2>3, <2>4, FormedIf
<1>7. PICK b : b = If(local # <<>> /\ remote # <<>>, Group("selector", "Local", local))
    OBVIOUS
<1>8. Formed(b)
    BY <1>4, <1>7, FormedIf
<1>9. PICK c : c = IF pg.exclude = {} THEN <<>> ELSE Overseas(remote, pg.exclude)
    OBVIOUS
<1>10. Formed(c)
    BY <1>3, <1>9, OverseasFormed, FormedNone
<1>11. PICK d : d = IF pg.autoCountry THEN Countries(remote) ELSE <<>>
    OBVIOUS
<1>12. Formed(d)
    BY <1>3, <1>11, CountriesFormed, FormedNone
<1>13. PICK e : e = UserGroups(pg, tags)
    OBVIOUS
<1>14. Formed(e)
    BY <1>13, UserFormed DEF Settled
<1>15. Wanted(tags, loopback, pg) = (((a \o b) \o c) \o d) \o e
    BY <1>1, <1>2, <1>5, <1>7, <1>9, <1>11, <1>13 DEF Wanted
<1>16. Formed(a \o b)
    BY <1>6, <1>8, FormedTogether
<1>17. Formed((a \o b) \o c)
    BY <1>10, <1>16, FormedTogether
<1>18. Formed(((a \o b) \o c) \o d)
    BY <1>12, <1>17, FormedTogether
<1> QED
    BY <1>14, <1>15, <1>18, FormedTogether

\* Some outbound is the selector of the proxies.
HasProxy(s) == \E o \in Elems(s) : o.tag = "proxy"

LEMMA GroupsMade ==
    ASSUME NEW tags, IsSeq(tags), NEW loopback, NEW pg, Settled(pg)
    PROVE  /\ Outs(buildProxyGroups(tags, loopback, pg))
           /\ HasProxy(buildProxyGroups(tags, loopback, pg))
<1>1. PICK wanted : wanted = Wanted(tags, loopback, pg)
    OBVIOUS
<1>2. IsSeq(wanted) /\ \A g \in Elems(wanted) : IsSeq(g.members)
    BY <1>1, WantedFormed DEF Formed
<1>3. PICK n \in Nat : n = Len(wanted) /\ DOMAIN wanted = 1 .. n
    BY <1>2, Positions
<1>4. PICK called : called = [i \in DOMAIN wanted |-> wanted[i].name]
    OBVIOUS
<1>5. IsSeq(called)
    <2>1. called = [i \in 1 .. n |-> called[i]]
        BY <1>3, <1>4
    <2> QED
        BY <2>1, Listing
<1>6. PICK names : names = Distinct(Elements(tags) \cup {"direct", "blocked", "proxy"}, called)
    OBVIOUS
<1>7. IsSeq(names)
    BY <1>5, <1>6, DistinctIs
<1>8. PICK made : made = [i \in DOMAIN wanted |->
                             Out(names[i], wanted[i].type, wanted[i].members, "")]
    OBVIOUS
<1>9. Outs(made)
    <2>1. made = [i \in 1 .. n |-> made[i]]
        BY <1>3, <1>8
    <2>2. IsSeq(made) /\ Len(made) = n
        BY <2>1, Listing
    <2>3. ASSUME NEW i \in 1 .. n PROVE Written(made[i])
        <3>1. IsSeq(wanted[i].members)
            BY <1>2, <1>3 DEF Elems
        <3>2. made[i] = Out(names[i], wanted[i].type, wanted[i].members, "")
            BY <1>3, <1>8
        <3> QED
            BY <3>1, <3>2, WrittenOut
    <2> QED
        BY <2>2, <2>3 DEF Outs, Elems
<1>10. PICK last : last = Out("proxy", "selector", names, "")
    OBVIOUS
<1>11. Written(last) /\ last.tag = "proxy"
    <2>1. Written(last)
        BY <1>7, <1>10, WrittenOut
    <2> QED
        BY <1>10, <2>1 DEF Out
<1>12. Outs(Append(made, last)) /\ HasProxy(Append(made, last))
    <2>1. IsSeq(Append(made, last)) /\ Elems(Append(made, last)) = Elems(made) \cup {last}
        BY <1>9, ElemsAppended DEF Outs
    <2> QED
        BY <1>9, <1>11, <2>1 DEF Outs, HasProxy
<1>13. PICK bare : bare = Out("proxy", "selector", <<"direct">>, "")
    OBVIOUS
<1>14. Outs(<<bare>>) /\ HasProxy(<<bare>>)
    <2>1. Written(bare) /\ bare.tag = "proxy"
        <3>1. IsSeq(<<"direct">>)
            BY Single
        <3>2. Written(bare)
            BY <1>13, <3>1, WrittenOut
        <3> QED
            BY <1>13, <3>2 DEF Out
    <2> QED
        BY <2>1, OutsSingle DEF HasProxy
<1>15. buildProxyGroups(tags, loopback, pg) = IF tags = <<>> THEN <<bare>> ELSE Append(made, last)
    BY <1>1, <1>4, <1>6, <1>8, <1>10, <1>13 DEF buildProxyGroups
<1> QED
    BY <1>12, <1>14, <1>15

\* The usable nodes and their tags.
LEMMA NodesUsable ==
    ASSUME NEW list, IsSeq(list)
    PROVE  IsSeq(Usable(list)) /\ IsSeq(memberTags(list))
<1>1. IsSeq(Usable(list))
    <2>1. PICK S : S = {i \in DOMAIN list : list[i].usable}
        OBVIOUS
    <2>2. S \subseteq DOMAIN list
        BY <2>1
    <2> QED
        BY <2>1, <2>2, OnlySeq DEF Usable
<1>2. PICK usable : usable = Usable(list)
    OBVIOUS
<1>3. PICK n \in Nat : n = Len(usable) /\ DOMAIN usable = 1 .. n
    BY <1>1, <1>2, Positions
<1>4. PICK called : called = [i \in DOMAIN usable |-> usable[i].tag]
    OBVIOUS
<1>5. IsSeq(called)
    <2>1. called = [i \in 1 .. n |-> called[i]]
        BY <1>3, <1>4
    <2> QED
        BY <2>1, Listing
<1>6. memberTags(list) = Distinct({}, called)
    BY <1>2, <1>4 DEF memberTags
<1> QED
    BY <1>1, <1>5, <1>6, DistinctIs

LEMMA NodesEligible ==
    ASSUME NEW list, IsSeq(list), NEW off
    PROVE  IsSeq(FilterEligibleNodes(list, off))
<1>1. PICK usable : usable = Usable(list) /\ IsSeq(usable)
    BY NodesUsable
<1>2. PICK S : S = {i \in DOMAIN usable : ~usable[i].junk /\ memberTags(list)[i] \notin off}
    OBVIOUS
<1>3. S \subseteq DOMAIN usable
    BY <1>2
<1>4. FilterEligibleNodes(list, off) = Only(usable, S)
    BY <1>1, <1>2 DEF FilterEligibleNodes
<1> QED
    BY <1>1, <1>3, <1>4, OnlySeq

LEMMA EndpointsMade ==
    ASSUME NEW list, IsSeq(list)
    PROVE  IsSeq(injectEndpoints(list))
<1>1. PICK S : S = {i \in DOMAIN list : list[i].enabled}
    OBVIOUS
<1>2. S \subseteq DOMAIN list
    BY <1>1
<1>3. PICK enabled : enabled = Only(list, S) /\ IsSeq(enabled)
    BY <1>2, OnlySeq
<1>4. PICK n \in Nat : n = Len(enabled) /\ DOMAIN enabled = 1 .. n
    BY <1>3, Positions
<1>5. PICK made : made = [i \in DOMAIN enabled |-> Out(enabled[i].tag, "endpoint", <<>>, enabled[i].host)]
    OBVIOUS
<1>6. made = [i \in 1 .. n |-> made[i]]
    BY <1>4, <1>5
<1>7. injectEndpoints(list) = made
    BY <1>1, <1>3, <1>5 DEF injectEndpoints
<1> QED
    BY <1>6, <1>7, Listing

LEMMA OutsMade ==
    ASSUME NEW list, IsSeq(list), NEW eps, IsSeq(eps), NEW pg, Settled(pg)
    PROVE  Outs(injectOutbounds(list, eps, pg)) /\ HasProxy(injectOutbounds(list, eps, pg))
<1>1. PICK usable : usable = Usable(list) /\ IsSeq(usable)
    BY NodesUsable
<1>2. PICK tags : tags = memberTags(list) /\ IsSeq(tags)
    BY NodesUsable
<1>3. PICK n \in Nat : n = Len(usable) /\ DOMAIN usable = 1 .. n
    BY <1>1, Positions
<1>4. PICK own : own = <<Out("direct", "direct", <<>>, ""), Out("blocked", "block", <<>>, "")>>
    OBVIOUS
<1>5. Outs(own)
    <2>1. PICK d : d = Out("direct", "direct", <<>>, "")
        OBVIOUS
    <2>2. PICK b : b = Out("blocked", "block", <<>>, "")
        OBVIOUS
    <2>a. Written(d)
        BY <2>1, NoRules, WrittenOut
    <2>b. Written(b)
        BY <2>2, NoRules, WrittenOut
    <2>3. own = <<d>> \o <<b>>
        <3>1. own = <<d, b>>
            BY <1>4, <2>1, <2>2
        <3>2. <<d>> \in Seq({d, b}) /\ <<b>> \in Seq({d, b})
            OBVIOUS
        <3> QED
            BY <3>1, <3>2
    <2>4. Outs(<<d>>) /\ Outs(<<b>>)
        BY <2>a, <2>b, OutsSingle
    <2> QED
        BY <2>3, <2>4, OutsTogether
<1>6. PICK made : made = [i \in DOMAIN usable |-> Out(tags[i], "node", <<>>, usable[i].host)]
    OBVIOUS
<1>7. Outs(made)
    <2>1. made = [i \in 1 .. n |-> made[i]]
        BY <1>3, <1>6
    <2>2. IsSeq(made) /\ Len(made) = n
        BY <2>1, Listing
    <2>3. ASSUME NEW i \in 1 .. n PROVE Written(made[i])
        <3>1. made[i] = Out(tags[i], "node", <<>>, usable[i].host)
            BY <1>3, <1>6
        <3>2. IsSeq(<<>>)
            BY NoRules
        <3> QED
            BY <3>1, <3>2, WrittenOut
    <2> QED
        BY <2>2, <2>3 DEF Outs, Elems
<1>8. PICK all : all = tags \o [i \in DOMAIN eps |-> eps[i].tag]
    OBVIOUS
<1>9. IsSeq(all)
    <2>1. PICK m \in Nat : m = Len(eps) /\ DOMAIN eps = 1 .. m
        BY Positions
    <2>2. PICK more : more = [i \in DOMAIN eps |-> eps[i].tag]
        OBVIOUS
    <2>3. more = [i \in 1 .. m |-> more[i]]
        BY <2>1, <2>2
    <2>4. IsSeq(more)
        BY <2>3, Listing
    <2> QED
        BY <1>2, <1>8, <2>2, <2>4, Joined
<1>10. PICK last : last = buildProxyGroups(all, loopbackTags(list), pg)
    OBVIOUS
<1>11. Outs(last) /\ HasProxy(last)
    BY <1>9, <1>10, GroupsMade
<1>12. injectOutbounds(list, eps, pg) = (own \o made) \o last
    BY <1>1, <1>2, <1>4, <1>6, <1>8, <1>10 DEF injectOutbounds
<1>13. Outs(own \o made)
    BY <1>5, <1>7, OutsTogether
<1>14. /\ Outs((own \o made) \o last)
       /\ Elems((own \o made) \o last) = Elems(own \o made) \cup Elems(last)
    BY <1>11, <1>13, OutsTogether
<1> QED
    BY <1>11, <1>12, <1>14 DEF HasProxy

(* The route rules are in an order whatever the tags are.                   *)

LEMMA AfterPreludeSeq ==
    ASSUME NEW rules, IsSeq(rules), NEW new, IsSeq(new)
    PROVE  IsSeq(AfterPrelude(rules, new))
<1>1. preludeLen(rules) \in 0 .. Len(rules)
    BY PreludeIs
<1> QED
    BY <1>1, Inserted DEF AfterPrelude

LEMMA BeforeCatchAllSeq ==
    ASSUME NEW rules, IsSeq(rules), NEW new, IsSeq(new)
    PROVE  IsSeq(BeforeCatchAll(rules, new))
<1>1. catchAllIdx(rules) \in 1 .. Len(rules) + 1 /\ Len(rules) \in Nat
    BY CatchAllIs, Positions
<1>2. catchAllIdx(rules) - 1 \in 0 .. Len(rules)
    BY <1>1
<1> QED
    BY <1>2, Inserted DEF BeforeCatchAll

LEMMA CatchAllSeq ==
    ASSUME NEW rules, IsSeq(rules), NEW e
    PROVE  /\ catchAllIdx(rules) <= Len(rules) =>
                IsSeq([rules EXCEPT ![catchAllIdx(rules)] = e])
           /\ IsSeq(Append(rules, e))
<1>1. catchAllIdx(rules) \in 1 .. Len(rules) + 1 /\ Len(rules) \in Nat
    BY CatchAllIs, Positions
<1>2. ASSUME catchAllIdx(rules) <= Len(rules) PROVE IsSeq(With(rules, catchAllIdx(rules), e))
    <2>1. catchAllIdx(rules) \in 1 .. Len(rules)
        BY <1>1, <1>2
    <2> QED
        BY <2>1, Replaced
<1> QED
    BY <1>2, Appended DEF With

\* The rules of the custom list.
LEMMA CustomSeq ==
    ASSUME IsSeq(cr)
    PROVE  IsSeq(customEgress)
<1>1. PICK n \in Nat : n = Len(cr) /\ DOMAIN cr = 1 .. n
    BY Positions
<1>2. PICK f : f = customEgress
    OBVIOUS
<1>3. f = [i \in 1 .. n |-> f[i]]
    BY <1>1, <1>2 DEF customEgress
<1> QED
    BY <1>2, <1>3, Listing

LEMMA EgressSeq ==
    ASSUME IsSeq(cr)
    PROVE  IsSeq(Egress)
<1>1. PICK a : a = RuleIfAny("any", dl.dests \cap Suffix, "direct") /\ IsSeq(a)
    BY ElemsIfAny
<1>2. PICK b : b = customEgress /\ IsSeq(b)
    BY CustomSeq
<1>3. PICK c : c = RuleIfAny("any", dl.dests \cap Glob, "direct") /\ IsSeq(c)
    BY ElemsIfAny
<1>4. PICK d : d = RuleIfAny("any", DirectRanges, "direct") /\ IsSeq(d)
    BY ElemsIfAny
<1>5. PICK e : e = RuleIfAny("any", ProxySets, "proxy") /\ IsSeq(e)
    BY ElemsIfAny
<1>6. PICK f : f = RuleIfAny("any", DirectSets, "direct") /\ IsSeq(f)
    BY ElemsIfAny
<1>7. Egress = ((((a \o b) \o c) \o d) \o e) \o f
    BY <1>1, <1>2, <1>3, <1>4, <1>5, <1>6 DEF Egress
<1>8. IsSeq(a \o b)
    BY <1>1, <1>2, ElemsJoined
<1>9. IsSeq((a \o b) \o c)
    BY <1>3, <1>8, ElemsJoined
<1>10. IsSeq(((a \o b) \o c) \o d)
    BY <1>4, <1>9, ElemsJoined
<1>11. IsSeq((((a \o b) \o c) \o d) \o e)
    BY <1>5, <1>10, ElemsJoined
<1> QED
    BY <1>6, <1>7, <1>11, ElemsJoined

\* What the box gets.
LEMMA MergedSeq ==
    ASSUME IsSeq(base.rules), IsSeq(cr)
    PROVE  IsSeq(Merged)
<1>1. IsSeq(injectBlacklist(base.rules))
    BY ElemsLists, AfterPreludeSeq DEF injectBlacklist
<1>2. IsSeq(injectQuarantine(injectBlacklist(base.rules)))
    BY <1>1, ElemsLists, AfterPreludeSeq DEF injectQuarantine
<1>3. IsSeq(injectRuleSets(injectQuarantine(injectBlacklist(base.rules))))
    BY <1>2, ElemsIfAny, AfterPreludeSeq DEF injectRuleSets
<1>4. PICK a : a = injectRuleSets(injectQuarantine(injectBlacklist(base.rules))) /\ IsSeq(a)
    BY <1>3
<1>5. IsSeq(Floor(base.rules))
    <2>1. PICK s : s = RuleIfAny("process", wl.procs, "reject") /\ IsSeq(s)
        BY ElemsIfAny
    <2>2. PICK t : t = RuleIfAny("device", wl.devs, "reject") /\ IsSeq(t)
        BY ElemsIfAny
    <2>3. IsSeq(s \o t)
        BY <2>1, <2>2, ElemsJoined
    <2>4. Floor(base.rules) = AfterPrelude(a, s \o t)
        BY <1>4, <2>1, <2>2 DEF Floor, injectProcessDeviceFloor
    <2> QED
        BY <1>4, <2>3, <2>4, AfterPreludeSeq
<1>6. PICK b : b = injectClashModeGlobal(Floor(base.rules)) /\ IsSeq(b)
    BY <1>5, Single, BeforeCatchAllSeq DEF injectClashModeGlobal
<1>7. IsSeq(injectAllow(b))
    <2>1. IsSeq(ensureCatchAll(b, "blocked"))
        BY <1>6, CatchAllSeq DEF ensureCatchAll
    <2>2. PICK new : new = (Gate \o <<ResolveRule>>) \o Egress
        OBVIOUS
    <2>3. IsSeq(new)
        <3>1. IsSeq(Gate \o <<ResolveRule>>)
            BY GateIs, Single, ElemsJoined
        <3> QED
            BY <2>2, <3>1, EgressSeq, ElemsJoined
    <2>4. PICK d : d = BeforeCatchAll(b, new) /\ IsSeq(d)
        BY <1>6, <2>3, BeforeCatchAllSeq
    <2>5. IsSeq(FlipCatchAll(d))
        BY <2>4, CatchAllSeq DEF FlipCatchAll
    <2>6. injectAllow(b) = ensureCatchAll(b, "blocked") \/ injectAllow(b) = FlipCatchAll(d)
        BY <2>2, <2>4 DEF injectAllow, ResolveRule
    <2> QED
        BY <2>1, <2>5, <2>6
<1>8. Merged = AfterPrelude(injectAllow(b), <<ManagementRule>>)
    BY <1>6 DEF Merged, injectManagement, ManagementRule
<1> QED
    BY <1>7, <1>8, Single, AfterPreludeSeq

\* And with the rule that takes the DNS queries.
LEMMA HijackSeq ==
    ASSUME NEW rules, IsSeq(rules)
    PROVE  IsSeq(ensureTunHijack(rules))
<1>1. PICK n \in Nat : n = Len(rules) /\ DOMAIN rules = 1 .. n
    BY Positions
<1>2. PICK sniffs : sniffs = {i \in DOMAIN rules : rules[i].kind = "sniff"}
    OBVIOUS
<1>3. PICK at : at = IF sniffs = {} THEN 0 ELSE Least(sniffs)
    OBVIOUS
<1>4. at \in 0 .. n
    <2>1. sniffs \subseteq 1 .. n /\ sniffs \subseteq Nat
        BY <1>1, <1>2
    <2>2. sniffs # {} => Least(sniffs) \in sniffs
        BY <2>1, LeastIs
    <2> QED
        BY <1>3, <2>1, <2>2
<1>5. IsSeq(Insert(rules, at, <<Hijack>>))
    BY <1>1, <1>4, Single, Inserted
<1>6. ensureTunHijack(rules) = rules \/ ensureTunHijack(rules) = Insert(rules, at, <<Hijack>>)
    BY <1>2, <1>3 DEF ensureTunHijack
<1> QED
    BY <1>5, <1>6

(* What repairing the groups leaves alone.                                  *)

\* An outbound with whatever resolver, its members in an order.
Kept(o) ==
    /\ o = [tag |-> o.tag, type |-> o.type, members |-> o.members, host |-> o.host,
            resolver |-> o.resolver]
    /\ IsSeq(o.members)
Laid(s) == IsSeq(s) /\ \A o \in Elems(s) : Kept(o)

\* The outbounds t dial what those in s dial, and the selector of the proxies
\* still has its members.
Dials == {"direct", "node"}
Spared(s, t) ==
    /\ \A o \in Elems(t) : o.type \in Dials =>
            \E x \in Elems(s) : x.type = o.type /\ x.resolver = o.resolver
    /\ \A x \in Elems(s) : x.tag = "proxy" =>
            \E o \in Elems(t) : o.tag = "proxy" /\ Elements(x.members) \subseteq Elements(o.members)

\* "Local" joins the members.
LEMMA BesideAutoKeeps ==
    ASSUME NEW m, IsSeq(m)
    PROVE  IsSeq(BesideAuto(m)) /\ Elements(m) \subseteq Elements(BesideAuto(m))
<1>1. PICK n \in Nat : n = Len(m) /\ DOMAIN m = 1 .. n
    BY Positions
<1>a. PICK auto : auto = CHOOSE i \in DOMAIN m : m[i] = "Auto"
    OBVIOUS
<1>2. PICK at : at = IF "Auto" \in Elements(m) THEN auto ELSE Len(m)
    OBVIOUS
<1>3. at \in 0 .. n
    <2>1. "Auto" \in Elements(m) => \E i \in DOMAIN m : m[i] = "Auto"
        BY DEF Elements
    <2>2. at \in DOMAIN m \/ at = n
        BY <1>1, <1>a, <1>2, <2>1
    <2> QED
        BY <1>1, <2>2
<1>4. PICK x : x = Insert(m, at, <<"Local">>)
    OBVIOUS
<1>5. BesideAuto(m) = x
    BY <1>a, <1>2, <1>4 DEF BesideAuto, Insert
<1>6. /\ IsSeq(x) /\ Len(x) = n + 1
      /\ \A i \in 1 .. at : x[i] = m[i]
      /\ \A i \in at + 1 .. n : x[i + 1] = m[i]
    <2>1. PICK t : t = <<"Local">> /\ IsSeq(t) /\ Len(t) = 1
        BY Single
    <2>2. /\ IsSeq(Insert(m, at, t)) /\ Len(Insert(m, at, t)) = Len(m) + Len(t)
          /\ \A i \in 1 .. at : Insert(m, at, t)[i] = m[i]
          /\ \A i \in 1 .. Len(t) : Insert(m, at, t)[at + i] = t[i]
          /\ \A i \in at + 1 .. Len(m) : Insert(m, at, t)[i + Len(t)] = m[i]
        <3>1. at \in 0 .. Len(m)
            BY <1>1, <1>3
        <3>2. IsSeq(t)
            BY <2>1
        <3> QED
            BY <3>1, <3>2, Inserted
    <2> QED
        BY <1>1, <1>4, <2>1, <2>2
<1>7. DOMAIN x = 1 .. n + 1
    BY <1>6, Positions
<1>8. ASSUME NEW i \in 1 .. n PROVE m[i] \in Elements(x)
    <2>1. CASE i \in 1 .. at
        <3>1. i \in 1 .. n + 1
            OBVIOUS
        <3> QED
            BY <1>6, <1>7, <2>1, <3>1 DEF Elements
    <2>2. CASE i \in at + 1 .. n
        <3>1. i + 1 \in 1 .. n + 1
            OBVIOUS
        <3> QED
            BY <1>6, <1>7, <2>2, <3>1 DEF Elements
    <2> QED
        BY <1>3, <2>1, <2>2
<1> QED
    BY <1>1, <1>5, <1>6, <1>8 DEF Elements

\* A sequence with others inserted holds both.
LEMMA ElemsInserted ==
    ASSUME NEW s, NEW t, NEW n, IsSeq(s), IsSeq(t), n \in 0 .. Len(s)
    PROVE  IsSeq(Insert(s, n, t)) /\ Elems(Insert(s, n, t)) = Elems(s) \cup Elems(t)
<1>1. PICK k \in Nat, m \in Nat : k = Len(s) /\ m = Len(t)
    BY Positions
<1>2. PICK x : x = Insert(s, n, t)
    OBVIOUS
<1>3. /\ IsSeq(x) /\ Len(x) = k + m
      /\ \A i \in 1 .. n : x[i] = s[i]
      /\ \A i \in 1 .. m : x[n + i] = t[i]
      /\ \A i \in n + 1 .. k : x[i + m] = s[i]
    <2>1. /\ IsSeq(Insert(s, n, t)) /\ Len(Insert(s, n, t)) = Len(s) + Len(t)
          /\ \A i \in 1 .. n : Insert(s, n, t)[i] = s[i]
          /\ \A i \in 1 .. Len(t) : Insert(s, n, t)[n + i] = t[i]
          /\ \A i \in n + 1 .. Len(s) : Insert(s, n, t)[i + Len(t)] = s[i]
        BY Inserted
    <2> QED
        BY <1>1, <1>2, <2>1
<1>4. n \in Nat /\ n <= k
    BY <1>1
<1>5. ASSUME NEW i \in 1 .. k + m PROVE x[i] \in Elems(s) \cup Elems(t)
    <2>1. CASE i \in 1 .. n
        <3>1. i \in 1 .. k
            BY <1>4, <2>1
        <3> QED
            BY <1>1, <1>3, <2>1, <3>1 DEF Elems
    <2>2. CASE i - n \in 1 .. m
        <3>1. n + (i - n) = i
            BY <1>4
        <3>2. x[i] = t[i - n]
            BY <1>3, <2>2, <3>1
        <3> QED
            BY <1>1, <2>2, <3>2 DEF Elems
    <2>3. CASE i - m \in n + 1 .. k
        <3>1. (i - m) + m = i /\ i - m \in 1 .. k
            BY <1>4, <2>3
        <3>2. x[i] = s[i - m]
            BY <1>3, <2>3, <3>1
        <3> QED
            BY <1>1, <3>1, <3>2 DEF Elems
    <2> QED
        BY <1>4, <2>1, <2>2, <2>3
<1>6. ASSUME NEW i \in 1 .. k PROVE s[i] \in Elems(x)
    <2>1. CASE i \in 1 .. n
        <3>1. i \in 1 .. k + m
            OBVIOUS
        <3> QED
            BY <1>3, <2>1, <3>1 DEF Elems
    <2>2. CASE i \in n + 1 .. k
        <3>1. i + m \in 1 .. k + m
            OBVIOUS
        <3> QED
            BY <1>3, <2>2, <3>1 DEF Elems
    <2> QED
        BY <1>4, <2>1, <2>2
<1>7. ASSUME NEW i \in 1 .. m PROVE t[i] \in Elems(x)
    <2>1. n + i \in 1 .. k + m
        BY <1>4
    <2> QED
        BY <1>3, <2>1 DEF Elems
<1>8. Elems(x) \subseteq Elems(s) \cup Elems(t)
    BY <1>3, <1>5 DEF Elems
<1>9. Elems(s) \subseteq Elems(x) /\ Elems(t) \subseteq Elems(x)
    BY <1>1, <1>6, <1>7 DEF Elems
<1> QED
    BY <1>2, <1>3, <1>8, <1>9

\* An outbound without the nodes on this machine.
LEMMA StrippedKeeps ==
    ASSUME NEW o, Kept(o), NEW loopback
    PROVE  LET x == [o EXCEPT !.members = Stripped(o, loopback)] IN
           /\ Kept(x) /\ x.tag = o.tag /\ x.type = o.type /\ x.resolver = o.resolver
<1>1. PICK m : m = Stripped(o, loopback)
    OBVIOUS
<1>2. IsSeq(m)
    <2>1. PICK S : S = {i \in DOMAIN o.members : o.members[i] \notin loopback}
        OBVIOUS
    <2>2. m = Only(o.members, S) /\ S \subseteq DOMAIN o.members
        BY <1>1, <2>1 DEF Stripped
    <2> QED
        BY <2>2, OnlySeq DEF Kept
<1>3. PICK x : x = [o EXCEPT !.members = m]
    OBVIOUS
<1>4. x = [tag |-> o.tag, type |-> o.type, members |-> m, host |-> o.host, resolver |-> o.resolver]
    BY <1>3 DEF Kept
<1>5. Kept(x) /\ x.tag = o.tag /\ x.type = o.type /\ x.resolver = o.resolver
    BY <1>2, <1>4 DEF Kept
<1> QED
    BY <1>1, <1>3, <1>5

\* Each outbound of t is that of s, or its members are others; the selector of
\* the proxies is left alone.
Restricted(s, t) ==
    /\ Laid(t) /\ DOMAIN t = DOMAIN s /\ Len(t) = Len(s)
    /\ \A i \in DOMAIN s :
        /\ t[i].tag = s[i].tag /\ t[i].type = s[i].type /\ t[i].resolver = s[i].resolver
        /\ s[i].tag = "proxy" => t[i] = s[i]

LEMMA StrippedRestricts ==
    ASSUME NEW outs, Laid(outs), NEW loopback
    PROVE  Restricted(outs, StrippedAll(outs, loopback))
<1>1. PICK n \in Nat : n = Len(outs) /\ DOMAIN outs = 1 .. n
    BY Positions DEF Laid
<1>2. PICK s : s = StrippedAll(outs, loopback)
    OBVIOUS
<1>3. IsSeq(s) /\ Len(s) = n /\ DOMAIN s = 1 .. n
    <2>1. s = [i \in 1 .. n |-> s[i]]
        BY <1>1, <1>2 DEF StrippedAll
    <2> QED
        BY <2>1, Listing
<1>4. ASSUME NEW i \in 1 .. n
      PROVE  /\ Kept(s[i]) /\ s[i].tag = outs[i].tag /\ s[i].type = outs[i].type
             /\ s[i].resolver = outs[i].resolver
             /\ outs[i].tag = "proxy" => s[i] = outs[i]
    <2>1. PICK o : o = outs[i] /\ Kept(o)
        BY <1>1 DEF Laid, Elems
    <2>2. PICK x : x = [o EXCEPT !.members = Stripped(o, loopback)]
        OBVIOUS
    <2>3. s[i] = IF Repairable(o, loopback) THEN x ELSE o
        BY <1>1, <1>2, <2>1, <2>2 DEF StrippedAll
    <2>4. Kept(x) /\ x.tag = o.tag /\ x.type = o.type /\ x.resolver = o.resolver
        BY <2>1, <2>2, StrippedKeeps
    <2>5. o.tag = "proxy" => ~Repairable(o, loopback)
        BY DEF Repairable
    <2> QED
        BY <2>1, <2>3, <2>4, <2>5
<1>5. Laid(s)
    BY <1>3, <1>4 DEF Laid, Elems
<1> QED
    BY <1>1, <1>2, <1>3, <1>4, <1>5 DEF Restricted

\* What is restricted is spared.
LEMMA RestrictedSpares ==
    ASSUME NEW s, Laid(s), NEW t, Restricted(s, t)
    PROVE  Spared(s, t)
<1>1. PICK n \in Nat : n = Len(s) /\ DOMAIN s = 1 .. n
    BY Positions DEF Laid
<1>2. Len(t) = n
    BY <1>1 DEF Restricted
<1>3. ASSUME NEW i \in 1 .. n
      PROVE  /\ t[i].tag = s[i].tag /\ t[i].type = s[i].type /\ t[i].resolver = s[i].resolver
             /\ s[i].tag = "proxy" => t[i] = s[i]
    BY <1>1 DEF Restricted
<1>4. ASSUME NEW o \in Elems(t), o.type \in Dials
      PROVE  \E x \in Elems(s) : x.type = o.type /\ x.resolver = o.resolver
    <2>1. PICK i \in 1 .. n : o = t[i]
        BY <1>2 DEF Elems
    <2>2. s[i] \in Elems(s)
        BY <1>1 DEF Elems
    <2> QED
        BY <1>3, <2>1, <2>2
<1>5. ASSUME NEW x \in Elems(s), x.tag = "proxy"
      PROVE  \E o \in Elems(t) : o.tag = "proxy" /\ Elements(x.members) \subseteq Elements(o.members)
    <2>1. PICK i \in 1 .. n : x = s[i]
        BY <1>1 DEF Elems
    <2>2. t[i] \in Elems(t)
        BY <1>2 DEF Elems
    <2> QED
        BY <1>3, <1>5, <2>1, <2>2
<1> QED
    BY <1>4, <1>5 DEF Spared

\* The group of the nodes on this machine is added.
LEMMA LocalAdded ==
    ASSUME NEW s, IsSeq(s), HasProxy(s), NEW loopback
    PROVE  \/ AddLocal(s, loopback) = s
           \/ /\ IsSeq(AddLocal(s, loopback))
              /\ Elems(AddLocal(s, loopback)) =
                    Elems(s) \cup {Out("Local", "selector", Seqs!SetToSeq(loopback), "")}
<1>1. PICK n \in Nat : n = Len(s) /\ DOMAIN s = 1 .. n
    BY Positions
<1>2. PICK at : at = CHOOSE i \in DOMAIN s : s[i].tag = "proxy"
    OBVIOUS
<1>3. at \in 1 .. n
    <2>1. \E i \in DOMAIN s : s[i].tag = "proxy"
        BY <1>1 DEF HasProxy, Elems
    <2> QED
        BY <1>1, <1>2, <2>1
<1>4. PICK o : o = Out("Local", "selector", Seqs!SetToSeq(loopback), "")
    OBVIOUS
<1>5. PICK k : k = at - 1
    OBVIOUS
<1>6. k \in 0 .. n /\ k + 1 = at
    BY <1>3, <1>5
<1>7. IsSeq(Insert(s, k, <<o>>)) /\ Elems(Insert(s, k, <<o>>)) = Elems(s) \cup Elems(<<o>>)
    <2>1. IsSeq(<<o>>)
        BY Single
    <2>2. k \in 0 .. Len(s)
        BY <1>1, <1>6
    <2> QED
        BY <2>1, <2>2, ElemsInserted
<1>8. Elems(<<o>>) = {o}
    BY ElemsSingle
<1>9. Insert(s, k, <<o>>) = SubSeq(s, 1, at - 1) \o <<o>> \o SubSeq(s, at, Len(s))
    BY <1>5, <1>6 DEF Insert
<1>10. AddLocal(s, loopback) = s \/ AddLocal(s, loopback) = Insert(s, k, <<o>>)
    BY <1>2, <1>4, <1>9 DEF AddLocal
<1> QED
    BY <1>4, <1>7, <1>8, <1>10

\* Nothing but the members of the selector has changed, and none is lost.
Widened(s, t) ==
    /\ IsSeq(t) /\ Len(t) = Len(s)
    /\ \A i \in 1 .. Len(s) :
        /\ s[i].tag # "proxy" => t[i] = s[i]
        /\ s[i].tag = "proxy" =>
                /\ t[i].tag = "proxy" /\ t[i].type = s[i].type
                /\ t[i].resolver = s[i].resolver
                /\ Elements(s[i].members) \subseteq Elements(t[i].members)

LEMMA OfferWidens ==
    ASSUME NEW s, IsSeq(s), \A o \in Elems(s) : o.tag = "proxy" => Kept(o)
    PROVE  Widened(s, OfferLocal(s))
<1>1. PICK n \in Nat : n = Len(s) /\ DOMAIN s = 1 .. n
    BY Positions
<1>2. PICK t : t = OfferLocal(s)
    OBVIOUS
<1>3. IsSeq(t) /\ Len(t) = n
    <2>1. t = [i \in 1 .. n |-> t[i]]
        BY <1>1, <1>2 DEF OfferLocal
    <2> QED
        BY <2>1, Listing
<1>4. ASSUME NEW i \in 1 .. n
      PROVE  /\ s[i].tag # "proxy" => t[i] = s[i]
             /\ s[i].tag = "proxy" =>
                    /\ t[i].tag = "proxy" /\ t[i].type = s[i].type
                    /\ t[i].resolver = s[i].resolver
                    /\ Elements(s[i].members) \subseteq Elements(t[i].members)
    <2>1. PICK o : o = s[i]
        OBVIOUS
    <2>2. PICK m : m = BesideAuto(o.members)
        OBVIOUS
    <2>3. PICK x : x = [o EXCEPT !.members = m]
        OBVIOUS
    <2>4. t[i] = x \/ t[i] = o
        BY <1>1, <1>2, <2>1, <2>2, <2>3 DEF OfferLocal
    <2>5. o.tag # "proxy" => t[i] = o
        BY <1>1, <1>2, <2>1 DEF OfferLocal
    <2>6. ASSUME o.tag = "proxy"
          PROVE  /\ x.tag = o.tag /\ x.type = o.type /\ x.resolver = o.resolver
                 /\ Elements(o.members) \subseteq Elements(x.members)
        <3>1. Kept(o)
            BY <1>1, <2>1, <2>6 DEF Elems
        <3>2. /\ x.tag = o.tag /\ x.type = o.type /\ x.resolver = o.resolver
              /\ x.members = m
            BY <2>3, <3>1 DEF Kept
        <3>3. Elements(o.members) \subseteq Elements(m)
            BY <2>2, <3>1, BesideAutoKeeps DEF Kept
        <3> QED
            BY <3>2, <3>3
    <2> QED
        BY <2>1, <2>4, <2>5, <2>6
<1> QED
    BY <1>1, <1>2, <1>3, <1>4 DEF Widened

\* The selector offers it.
LEMMA LocalOffered ==
    ASSUME NEW s, IsSeq(s), \A o \in Elems(s) : o.tag = "proxy" => Kept(o)
    PROVE  IsSeq(OfferLocal(s)) /\ Spared(s, OfferLocal(s))
<1>1. PICK n \in Nat : n = Len(s) /\ DOMAIN s = 1 .. n
    BY Positions
<1>2. PICK t : t = OfferLocal(s)
    OBVIOUS
<1>3. Widened(s, t)
    BY <1>2, OfferWidens
<1>4. IsSeq(t) /\ Len(t) = n
    BY <1>1, <1>3 DEF Widened
<1>5. ASSUME NEW o \in Elems(t), o.type \in Dials
      PROVE  \E x \in Elems(s) : x.type = o.type /\ x.resolver = o.resolver
    <2>1. PICK i \in 1 .. n : o = t[i]
        BY <1>4 DEF Elems
    <2>2. s[i] \in Elems(s)
        BY <1>1 DEF Elems
    <2> QED
        BY <1>1, <1>3, <2>1, <2>2 DEF Widened
<1>6. ASSUME NEW x \in Elems(s), x.tag = "proxy"
      PROVE  \E o \in Elems(t) : o.tag = "proxy" /\ Elements(x.members) \subseteq Elements(o.members)
    <2>1. PICK i \in 1 .. n : x = s[i]
        BY <1>1 DEF Elems
    <2>2. t[i] \in Elems(t)
        BY <1>4 DEF Elems
    <2> QED
        BY <1>1, <1>3, <1>6, <2>1, <2>2 DEF Widened
<1> QED
    BY <1>2, <1>4, <1>5, <1>6 DEF Spared

LEMMA SparedTwice ==
    ASSUME NEW s, NEW t, NEW u, Spared(s, t), Spared(t, u)
    PROVE  Spared(s, u)
<1>1. ASSUME NEW o \in Elems(u), o.type \in Dials
      PROVE  \E x \in Elems(s) : x.type = o.type /\ x.resolver = o.resolver
    <2>1. PICK y \in Elems(t) : y.type = o.type /\ y.resolver = o.resolver
        BY <1>1 DEF Spared
    <2> QED
        BY <1>1, <2>1 DEF Spared
<1>2. ASSUME NEW x \in Elems(s), x.tag = "proxy"
      PROVE  \E o \in Elems(u) : o.tag = "proxy" /\ Elements(x.members) \subseteq Elements(o.members)
    <2>1. PICK y \in Elems(t) : y.tag = "proxy" /\ Elements(x.members) \subseteq Elements(y.members)
        BY <1>2 DEF Spared
    <2>2. PICK o \in Elems(u) : o.tag = "proxy" /\ Elements(y.members) \subseteq Elements(o.members)
        BY <2>1 DEF Spared
    <2> QED
        BY <2>1, <2>2
<1> QED
    BY <1>1, <1>2 DEF Spared

LEMMA RepairSpares ==
    ASSUME NEW outs, Laid(outs), HasProxy(outs), NEW loopback
    PROVE  /\ IsSeq(repairProxyGroupLoopbacks(outs, loopback))
           /\ Spared(outs, repairProxyGroupLoopbacks(outs, loopback))
<1>1. PICK s : s = StrippedAll(outs, loopback)
    OBVIOUS
<1>2. Laid(s) /\ Spared(outs, s) /\ HasProxy(s)
    <2>1. Restricted(outs, s)
        BY <1>1, StrippedRestricts
    <2>2. Laid(s) /\ Spared(outs, s)
        BY <2>1, RestrictedSpares DEF Restricted
    <2> QED
        BY <2>2 DEF HasProxy, Spared
<1>3. PICK t : t = AddLocal(s, loopback)
    OBVIOUS
<1>4. PICK o : o = Out("Local", "selector", Seqs!SetToSeq(loopback), "")
    OBVIOUS
<1>5. IsSeq(t) /\ Elems(s) \subseteq Elems(t) /\ Elems(t) \subseteq Elems(s) \cup {o}
    BY <1>2, <1>3, <1>4, LocalAdded DEF Laid
<1>6. o.tag # "proxy" /\ o.type \notin Dials
    BY <1>4 DEF Out, Dials
<1>7. Spared(s, t)
    BY <1>5, <1>6 DEF Spared
<1>8. IsSeq(OfferLocal(t)) /\ Spared(t, OfferLocal(t))
    <2>1. \A x \in Elems(t) : x.tag = "proxy" => Kept(x)
        BY <1>2, <1>5, <1>6 DEF Laid
    <2> QED
        BY <1>5, <2>1, LocalOffered
<1>9. Spared(outs, OfferLocal(t))
    <2>1. Spared(outs, t)
        BY <1>2, <1>7, SparedTwice
    <2> QED
        BY <1>8, <2>1, SparedTwice
<1>10. Spared(outs, outs)
    BY DEF Spared
<1>11. \/ repairProxyGroupLoopbacks(outs, loopback) = outs
       \/ repairProxyGroupLoopbacks(outs, loopback) = s
       \/ repairProxyGroupLoopbacks(outs, loopback) = OfferLocal(t)
    BY <1>1, <1>3 DEF repairProxyGroupLoopbacks
<1> QED
    BY <1>2, <1>8, <1>9, <1>10, <1>11 DEF Laid

\* Without an exit after the repair there was none before.
LEMMA RepairAddsNoExit ==
    ASSUME NEW s, IsSeq(s), NEW t, IsSeq(t), Spared(s, t), proxyHasOnlyDirect(t)
    PROVE  proxyHasOnlyDirect(s)
<1>1. DOMAIN s = 1 .. Len(s) /\ DOMAIN t = 1 .. Len(t)
    BY Positions
<1>2. \A o \in Elems(t) : o.tag = "proxy" => Elements(o.members) \subseteq {"direct"}
    BY <1>1 DEF proxyHasOnlyDirect, Elems
<1>3. \A x \in Elems(s) : x.tag = "proxy" => Elements(x.members) \subseteq {"direct"}
    BY <1>2 DEF Spared
<1> QED
    BY <1>1, <1>3 DEF proxyHasOnlyDirect, Elems

(* The servers.                                                             *)

\* Servers in an order, each with a tag.
Tagged(servers) == IsSeq(servers) /\ \A s \in Elems(servers) : s.tag # ""

\* Where a server is found.
LEMMA FoundAt ==
    ASSUME NEW b, IsSeq(b.servers), NEW tag, At(b, tag) # {}
    PROVE  \E s \in Elems(b.servers) :
                s.tag = tag /\ TypeOf(b, tag) = s.type /\ DetourOf(b, tag) = s.detour
<1>1. PICK T : T = At(b, tag)
    OBVIOUS
<1>2. DOMAIN b.servers = 1 .. Len(b.servers) /\ Len(b.servers) \in Nat
    BY Positions
<1>3. T \subseteq Nat /\ T # {}
    BY <1>1, <1>2 DEF At
<1>4. Least(T) \in T
    BY <1>3, LeastIs
<1>5. PICK i \in 1 .. Len(b.servers) : i = Least(T) /\ b.servers[i].tag = tag
    BY <1>1, <1>2, <1>4 DEF At
<1>6. b.servers[i] \in Elems(b.servers)
    BY DEF Elems
<1>7. TypeOf(b, tag) = b.servers[i].type /\ DetourOf(b, tag) = b.servers[i].detour
    BY <1>1, <1>5 DEF TypeOf, DetourOf
<1> QED
    BY <1>5, <1>6, <1>7

\* Nobody is called nothing.
LEMMA NobodyUntagged ==
    ASSUME NEW b, Tagged(b.servers)
    PROVE  At(b, "") = {} /\ TypeOf(b, "") = "" /\ DetourOf(b, "") = ""
<1>1. At(b, "") = {}
    BY Positions DEF At, Tagged, Elems
<1> QED
    BY <1>1 DEF TypeOf, DetourOf

\* The first that asks has a tag.
LEMMA FirstRealIs ==
    ASSUME NEW b, Tagged(b.servers), NEW s \in Elems(b.servers), s.type \notin Synth
    PROVE  FirstReal(b) # ""
<1>1. PICK real : real = {i \in DOMAIN b.servers : b.servers[i].type \notin Synth}
    OBVIOUS
<1>2. DOMAIN b.servers = 1 .. Len(b.servers) /\ Len(b.servers) \in Nat
    BY Positions DEF Tagged
<1>3. real \subseteq Nat /\ real # {}
    BY <1>1, <1>2 DEF Elems
<1>4. Least(real) \in real
    BY <1>3, LeastIs
<1>5. b.servers[Least(real)] \in Elems(b.servers)
    BY <1>1, <1>2, <1>4 DEF Elems
<1>6. FirstReal(b) = b.servers[Least(real)].tag
    BY <1>1, <1>3 DEF FirstReal
<1> QED
    BY <1>5, <1>6 DEF Tagged

\* The servers of a block are all that counts.
LEMMA SameServers ==
    ASSUME NEW a, NEW b, a.servers = b.servers
    PROVE  /\ FirstReal(a) = FirstReal(b)
           /\ \A tag : At(a, tag) = At(b, tag) /\ TypeOf(a, tag) = TypeOf(b, tag)
                         /\ DetourOf(a, tag) = DetourOf(b, tag)
<1>1. \A tag : At(a, tag) = At(b, tag)
    BY DEF At
<1>2. ASSUME NEW tag
      PROVE  TypeOf(a, tag) = TypeOf(b, tag) /\ DetourOf(a, tag) = DetourOf(b, tag)
    <2>1. PICK T : T = At(a, tag) /\ T = At(b, tag)
        BY <1>1
    <2> QED
        BY <2>1 DEF TypeOf, DetourOf
<1> QED
    BY <1>1, <1>2 DEF FirstReal

\* No server of that tag is behind the proxy group.
LEMMA DetourOfAll ==
    ASSUME NEW b, IsSeq(b.servers), NEW tag, \E s \in Elems(b.servers) : s.tag = tag,
           \A s \in Elems(b.servers) : s.tag = tag => s.detour # "proxy"
    PROVE  At(b, tag) # {} /\ DetourOf(b, tag) # "proxy"
<1>1. At(b, tag) # {}
    <2>1. PICK i \in 1 .. Len(b.servers) : b.servers[i].tag = tag
        BY DEF Elems
    <2>2. i \in DOMAIN b.servers
        BY Positions
    <2> QED
        BY <2>1, <2>2 DEF At
<1>2. \E s \in Elems(b.servers) :
        s.tag = tag /\ TypeOf(b, tag) = s.type /\ DetourOf(b, tag) = s.detour
    BY <1>1, FoundAt
<1> QED
    BY <1>1, <1>2

\* The direct resolver, added to servers none of which has its tag.
LEMMA DirectAdded ==
    ASSUME NEW servers, Tagged(servers), \A s \in Elems(servers) : s.tag # Direct,
           NEW b, b.servers = Append(servers, DirectServer)
    PROVE  /\ Tagged(b.servers) /\ At(b, Direct) # {} /\ DetourOf(b, Direct) # "proxy"
           /\ Elems(b.servers) = Elems(servers) \cup {DirectServer}
<1>1. DirectServer.tag = Direct /\ DirectServer.detour = ""
    BY DEF DirectServer, Server
<1>2. IsSeq(b.servers) /\ Elems(b.servers) = Elems(servers) \cup {DirectServer}
    BY ElemsAppended DEF Tagged
<1>3. Tagged(b.servers)
    <2>1. Direct # ""
        BY DEF Direct
    <2> QED
        BY <1>1, <1>2, <2>1 DEF Tagged
<1>4. \A s \in Elems(b.servers) : s.tag = Direct => s.detour # "proxy"
    BY <1>1, <1>2
<1>5. \E s \in Elems(b.servers) : s.tag = Direct
    BY <1>1, <1>2
<1>6. At(b, Direct) # {} /\ DetourOf(b, Direct) # "proxy"
    BY <1>2, <1>4, <1>5, DetourOfAll
<1> QED
    BY <1>2, <1>3, <1>6

\* The servers without those of a tag.
LEMMA WithoutIs ==
    ASSUME NEW servers, Tagged(servers), NEW tag
    PROVE  /\ Tagged(Without(servers, tag))
           /\ \A s \in Elems(Without(servers, tag)) : s.tag # tag
<1>1. PICK S : S = {i \in DOMAIN servers : servers[i].tag # tag}
    OBVIOUS
<1>2. DOMAIN servers = 1 .. Len(servers)
    BY Positions DEF Tagged
<1>3. PICK r : r = Only(servers, S)
    OBVIOUS
<1>4. S \subseteq DOMAIN servers
    BY <1>1
<1>5. /\ IsSeq(r) /\ Len(r) = Cardinality(S)
      /\ \A k \in 1 .. Cardinality(S) : \E i \in S : r[k] = servers[i]
    <2>1. IsSeq(servers)
        BY DEF Tagged
    <2>2. /\ IsSeq(Only(servers, S)) /\ Len(Only(servers, S)) = Cardinality(S)
          /\ \A k \in 1 .. Cardinality(S) : \E i \in S : Rank(S, i) = k /\ Only(servers, S)[k] = servers[i]
        BY <1>4, <2>1, OnlyIs
    <2> QED
        BY <1>3, <2>2
<1>6. \A s \in Elems(r) : \E i \in S : s = servers[i]
    BY <1>5 DEF Elems
<1>7. \A i \in S : servers[i] \in Elems(servers) /\ servers[i].tag # tag
    BY <1>1, <1>2 DEF Elems
<1>8. Without(servers, tag) = r
    BY <1>1, <1>3 DEF Without
<1> QED
    BY <1>5, <1>6, <1>7, <1>8 DEF Tagged

(* A config on its way through applyInvariants.                             *)

IsConfig(c) ==
    /\ c = [outs |-> c.outs, eps |-> c.eps, dns |-> c.dns, resolver |-> c.resolver,
            client |-> c.client, inbounds |-> c.inbounds, rules |-> c.rules, ok |-> c.ok]
    /\ c.dns = [servers |-> c.dns.servers, rules |-> c.dns.rules, final |-> c.dns.final]
    /\ c.client = [declared |-> c.client.declared, resolver |-> c.client.resolver]

\* The DNS settings.
SoundDNS == dns \in DNSType /\ Sound(dns)

\* Before DNS follows the routes: the DNS rules are the operator's, or less,
\* and no outbound has a resolver of its own.
OwnRules(rules) ==
    /\ IsSeq(rules)
    /\ \A r \in Elems(rules) : \E i \in DOMAIN dns.rules : r.of \subseteq dns.rules[i].of
Plain(c) ==
    /\ IsConfig(c)
    /\ Tagged(c.dns.servers)
    /\ OwnRules(c.dns.rules)
    /\ IsSeq(c.rules)
    /\ Laid(c.outs) /\ HasProxy(c.outs) /\ \A o \in Elems(c.outs) : o.resolver = ""
    /\ c.client.resolver = ""

\* The resolver of the config is the remote one, if it names one; a final
\* server that asks is the remote one, and so is the final server as long as the
\* reserved tag is behind the proxy group.
Real(c, tag) == tag # "" /\ TypeOf(c.dns, tag) \notin Synth
Resolving(c) ==
    /\ c.resolver \in {"", Remote(c)}
    /\ Real(c, c.dns.final) => Remote(c) = c.dns.final
    /\ DetourOf(c.dns, Direct) = "proxy" => c.dns.final # "" /\ Remote(c) = c.dns.final

\* The remote resolver, case by case.
LEMMA RemoteIs ==
    ASSUME NEW c
    PROVE  /\ Real(c, c.resolver) => Remote(c) = c.resolver
           /\ ~Real(c, c.resolver) /\ Real(c, c.dns.final) => Remote(c) = c.dns.final
           /\ ~Real(c, c.resolver) /\ ~Real(c, c.dns.final) => Remote(c) = FirstReal(c.dns)
<1>1. PICK p : p <=> Real(c, c.resolver)
    OBVIOUS
<1>2. PICK q : q <=> Real(c, c.dns.final)
    OBVIOUS
<1>3. PICK r : r = FirstReal(c.dns)
    OBVIOUS
<1>4. Remote(c) = CASE Real(c, c.resolver) -> c.resolver
                    [] ~Real(c, c.resolver) /\ Real(c, c.dns.final) -> c.dns.final
                    [] OTHER -> FirstReal(c.dns)
    BY DEF Remote, Real
<1> QED
    BY <1>4

\* A config whose resolver was chosen from its final server.
LEMMA ResolvingWhen ==
    ASSUME NEW c, Tagged(c.dns.servers),
           c.resolver = "" \/ Real(c, c.resolver) \/ c.resolver = FirstReal(c.dns),
           Real(c, c.dns.final) => c.resolver = c.dns.final \/ c.resolver = "",
           DetourOf(c.dns, Direct) = "proxy" =>
                Real(c, c.dns.final) \/ (c.dns.final # "" /\ c.resolver = c.dns.final)
    PROVE  Resolving(c)
<1>1. /\ Real(c, c.resolver) => Remote(c) = c.resolver
      /\ ~Real(c, c.resolver) /\ Real(c, c.dns.final) => Remote(c) = c.dns.final
      /\ ~Real(c, c.resolver) /\ ~Real(c, c.dns.final) => Remote(c) = FirstReal(c.dns)
    BY RemoteIs
<1>2. ~Real(c, "")
    BY DEF Real
<1>3. Real(c, c.dns.final) => c.dns.final # ""
    BY DEF Real
<1>4. Real(c, c.dns.final) => Remote(c) = c.dns.final
    BY <1>1, <1>2
<1>5. c.resolver \in {"", Remote(c)}
    <2>1. CASE c.resolver = ""
        BY <2>1
    <2>2. CASE Real(c, c.resolver)
        BY <1>1, <2>2
    <2>3. CASE c.resolver # "" /\ ~Real(c, c.resolver) /\ c.resolver = FirstReal(c.dns)
        BY <1>1, <2>3
    <2> QED
        BY <2>1, <2>2, <2>3
<1>6. DetourOf(c.dns, Direct) = "proxy" => c.dns.final # "" /\ Remote(c) = c.dns.final
    <2>1. CASE Real(c, c.dns.final)
        BY <1>3, <1>4, <2>1
    <2>2. ASSUME ~Real(c, c.dns.final), DetourOf(c.dns, Direct) = "proxy"
          PROVE  c.dns.final # "" /\ Remote(c) = c.dns.final
        <3>1. c.dns.final # "" /\ c.resolver = c.dns.final
            BY <2>2
        <3> QED
            BY <1>5, <3>1
    <2> QED
        BY <2>1, <2>2
<1> QED
    BY <1>4, <1>5, <1>6 DEF Resolving

\* Rules for names, each less than one of the operator's.
LEMMA OwnRulesKept ==
    ASSUME NEW live, IsSeq(live), NEW S, S \subseteq DOMAIN live,
           \A i \in DOMAIN live : \E j \in DOMAIN dns.rules : live[i].of \subseteq dns.rules[j].of
    PROVE  OwnRules(Only(live, S))
<1>1. /\ IsSeq(Only(live, S)) /\ Len(Only(live, S)) = Cardinality(S)
      /\ \A k \in 1 .. Cardinality(S) : \E i \in S : Rank(S, i) = k /\ Only(live, S)[k] = live[i]
    BY OnlyIs
<1>2. PICK r : r = Only(live, S)
    OBVIOUS
<1>3. /\ IsSeq(r) /\ Len(r) = Cardinality(S)
      /\ \A k \in 1 .. Cardinality(S) : \E i \in DOMAIN live : r[k] = live[i]
    BY <1>1, <1>2
<1>4. \A x \in Elems(r) : \E i \in DOMAIN live : x = live[i]
    BY <1>3 DEF Elems
<1> QED
    BY <1>2, <1>3, <1>4 DEF OwnRules

\* An entry of a sequence.
LEMMA MemberOf ==
    ASSUME NEW T, NEW s \in Seq(T), NEW i \in DOMAIN s
    PROVE  s[i] \in T
OBVIOUS

\* The operator's rules for names, without the rule sets that are off.
LiveRules == [i \in DOMAIN dns.rules |-> [dns.rules[i] EXCEPT !.of = @ \ (Tag \ Declared)]]

LEMMA RulesInjected ==
    ASSUME SoundDNS
    PROVE  /\ IsSeq(LiveRules)
           /\ \A i \in DOMAIN LiveRules :
                \E j \in DOMAIN dns.rules : LiveRules[i].of \subseteq dns.rules[j].of
<1>1. dns.rules \in Seq([of : SUBSET Entry, server : ServerTag])
    BY DEF SoundDNS, DNSType
<1>2. PICK n \in Nat : n = Len(dns.rules) /\ DOMAIN dns.rules = 1 .. n
    BY <1>1
<1>3. PICK live : live = LiveRules
    OBVIOUS
<1>4. IsSeq(live) /\ DOMAIN live = 1 .. n
    <2>1. live = [i \in 1 .. n |-> live[i]]
        BY <1>2, <1>3 DEF LiveRules
    <2> QED
        BY <2>1, Listing
<1>5. ASSUME NEW i \in 1 .. n PROVE live[i].of \subseteq dns.rules[i].of
    <2>1. PICK r : r = dns.rules[i]
        OBVIOUS
    <2>2. i \in DOMAIN dns.rules
        BY <1>2
    <2>3. dns.rules[i] \in [of : SUBSET Entry, server : ServerTag]
        BY <1>1, <2>2, MemberOf
    <2>4. r \in [of : SUBSET Entry, server : ServerTag]
        BY <2>1, <2>3
    <2>5. live[i] = [r EXCEPT !.of = r.of \ (Tag \ Declared)]
        BY <1>2, <1>3, <2>1 DEF LiveRules
    <2>6. live[i].of = r.of \ (Tag \ Declared)
        BY <2>4, <2>5
    <2> QED
        BY <2>1, <2>6
<1> QED
    BY <1>2, <1>3, <1>4, <1>5

\* The block of the settings.
LEMMA BlockInjected ==
    ASSUME SoundDNS, NEW c, c.dns = injectDNS(dns).dns, c.resolver = injectDNS(dns).resolver
    PROVE  /\ Tagged(c.dns.servers) /\ OwnRules(c.dns.rules) /\ Resolving(c)
           /\ c.dns = [servers |-> c.dns.servers, rules |-> c.dns.rules, final |-> c.dns.final]
<1>1. PICK live : live = LiveRules
    OBVIOUS
<1>2. PICK S : S = {i \in DOMAIN live : live[i].of # {}}
    OBVIOUS
<1>3. PICK rules : rules = Only(live, S)
    OBVIOUS
<1>4. OwnRules(rules)
    <2>1. S \subseteq DOMAIN live
        BY <1>2
    <2>2. /\ IsSeq(live)
          /\ \A i \in DOMAIN live : \E j \in DOMAIN dns.rules : live[i].of \subseteq dns.rules[j].of
        BY <1>1, RulesInjected
    <2> QED
        BY <1>3, <2>1, <2>2, OwnRulesKept
<1>5. PICK chosen : chosen = IF dns.final # "" THEN dns.final ELSE dns.servers[1].tag
    OBVIOUS
<1>6. PICK b : b = [servers |-> dns.servers, final |-> dns.final, rules |-> rules]
    OBVIOUS
<1>7. /\ b.servers = dns.servers /\ b.final = dns.final /\ b.rules = rules
      /\ b = [servers |-> b.servers, rules |-> b.rules, final |-> b.final]
    BY <1>6
<1>8. PICK resolver : resolver = IF TypeOf(b, chosen) \in Synth THEN FirstReal(b) ELSE chosen
    OBVIOUS
<1>9. injectDNS(dns) = IF dns.servers = <<>> THEN [dns |-> b, resolver |-> ""]
                       ELSE [dns |-> b, resolver |-> resolver]
    BY <1>1, <1>2, <1>3, <1>5, <1>6, <1>8 DEF injectDNS, LiveRules
<1>10. /\ c.dns = b
       /\ c.resolver = IF dns.servers = <<>> THEN "" ELSE resolver
    <2>1. PICK x : x = injectDNS(dns)
        OBVIOUS
    <2>2. CASE dns.servers = <<>>
        <3>1. x = [dns |-> b, resolver |-> ""]
            BY <1>9, <2>1, <2>2
        <3>2. x.dns = b /\ x.resolver = ""
            BY <3>1
        <3> QED
            BY <2>1, <2>2, <3>2
    <2>3. CASE dns.servers # <<>>
        <3>1. x = [dns |-> b, resolver |-> resolver]
            BY <1>9, <2>1, <2>3
        <3>2. x.dns = b /\ x.resolver = resolver
            BY <3>1
        <3> QED
            BY <2>1, <2>3, <3>2
    <2> QED
        BY <2>2, <2>3
<1>11. Tagged(b.servers)
    <2>1. dns.servers \in Seq(ServerType)
        BY DEF SoundDNS, DNSType
    <2>2. IsSeq(dns.servers) /\ DOMAIN dns.servers = 1 .. Len(dns.servers)
        BY <2>1, Positions DEF IsSeq
    <2> QED
        BY <1>7, <2>2 DEF Tagged, Elems, SoundDNS, Sound
<1>12. dns.servers # <<>> => chosen # ""
    <2>1. ASSUME dns.servers # <<>> PROVE dns.servers[1].tag # ""
        <3>1. dns.servers \in Seq(ServerType)
            BY DEF SoundDNS, DNSType
        <3>2. 1 \in DOMAIN dns.servers
            BY <2>1, <3>1
        <3> QED
            BY <3>2 DEF SoundDNS, Sound
    <2> QED
        BY <1>5, <2>1
<1>13. Resolving(c)
    <2>1. Tagged(c.dns.servers)
        BY <1>10, <1>11
    <2>2. c.resolver = "" \/ Real(c, c.resolver) \/ c.resolver = FirstReal(c.dns)
        BY <1>8, <1>10, <1>12 DEF Real
    <2>3. Real(c, c.dns.final) => c.resolver = c.dns.final \/ c.resolver = ""
        BY <1>5, <1>7, <1>8, <1>10 DEF Real
    <2>4. DetourOf(c.dns, Direct) = "proxy" => Real(c, c.dns.final)
        <3>1. c.dns.servers = dns.servers
            BY <1>7, <1>10
        <3>2. \A tag : TypeOf(c.dns, tag) = TypeOf(dns, tag) /\ DetourOf(c.dns, tag) = DetourOf(dns, tag)
            BY <3>1, SameServers
        <3>3. c.dns.final = dns.final
            BY <1>7, <1>10
        <3> QED
            BY <3>2, <3>3 DEF Real, SoundDNS, Sound
    <2> QED
        BY <2>1, <2>2, <2>3, <2>4, ResolvingWhen
<1> QED
    BY <1>4, <1>7, <1>10, <1>11, <1>13

(* Under TUN.                                                               *)

\* A replaced server keeps its tag.
SafeServer(s) == IF s.type = "local" THEN TunServer(s.tag) ELSE s

LEMMA SafeServerIs ==
    ASSUME NEW s, s.tag # ""
    PROVE  SafeServer(s).tag # ""
<1>1. TunServer(s.tag).tag = s.tag
    BY DEF TunServer, Server
<1> QED
    BY <1>1 DEF SafeServer

\* The servers of the tunnel's block: tagged, and one asks.
SafeServers(servers) ==
    LET replaced == [i \in DOMAIN servers |-> SafeServer(servers[i])] IN
    IF \E i \in DOMAIN replaced : replaced[i].type = "real"
    THEN replaced ELSE Append(replaced, TunServer("tun-dns"))

LEMMA SafeServersIs ==
    ASSUME NEW servers, Tagged(servers)
    PROVE  /\ Tagged(SafeServers(servers))
           /\ \E s \in Elems(SafeServers(servers)) : s.type = "real"
<1>1. PICK n \in Nat : n = Len(servers) /\ DOMAIN servers = 1 .. n
    BY Positions DEF Tagged
<1>2. PICK r : r = [i \in DOMAIN servers |-> SafeServer(servers[i])]
    OBVIOUS
<1>3. IsSeq(r) /\ Len(r) = n /\ DOMAIN r = 1 .. n
    <2>1. r = [i \in 1 .. n |-> r[i]]
        BY <1>1, <1>2
    <2> QED
        BY <2>1, Listing
<1>4. ASSUME NEW s \in Elems(r) PROVE s.tag # ""
    <2>1. PICK i \in 1 .. n : s = r[i]
        BY <1>3 DEF Elems
    <2>2. servers[i].tag # ""
        BY <1>1 DEF Tagged, Elems
    <2>3. s = SafeServer(servers[i])
        BY <1>1, <1>2, <2>1
    <2> QED
        BY <2>2, <2>3, SafeServerIs
<1>5. Tagged(r)
    BY <1>3, <1>4 DEF Tagged
<1>6. PICK t : t = TunServer("tun-dns")
    OBVIOUS
<1>7. t.tag # "" /\ t.type = "real"
    BY <1>6 DEF TunServer, Server
<1>8. SafeServers(servers) = IF \E i \in DOMAIN r : r[i].type = "real" THEN r ELSE Append(r, t)
    BY <1>2, <1>6 DEF SafeServers
<1>9. CASE \E i \in DOMAIN r : r[i].type = "real"
    <2>1. \E s \in Elems(r) : s.type = "real"
        BY <1>3, <1>9 DEF Elems
    <2> QED
        BY <1>5, <1>8, <1>9, <2>1
<1>10. CASE ~\E i \in DOMAIN r : r[i].type = "real"
    <2>1. IsSeq(Append(r, t)) /\ Elems(Append(r, t)) = Elems(r) \cup {t}
        BY <1>3, ElemsAppended
    <2>2. Tagged(Append(r, t))
        BY <1>4, <1>7, <2>1 DEF Tagged
    <2> QED
        BY <1>7, <1>8, <1>10, <2>1, <2>2
<1> QED
    BY <1>9, <1>10

\* What sanitizeTunDNS leaves alone, and where it answers and resolves.
SafeBlock(c) == [c.dns EXCEPT !.servers = SafeServers(c.dns.servers)]
SafeLast(c) ==
    IF TypeOf(SafeBlock(c), SafeBlock(c).final) = "real" THEN SafeBlock(c).final
    ELSE FirstReal(SafeBlock(c))

LEMMA SafeSame ==
    ASSUME NEW c
    PROVE  sanitizeTunDNS(c) =
              [c EXCEPT !.dns = [SafeBlock(c) EXCEPT !.final = SafeLast(c)], !.resolver = SafeLast(c)]
BY DEF sanitizeTunDNS, SafeBlock, SafeLast, SafeServers, SafeServer

LEMMA SanitizedIs ==
    ASSUME NEW c, IsConfig(c), NEW s, s = sanitizeTunDNS(c)
    PROVE  /\ IsConfig(s)
           /\ s.outs = c.outs /\ s.eps = c.eps /\ s.client = c.client /\ s.rules = c.rules
           /\ s.inbounds = c.inbounds /\ s.ok = c.ok
           /\ s.dns.servers = SafeServers(c.dns.servers) /\ s.dns.rules = c.dns.rules
           /\ s.dns.final = SafeLast(c) /\ s.resolver = SafeLast(c)
<1>1. PICK last : last = SafeLast(c)
    OBVIOUS
<1>2. PICK servers : servers = SafeServers(c.dns.servers)
    OBVIOUS
<1>3. PICK d : d = c.dns
    OBVIOUS
<1>4. PICK b : b = [d EXCEPT !.servers = servers]
    OBVIOUS
<1>5. b = SafeBlock(c)
    BY <1>2, <1>3, <1>4 DEF SafeBlock
<1>6. d = [servers |-> d.servers, rules |-> d.rules, final |-> d.final]
    BY <1>3 DEF IsConfig
<1>7. b = [servers |-> servers, rules |-> d.rules, final |-> d.final]
    BY <1>4, <1>6
<1>8. PICK e : e = [b EXCEPT !.final = last]
    OBVIOUS
<1>9. e = [servers |-> servers, rules |-> d.rules, final |-> last]
    BY <1>7, <1>8
<1>10. e = [servers |-> e.servers, rules |-> e.rules, final |-> e.final]
       /\ e.servers = servers /\ e.rules = d.rules /\ e.final = last
    BY <1>9
<1>11. s = [c EXCEPT !.dns = e, !.resolver = last]
    BY <1>1, <1>5, <1>8, SafeSame
<1>12. c = [outs |-> c.outs, eps |-> c.eps, dns |-> c.dns, resolver |-> c.resolver,
            client |-> c.client, inbounds |-> c.inbounds, rules |-> c.rules, ok |-> c.ok]
    BY DEF IsConfig
<1>13. s = [outs |-> c.outs, eps |-> c.eps, dns |-> e, resolver |-> last,
            client |-> c.client, inbounds |-> c.inbounds, rules |-> c.rules, ok |-> c.ok]
    BY <1>11, <1>12
<1>14. /\ s.outs = c.outs /\ s.eps = c.eps /\ s.client = c.client /\ s.rules = c.rules
       /\ s.inbounds = c.inbounds /\ s.ok = c.ok /\ s.dns = e /\ s.resolver = last
    BY <1>13
<1>15. IsConfig(s)
    <2>1. s = [outs |-> s.outs, eps |-> s.eps, dns |-> s.dns, resolver |-> s.resolver,
            client |-> s.client, inbounds |-> s.inbounds, rules |-> s.rules, ok |-> s.ok]
        BY <1>13, <1>14
    <2>2. c.client = [declared |-> c.client.declared, resolver |-> c.client.resolver]
        BY DEF IsConfig
    <2> QED
        BY <1>10, <1>14, <2>1, <2>2 DEF IsConfig
<1> QED
    BY <1>1, <1>2, <1>3, <1>10, <1>14, <1>15

\* The tunnel's block is as good as the operator's.
LEMMA Sanitized ==
    ASSUME NEW c, Plain(c), NEW s, s = sanitizeTunDNS(c)
    PROVE  Plain(s) /\ Resolving(s) /\ s.rules = c.rules
<1>1. /\ IsConfig(s)
      /\ s.outs = c.outs /\ s.eps = c.eps /\ s.client = c.client /\ s.rules = c.rules
      /\ s.inbounds = c.inbounds /\ s.ok = c.ok
      /\ s.dns.servers = SafeServers(c.dns.servers) /\ s.dns.rules = c.dns.rules
      /\ s.dns.final = SafeLast(c) /\ s.resolver = SafeLast(c)
    BY SanitizedIs DEF Plain
<1>2. /\ Tagged(s.dns.servers)
      /\ \E x \in Elems(s.dns.servers) : x.type = "real"
    <2>1. Tagged(c.dns.servers)
        BY DEF Plain
    <2> QED
        BY <1>1, <2>1, SafeServersIs
<1>3. Plain(s)
    BY <1>1, <1>2 DEF Plain
<1>4. PICK b : b = SafeBlock(c)
    OBVIOUS
<1>5. b.servers = s.dns.servers
    <2>1. c.dns = [servers |-> c.dns.servers, rules |-> c.dns.rules, final |-> c.dns.final]
        BY DEF Plain, IsConfig
    <2> QED
        BY <1>1, <1>4, <2>1 DEF SafeBlock
<1>6. /\ FirstReal(b) = FirstReal(s.dns)
      /\ \A tag : TypeOf(b, tag) = TypeOf(s.dns, tag)
    BY <1>5, SameServers
<1>7. SafeLast(c) = IF TypeOf(b, b.final) = "real" THEN b.final ELSE FirstReal(b)
    BY <1>4 DEF SafeLast
<1>8. FirstReal(s.dns) # ""
    <2>1. PICK x \in Elems(s.dns.servers) : x.type = "real"
        BY <1>2
    <2>2. x.type \notin Synth
        BY <2>1 DEF Synth
    <2> QED
        BY <1>2, <2>2, FirstRealIs
<1>9. TypeOf(s.dns, "") = ""
    BY <1>2, NobodyUntagged
<1>10. PICK last : last = SafeLast(c) /\ last = s.resolver /\ last = s.dns.final
    BY <1>1
<1>11. last # "" /\ (Real(s, last) \/ last = FirstReal(s.dns))
    <2>1. CASE TypeOf(b, b.final) = "real"
        <3>1. last = b.final
            BY <1>7, <1>10, <2>1
        <3>2. TypeOf(s.dns, last) = "real"
            BY <1>6, <2>1, <3>1
        <3>3. last # ""
            BY <1>9, <3>2
        <3> QED
            BY <3>2, <3>3 DEF Real, Synth
    <2>2. CASE TypeOf(b, b.final) # "real"
        BY <1>6, <1>7, <1>8, <1>10, <2>2
    <2> QED
        BY <2>1, <2>2
<1>12. Resolving(s)
    <2>1. s.resolver = "" \/ Real(s, s.resolver) \/ s.resolver = FirstReal(s.dns)
        BY <1>10, <1>11
    <2>2. Real(s, s.dns.final) => s.resolver = s.dns.final \/ s.resolver = ""
        BY <1>10
    <2>3. DetourOf(s.dns, Direct) = "proxy" =>
                Real(s, s.dns.final) \/ (s.dns.final # "" /\ s.resolver = s.dns.final)
        BY <1>10, <1>11
    <2>4. Tagged(s.dns.servers)
        BY <1>2
    <2> QED
        BY <2>1, <2>2, <2>3, <2>4, ResolvingWhen
<1> QED
    BY <1>1, <1>3, <1>12

(* Before DNS follows the routes.                                           *)

\* What the injectors write.
LEMMA OutsLaid ==
    ASSUME NEW s, Outs(s)
    PROVE  Laid(s) /\ \A o \in Elems(s) : o.resolver = ""
<1>1. ASSUME NEW o, Written(o) PROVE Kept(o) /\ o.resolver = ""
    <2>1. PICK tag, type, inside, host :
            o = [tag |-> tag, type |-> type, members |-> inside, host |-> host,
                 resolver |-> ""]
        BY <1>1 DEF Written, Out
    <2>2. /\ o.tag = tag /\ o.type = type /\ o.members = inside
          /\ o.host = host /\ o.resolver = ""
        BY <2>1
    <2>3. o = [tag |-> o.tag, type |-> o.type, members |-> o.members, host |-> o.host,
               resolver |-> o.resolver]
        BY <2>1, <2>2
    <2> QED
        BY <1>1, <2>2, <2>3 DEF Kept, Written
<1> QED
    BY <1>1 DEF Outs, Laid

\* Nothing but the outbounds, the block, the resolver and the client counts.
LEMMA Carried ==
    ASSUME NEW c, Plain(c), NEW s, IsConfig(s), IsSeq(s.rules), s.outs = c.outs,
           s.dns = c.dns, s.resolver = c.resolver, s.client = c.client
    PROVE  Plain(s) /\ (Resolving(c) => Resolving(s))
<1>1. Plain(s)
    BY DEF Plain
<1>2. Remote(s) = Remote(c)
    <2>1. PICK d, r : d = c.dns /\ d = s.dns /\ r = c.resolver /\ r = s.resolver
        OBVIOUS
    <2> QED
        BY <2>1 DEF Remote
<1>3. \A tag : Real(s, tag) <=> Real(c, tag)
    BY DEF Real
<1> QED
    BY <1>1, <1>2, <1>3 DEF Resolving

\* One field of a config, changed.
LEMMA InboundsChanged ==
    ASSUME NEW c, IsConfig(c), NEW v, NEW s, s = [c EXCEPT !.inbounds = v]
    PROVE  /\ IsConfig(s) /\ s.outs = c.outs /\ s.dns = c.dns /\ s.resolver = c.resolver
           /\ s.client = c.client /\ s.rules = c.rules
<1>1. s = [outs |-> c.outs, eps |-> c.eps, dns |-> c.dns, resolver |-> c.resolver,
           client |-> c.client, inbounds |-> v, rules |-> c.rules, ok |-> c.ok]
    BY DEF IsConfig
<1>2. /\ s.outs = c.outs /\ s.eps = c.eps /\ s.dns = c.dns /\ s.resolver = c.resolver
      /\ s.client = c.client /\ s.inbounds = v /\ s.rules = c.rules /\ s.ok = c.ok
    BY <1>1
<1> QED
    BY <1>1, <1>2 DEF IsConfig

LEMMA RulesChanged ==
    ASSUME NEW c, IsConfig(c), NEW v, NEW s, s = [c EXCEPT !.rules = v]
    PROVE  /\ IsConfig(s) /\ s.outs = c.outs /\ s.dns = c.dns /\ s.resolver = c.resolver
           /\ s.client = c.client /\ s.rules = v
<1>1. s = [outs |-> c.outs, eps |-> c.eps, dns |-> c.dns, resolver |-> c.resolver,
           client |-> c.client, inbounds |-> c.inbounds, rules |-> v, ok |-> c.ok]
    BY DEF IsConfig
<1>2. /\ s.outs = c.outs /\ s.eps = c.eps /\ s.dns = c.dns /\ s.resolver = c.resolver
      /\ s.client = c.client /\ s.inbounds = c.inbounds /\ s.rules = v /\ s.ok = c.ok
    BY <1>1
<1> QED
    BY <1>1, <1>2 DEF IsConfig

LEMMA OkChanged ==
    ASSUME NEW c, IsConfig(c), NEW v, NEW s, s = [c EXCEPT !.ok = v]
    PROVE  /\ IsConfig(s) /\ s.outs = c.outs /\ s.dns = c.dns /\ s.resolver = c.resolver
           /\ s.client = c.client /\ s.rules = c.rules
<1>1. s = [outs |-> c.outs, eps |-> c.eps, dns |-> c.dns, resolver |-> c.resolver,
           client |-> c.client, inbounds |-> c.inbounds, rules |-> c.rules, ok |-> v]
    BY DEF IsConfig
<1>2. /\ s.outs = c.outs /\ s.eps = c.eps /\ s.dns = c.dns /\ s.resolver = c.resolver
      /\ s.client = c.client /\ s.inbounds = c.inbounds /\ s.rules = c.rules /\ s.ok = v
    BY <1>1
<1> QED
    BY <1>1, <1>2 DEF IsConfig

\* The injectors' config.
LEMMA InjectedPlain ==
    ASSUME SoundDNS, IsSeq(Merged), NEW outs, Outs(outs), HasProxy(outs), NEW eps,
           NEW c, c = Injected(outs, eps, injectDNS(dns))
    PROVE  Plain(c) /\ Resolving(c)
<1>1. PICK n : n = injectDNS(dns)
    OBVIOUS
<1>2. PICK k : k = Client
    OBVIOUS
<1>3. k = [declared |-> k.declared, resolver |-> k.resolver] /\ k.resolver = ""
    <2>1. k = [declared |-> FALSE, resolver |-> ""] \/ k = [declared |-> TRUE, resolver |-> ""]
        BY <1>2 DEF Client
    <2>2. CASE k = [declared |-> FALSE, resolver |-> ""]
        BY <2>2
    <2>3. CASE k = [declared |-> TRUE, resolver |-> ""]
        BY <2>3
    <2> QED
        BY <2>1, <2>2, <2>3
<1>4. PICK m : m = Merged /\ IsSeq(m)
    OBVIOUS
<1>5. c = [outs |-> outs, eps |-> eps, dns |-> n.dns, resolver |-> n.resolver,
           client |-> k, inbounds |-> {"mixed"}, rules |-> m, ok |-> TRUE]
    BY <1>1, <1>2, <1>4 DEF Injected
<1>6. /\ c.outs = outs /\ c.eps = eps /\ c.dns = n.dns /\ c.resolver = n.resolver
      /\ c.client = k /\ c.inbounds = {"mixed"} /\ c.rules = m /\ c.ok = TRUE
    BY <1>5
<1>7. /\ Tagged(c.dns.servers) /\ OwnRules(c.dns.rules) /\ Resolving(c)
      /\ c.dns = [servers |-> c.dns.servers, rules |-> c.dns.rules, final |-> c.dns.final]
    BY <1>1, <1>6, BlockInjected
<1>8. IsConfig(c)
    BY <1>3, <1>5, <1>6, <1>7 DEF IsConfig
<1>9. Laid(outs) /\ \A o \in Elems(outs) : o.resolver = ""
    BY OutsLaid
<1> QED
    BY <1>3, <1>4, <1>6, <1>7, <1>8, <1>9 DEF Plain

\* The tunnel's inbound and block.
LEMMA ModeApplied ==
    ASSUME NEW c, Plain(c), Resolving(c), NEW s, s = applyMode(c)
    PROVE  Plain(s) /\ Resolving(s)
<1>1. CASE mode # "tun"
    BY <1>1 DEF applyMode
<1>2. CASE mode = "tun"
    <2>1. PICK x : x = [c EXCEPT !.inbounds = {"tun", "mixed"}]
        OBVIOUS
    <2>2. IsConfig(c) /\ IsSeq(c.rules)
        BY DEF Plain
    <2>3. /\ IsConfig(x) /\ x.outs = c.outs /\ x.dns = c.dns /\ x.resolver = c.resolver
          /\ x.client = c.client /\ x.rules = c.rules
        BY <2>1, <2>2, InboundsChanged
    <2>4. Plain(x)
        BY <2>2, <2>3, Carried
    <2>5. s = sanitizeTunDNS(x)
        BY <1>2, <2>1 DEF applyMode
    <2> QED
        BY <2>4, <2>5, Sanitized
<1> QED
    BY <1>1, <1>2

LEMMA TunEnforced ==
    ASSUME NEW c, Plain(c), Resolving(c), NEW s, s = EnforceTun(c)
    PROVE  Plain(s) /\ Resolving(s)
<1>1. CASE mode # "tun"
    BY <1>1 DEF EnforceTun
<1>2. CASE mode = "tun"
    <2>1. PICK x : x = sanitizeTunDNS(c)
        OBVIOUS
    <2>2. Plain(x) /\ Resolving(x)
        BY <2>1, Sanitized
    <2>3. s = [x EXCEPT !.rules = ensureTunHijack(x.rules)]
        BY <1>2, <2>1 DEF EnforceTun
    <2>4. IsConfig(x) /\ IsSeq(x.rules)
        BY <2>2 DEF Plain
    <2>5. /\ IsConfig(s) /\ s.outs = x.outs /\ s.dns = x.dns /\ s.resolver = x.resolver
          /\ s.client = x.client /\ s.rules = ensureTunHijack(x.rules)
        BY <2>3, <2>4, RulesChanged
    <2>6. IsSeq(s.rules)
        BY <2>4, <2>5, HijackSeq
    <2> QED
        BY <2>2, <2>5, <2>6, Carried
<1> QED
    BY <1>1, <1>2

LEMMA TunChecked ==
    ASSUME NEW c, Plain(c), Resolving(c), NEW s, s = CheckTun(c)
    PROVE  Plain(s) /\ Resolving(s)
<1>1. PICK v : v = (mode = "tun" => assertDNSRealUpstream(c))
    OBVIOUS
<1>2. s = [c EXCEPT !.ok = v]
    BY <1>1 DEF CheckTun
<1>3. IsConfig(c) /\ IsSeq(c.rules)
    BY DEF Plain
<1>4. /\ IsConfig(s) /\ s.outs = c.outs /\ s.dns = c.dns /\ s.resolver = c.resolver
      /\ s.client = c.client /\ s.rules = c.rules
    BY <1>2, <1>3, OkChanged
<1>5. IsSeq(s.rules)
    BY <1>3, <1>4
<1> QED
    BY <1>4, <1>5, Carried

(* DNS follows the routes: who dials by what.                               *)

LEMMA PinIs ==
    ASSUME NEW o, Kept(o)
    PROVE  /\ Kept(Pin(o)) /\ Pin(o).tag = o.tag /\ Pin(o).type = o.type
           /\ Pin(o).members = o.members
           /\ o.type \in Dials => Pin(o).resolver = Direct
<1>1. PICK p : p = [o EXCEPT !.resolver = Direct]
    OBVIOUS
<1>2. Pin(o) = IF IsGroup(o) \/ o.type = "block" THEN o ELSE p
    BY <1>1 DEF Pin
<1>3. /\ p = [tag |-> o.tag, type |-> o.type, members |-> o.members, host |-> o.host,
              resolver |-> Direct]
    BY <1>1 DEF Kept
<1>4. /\ p.tag = o.tag /\ p.type = o.type /\ p.members = o.members /\ p.host = o.host
      /\ p.resolver = Direct
    BY <1>3
<1>5. Kept(p)
    BY <1>3, <1>4 DEF Kept
<1>6. o.type \in Dials => ~IsGroup(o) /\ o.type # "block"
    BY DEF Dials, IsGroup
<1> QED
    BY <1>2, <1>4, <1>5, <1>6

Pinned(outs) == [i \in DOMAIN outs |-> Pin(outs[i])]

LEMMA PinnedIs ==
    ASSUME NEW outs, Laid(outs), HasProxy(outs)
    PROVE  /\ Laid(Pinned(outs)) /\ HasProxy(Pinned(outs))
           /\ \A o \in Elems(Pinned(outs)) : o.type \in Dials => o.resolver = Direct
<1>1. PICK n \in Nat : n = Len(outs) /\ DOMAIN outs = 1 .. n
    BY Positions DEF Laid
<1>2. PICK p : p = Pinned(outs)
    OBVIOUS
<1>3. IsSeq(p) /\ Len(p) = n
    <2>1. p = [i \in 1 .. n |-> p[i]]
        BY <1>1, <1>2 DEF Pinned
    <2> QED
        BY <2>1, Listing
<1>4. ASSUME NEW i \in 1 .. n
      PROVE  /\ Kept(p[i]) /\ p[i].tag = outs[i].tag
             /\ p[i].type \in Dials => p[i].resolver = Direct
    <2>1. p[i] = Pin(outs[i])
        BY <1>1, <1>2 DEF Pinned
    <2>2. Kept(outs[i])
        BY <1>1 DEF Laid, Elems
    <2>3. /\ Kept(Pin(outs[i])) /\ Pin(outs[i]).tag = outs[i].tag /\ Pin(outs[i]).type = outs[i].type
          /\ Pin(outs[i]).members = outs[i].members
          /\ outs[i].type \in Dials => Pin(outs[i]).resolver = Direct
        BY <2>2, PinIs
    <2> QED
        BY <2>1, <2>3
<1>5. Laid(p) /\ \A o \in Elems(p) : o.type \in Dials => o.resolver = Direct
    BY <1>3, <1>4 DEF Laid, Elems
<1>6. HasProxy(p)
    <2>1. PICK i \in 1 .. n : outs[i].tag = "proxy"
        BY <1>1 DEF HasProxy, Elems
    <2>2. p[i] \in Elems(p) /\ p[i].tag = "proxy"
        BY <1>3, <1>4, <2>1 DEF Elems
    <2> QED
        BY <2>2 DEF HasProxy
<1> QED
    BY <1>2, <1>5, <1>6

\* Everything that dials has this resolver.
Dialled(c, resolver) ==
    /\ \A o \in Elems(c.outs) : o.type \in Dials => o.resolver = resolver
    /\ c.client.declared => c.client.resolver = resolver

\* The reserved tag is a server, and dialled directly.
Reserves(block) == At(block, Direct) # {} /\ DetourOf(block, Direct) # "proxy"

\* The config after DNS follows the routes: what dials, and the fall back of
\* the boot without exits, ask nobody behind the proxy group.
Followed(c) ==
    /\ IsConfig(c)
    /\ Tagged(c.dns.servers)
    /\ Laid(c.outs) /\ HasProxy(c.outs)
    /\ \/ Dialled(c, Direct) /\ Reserves(c.dns)
       \/ Dialled(c, "") /\ DetourOf(c.dns, c.resolver) # "proxy"
    /\ c.dns.final = "" \/ DetourOf(c.dns, c.dns.final) = "proxy" =>
            DetourOf(c.dns, Direct) # "proxy"

\* The servers, with the reserved tag among them.
Reserving(block) ==
    IF At(block, Direct) # {} /\ DetourOf(block, Direct) # "proxy"
    THEN block.servers ELSE Append(Without(block.servers, Direct), DirectServer)

LEMMA ReservingIs ==
    ASSUME NEW a, Tagged(a.servers), NEW b, b.servers = Reserving(a)
    PROVE  Tagged(b.servers) /\ Reserves(b)
<1>1. CASE Reserves(a)
    <2>1. b.servers = a.servers
        BY <1>1 DEF Reserving, Reserves
    <2>2. At(a, Direct) = At(b, Direct) /\ DetourOf(a, Direct) = DetourOf(b, Direct)
        BY <2>1, SameServers
    <2> QED
        BY <1>1, <2>1, <2>2 DEF Reserves
<1>2. CASE ~Reserves(a)
    <2>1. PICK w : w = Without(a.servers, Direct)
        OBVIOUS
    <2>2. Tagged(w) /\ \A s \in Elems(w) : s.tag # Direct
        BY <2>1, WithoutIs
    <2>3. b.servers = Append(w, DirectServer)
        BY <1>2, <2>1 DEF Reserving, Reserves
    <2>4. /\ Tagged(b.servers) /\ At(b, Direct) # {} /\ DetourOf(b, Direct) # "proxy"
          /\ Elems(b.servers) = Elems(w) \cup {DirectServer}
        BY <2>2, <2>3, DirectAdded
    <2> QED
        BY <2>4 DEF Reserves
<1> QED
    BY <1>1, <1>2

\* injectDirectDNS acts on configs whose remote resolver is behind the group.
Splits(c) == DetourOf(c.dns, Remote(c)) = "proxy"
FollowingRules(c) == c.dns.rules \o Mirrored(c.rules, Remote(c))

LEMMA SplitIs ==
    ASSUME NEW c, IsConfig(c), dns.split, NEW x, x = injectDirectDNS(c, dns)
    PROVE  /\ ~Splits(c) => x = c
           /\ Splits(c) =>
                /\ IsConfig(x)
                /\ x.dns.servers = Reserving(c.dns) /\ x.dns.rules = FollowingRules(c)
                /\ x.dns.final = SplitFinal(c.rules, c.dns.final)
                /\ x.outs = Pinned(c.outs) /\ x.client = PinClient(c.client)
                /\ x.resolver = c.resolver /\ x.rules = c.rules
<1>1. PICK servers : servers = Reserving(c.dns)
    OBVIOUS
<1>2. PICK rules : rules = FollowingRules(c)
    OBVIOUS
<1>3. PICK last : last = SplitFinal(c.rules, c.dns.final)
    OBVIOUS
<1>4. PICK outs : outs = Pinned(c.outs)
    OBVIOUS
<1>5. PICK client : client = PinClient(c.client)
    OBVIOUS
<1>6. PICK b : b = [servers |-> servers, rules |-> rules, final |-> last]
    OBVIOUS
<1>7. PICK y : y = [c EXCEPT !.dns = b, !.outs = outs, !.client = client]
    OBVIOUS
<1>8. x = IF ~Splits(c) THEN c ELSE y
    BY <1>1, <1>2, <1>3, <1>4, <1>5, <1>6, <1>7
       DEF injectDirectDNS, Splits, Reserving, FollowingRules, Pinned
<1>9. c = [outs |-> c.outs, eps |-> c.eps, dns |-> c.dns, resolver |-> c.resolver,
           client |-> c.client, inbounds |-> c.inbounds, rules |-> c.rules, ok |-> c.ok]
    BY DEF IsConfig
<1>10. y = [outs |-> outs, eps |-> c.eps, dns |-> b, resolver |-> c.resolver,
            client |-> client, inbounds |-> c.inbounds, rules |-> c.rules, ok |-> c.ok]
    BY <1>7, <1>9
<1>11. /\ y.outs = outs /\ y.eps = c.eps /\ y.dns = b /\ y.resolver = c.resolver
       /\ y.client = client /\ y.inbounds = c.inbounds /\ y.rules = c.rules /\ y.ok = c.ok
    BY <1>10
<1>12. /\ b.servers = servers /\ b.rules = rules /\ b.final = last
       /\ b = [servers |-> b.servers, rules |-> b.rules, final |-> b.final]
    BY <1>6
<1>13. client = [declared |-> client.declared, resolver |-> client.resolver]
    <2>1. PICK k : k = c.client
        OBVIOUS
    <2>2. k = [declared |-> k.declared, resolver |-> k.resolver]
        BY <2>1 DEF IsConfig
    <2>3. PICK l : l = [k EXCEPT !.resolver = Direct]
        OBVIOUS
    <2>4. l = [declared |-> l.declared, resolver |-> l.resolver]
        BY <2>2, <2>3
    <2>5. client = IF k.declared THEN l ELSE k
        BY <1>5, <2>1, <2>3 DEF PinClient
    <2> QED
        BY <2>2, <2>4, <2>5
<1>14. IsConfig(y)
    BY <1>10, <1>11, <1>12, <1>13 DEF IsConfig
<1>15. CASE Splits(c)
    <2>1. x = y
        BY <1>8, <1>15
    <2>2. x.dns.servers = servers /\ x.dns.rules = rules /\ x.dns.final = last
        BY <1>11, <1>12, <2>1
    <2>3. x.outs = outs /\ x.client = client /\ x.resolver = c.resolver /\ x.rules = c.rules
        BY <1>11, <2>1
    <2> QED
        BY <1>1, <1>2, <1>3, <1>4, <1>5, <1>14, <1>15, <2>1, <2>2, <2>3
<1>16. CASE ~Splits(c)
    BY <1>8, <1>16
<1> QED
    BY <1>15, <1>16

LEMMA ClientPinned ==
    ASSUME NEW c, IsConfig(c)
    PROVE  PinClient(c.client).declared => PinClient(c.client).resolver = Direct
<1>1. PICK k : k = c.client
    OBVIOUS
<1>2. k = [declared |-> k.declared, resolver |-> k.resolver]
    BY <1>1 DEF IsConfig
<1>3. PICK l : l = [k EXCEPT !.resolver = Direct]
    OBVIOUS
<1>4. l.resolver = Direct
    BY <1>2, <1>3
<1>5. PinClient(k) = IF k.declared THEN l ELSE k
    BY <1>3 DEF PinClient
<1> QED
    BY <1>1, <1>4, <1>5

LEMMA DirectFollowed ==
    ASSUME NEW c, Plain(c), Resolving(c), dns.split, NEW x, x = injectDirectDNS(c, dns)
    PROVE  Followed(x)
<1>1. /\ ~Splits(c) => x = c
      /\ Splits(c) =>
            /\ IsConfig(x)
            /\ x.dns.servers = Reserving(c.dns) /\ x.dns.rules = FollowingRules(c)
            /\ x.dns.final = SplitFinal(c.rules, c.dns.final)
            /\ x.outs = Pinned(c.outs) /\ x.client = PinClient(c.client)
            /\ x.resolver = c.resolver /\ x.rules = c.rules
    BY SplitIs DEF Plain
<1>2. CASE Splits(c)
    <2>1. PICK a, b : a = c.dns /\ b = x.dns
        OBVIOUS
    <2>2. Tagged(a.servers) /\ b.servers = Reserving(a)
        BY <1>1, <1>2, <2>1 DEF Plain
    <2>3. Tagged(b.servers) /\ Reserves(b)
        BY <2>2, ReservingIs
    <2>4. /\ Laid(x.outs) /\ HasProxy(x.outs)
          /\ \A o \in Elems(x.outs) : o.type \in Dials => o.resolver = Direct
        <3>1. Laid(c.outs) /\ HasProxy(c.outs)
            BY DEF Plain
        <3> QED
            BY <1>1, <1>2, <3>1, PinnedIs
    <2>5. x.client.declared => x.client.resolver = Direct
        BY <1>1, <1>2, ClientPinned DEF Plain
    <2> QED
        BY <1>1, <1>2, <2>1, <2>3, <2>4, <2>5 DEF Followed, Dialled, Reserves
<1>3. CASE ~Splits(c)
    <2>1. x = c
        BY <1>1, <1>3
    <2>2. DetourOf(c.dns, Remote(c)) # "proxy"
        BY <1>3 DEF Splits
    <2>3. DetourOf(c.dns, c.resolver) # "proxy"
        <3>1. DetourOf(c.dns, "") = ""
            BY NobodyUntagged DEF Plain
        <3>2. c.resolver \in {"", Remote(c)}
            BY DEF Resolving
        <3> QED
            BY <2>2, <3>1, <3>2
    <2>4. DetourOf(c.dns, Direct) = "proxy" =>
                c.dns.final # "" /\ DetourOf(c.dns, c.dns.final) # "proxy"
        BY <2>2 DEF Resolving
    <2> QED
        BY <2>1, <2>3, <2>4 DEF Followed, Dialled, Plain
<1> QED
    BY <1>2, <1>3

(* The boot without exits.                                                  *)

Heals(c) ==
    /\ dns.split /\ proxyHasOnlyDirect(c.outs) /\ c.dns.servers # <<>>
    /\ c.dns.final = "" \/ DetourOf(c.dns, c.dns.final) = "proxy"
HealedServers(block) ==
    IF At(block, Direct) = {} THEN Append(block.servers, DirectServer) ELSE block.servers

HealedBlock(block) == [block EXCEPT !.servers = HealedServers(block), !.final = Direct]

LEMMA HealSame ==
    ASSUME NEW c
    PROVE  /\ Heals(c) => healBootstrapDNS(c, dns) =
                [c EXCEPT !.dns = HealedBlock(c.dns), !.resolver = Direct]
           /\ ~Heals(c) => healBootstrapDNS(c, dns) = c
<1>1. healBootstrapDNS(c, dns) =
        IF \/ ~dns.split
           \/ ~proxyHasOnlyDirect(c.outs)
           \/ c.dns.servers = <<>>
           \/ c.dns.final # "" /\ DetourOf(c.dns, c.dns.final) # "proxy"
        THEN c ELSE [c EXCEPT !.dns = HealedBlock(c.dns), !.resolver = Direct]
    BY DEF healBootstrapDNS, HealedBlock, HealedServers
<1>2. ~Heals(c) <=>
           \/ ~dns.split
           \/ ~proxyHasOnlyDirect(c.outs)
           \/ c.dns.servers = <<>>
           \/ c.dns.final # "" /\ DetourOf(c.dns, c.dns.final) # "proxy"
    BY DEF Heals
<1> QED
    BY <1>1, <1>2

LEMMA HealIs ==
    ASSUME NEW c, IsConfig(c), NEW x, x = healBootstrapDNS(c, dns)
    PROVE  /\ ~Heals(c) => x = c
           /\ Heals(c) =>
                /\ IsConfig(x)
                /\ x.dns.servers = HealedServers(c.dns) /\ x.dns.rules = c.dns.rules
                /\ x.dns.final = Direct /\ x.resolver = Direct
                /\ x.outs = c.outs /\ x.client = c.client /\ x.rules = c.rules
<1>1. PICK d : d = c.dns
    OBVIOUS
<1>2. PICK servers : servers = HealedServers(d)
    OBVIOUS
<1>3. PICK e : e = [d EXCEPT !.servers = servers, !.final = Direct]
    OBVIOUS
<1>4. PICK y : y = [c EXCEPT !.dns = e, !.resolver = Direct]
    OBVIOUS
<1>5. c = [outs |-> c.outs, eps |-> c.eps, dns |-> d, resolver |-> c.resolver,
           client |-> c.client, inbounds |-> c.inbounds, rules |-> c.rules, ok |-> c.ok]
    BY <1>1 DEF IsConfig
<1>6. d = [servers |-> d.servers, rules |-> d.rules, final |-> d.final]
    BY <1>1 DEF IsConfig
<1>7. e = [servers |-> servers, rules |-> d.rules, final |-> Direct]
    BY <1>3, <1>6
<1>8. /\ e.servers = servers /\ e.rules = d.rules /\ e.final = Direct
      /\ e = [servers |-> e.servers, rules |-> e.rules, final |-> e.final]
    BY <1>7
<1>9. /\ y = [outs |-> c.outs, eps |-> c.eps, dns |-> e, resolver |-> Direct,
              client |-> c.client, inbounds |-> c.inbounds, rules |-> c.rules, ok |-> c.ok]
      /\ x = IF Heals(c) THEN y ELSE c
    <2>1. x = IF Heals(c) THEN y ELSE c
        <3>1. e = HealedBlock(c.dns)
            BY <1>1, <1>2, <1>3 DEF HealedBlock
        <3> QED
            BY <1>4, <3>1, HealSame
    <2> QED
        BY <1>4, <1>5, <2>1
<1>10. /\ y.outs = c.outs /\ y.eps = c.eps /\ y.dns = e /\ y.resolver = Direct
       /\ y.client = c.client /\ y.inbounds = c.inbounds /\ y.rules = c.rules /\ y.ok = c.ok
    BY <1>9
<1>11. c.client = [declared |-> c.client.declared, resolver |-> c.client.resolver]
    BY DEF IsConfig
<1>12. IsConfig(y)
    BY <1>8, <1>9, <1>10, <1>11 DEF IsConfig
<1>13. CASE Heals(c)
    <2>1. x = y
        BY <1>9, <1>13
    <2>2. x.dns.servers = servers /\ x.dns.rules = d.rules /\ x.dns.final = Direct
        BY <1>8, <1>10, <2>1
    <2> QED
        BY <1>1, <1>2, <1>10, <1>12, <1>13, <2>1, <2>2
<1>14. CASE ~Heals(c)
    BY <1>9, <1>14
<1> QED
    BY <1>13, <1>14

\* The servers healed.
LEMMA HealedServersIs ==
    ASSUME NEW a, Tagged(a.servers), DetourOf(a, Direct) # "proxy",
           NEW b, b.servers = HealedServers(a)
    PROVE  Tagged(b.servers) /\ Reserves(b)
<1>1. CASE At(a, Direct) = {}
    <2>1. b.servers = Append(a.servers, DirectServer)
        BY <1>1 DEF HealedServers
    <2>2. \A s \in Elems(a.servers) : s.tag # Direct
        BY <1>1, Positions DEF At, Elems, Tagged
    <2>3. /\ Tagged(b.servers) /\ At(b, Direct) # {} /\ DetourOf(b, Direct) # "proxy"
          /\ Elems(b.servers) = Elems(a.servers) \cup {DirectServer}
        BY <2>1, <2>2, DirectAdded
    <2> QED
        BY <2>3 DEF Reserves
<1>2. CASE At(a, Direct) # {}
    <2>1. b.servers = a.servers
        BY <1>2 DEF HealedServers
    <2>2. At(a, Direct) = At(b, Direct) /\ DetourOf(a, Direct) = DetourOf(b, Direct)
        BY <2>1, SameServers
    <2> QED
        BY <1>2, <2>1, <2>2 DEF Reserves
<1> QED
    BY <1>1, <1>2

\* The config after the boot is healed.
Reaches(c) ==
    /\ IsConfig(c) /\ Laid(c.outs) /\ HasProxy(c.outs)
    /\ \A o \in Elems(c.outs) : o.type \in Dials => ~Behind(c, o.resolver)
    /\ c.client.declared => ~Behind(c, c.client.resolver)
    /\ proxyHasOnlyDirect(c.outs) => DetourOf(c.dns, c.dns.final) # "proxy"

LEMMA DialledReach ==
    ASSUME NEW c, NEW r, Dialled(c, r), ~Behind(c, r)
    PROVE  /\ \A o \in Elems(c.outs) : o.type \in Dials => ~Behind(c, o.resolver)
           /\ c.client.declared => ~Behind(c, c.client.resolver)
BY DEF Dialled

LEMMA HealedReaches ==
    ASSUME NEW c, Followed(c), dns.split, NEW x, x = healBootstrapDNS(c, dns)
    PROVE  Reaches(x)
<1>1. /\ ~Heals(c) => x = c
      /\ Heals(c) =>
            /\ IsConfig(x)
            /\ x.dns.servers = HealedServers(c.dns) /\ x.dns.rules = c.dns.rules
            /\ x.dns.final = Direct /\ x.resolver = Direct
            /\ x.outs = c.outs /\ x.client = c.client /\ x.rules = c.rules
    <2>1. IsConfig(c)
        BY DEF Followed
    <2> QED
        BY <2>1, HealIs
<1>2. Direct # ""
    BY DEF Direct
<1>3. CASE Heals(c)
    <2>1. PICK a, b : a = c.dns /\ b = x.dns
        OBVIOUS
    <2>2. DetourOf(a, Direct) # "proxy"
        BY <1>3, <2>1 DEF Heals, Followed
    <2>3. Tagged(a.servers) /\ b.servers = HealedServers(a)
        BY <1>1, <1>3, <2>1 DEF Followed
    <2>4. Tagged(b.servers) /\ Reserves(b)
        BY <2>2, <2>3, HealedServersIs
    <2>5. ~Behind(x, "") /\ ~Behind(x, Direct)
        BY <1>1, <1>2, <1>3, <2>1, <2>4 DEF Behind, Reserves
    <2>6. Dialled(x, Direct) \/ Dialled(x, "")
        BY <1>1, <1>3 DEF Followed, Dialled
    <2>7. /\ \A o \in Elems(x.outs) : o.type \in Dials => ~Behind(x, o.resolver)
          /\ x.client.declared => ~Behind(x, x.client.resolver)
        BY <2>5, <2>6, DialledReach
    <2>8. DetourOf(x.dns, x.dns.final) # "proxy"
        BY <1>1, <1>3, <2>1, <2>4 DEF Reserves
    <2>9. IsConfig(x) /\ Laid(x.outs) /\ HasProxy(x.outs)
        BY <1>1, <1>3 DEF Followed
    <2> QED
        BY <2>7, <2>8, <2>9 DEF Reaches
<1>4. CASE ~Heals(c)
    <2>1. x = c
        BY <1>1, <1>4
    <2>2. \/ Dialled(c, Direct) /\ ~Behind(c, Direct)
          \/ Dialled(c, "") /\ ~Behind(c, "")
        BY <1>2 DEF Followed, Behind, Reserves
    <2>3. /\ \A o \in Elems(c.outs) : o.type \in Dials => ~Behind(c, o.resolver)
          /\ c.client.declared => ~Behind(c, c.client.resolver)
        BY <2>2, DialledReach
    <2>4. proxyHasOnlyDirect(c.outs) => DetourOf(c.dns, c.dns.final) # "proxy"
        <3>1. CASE c.dns.servers = <<>>
            <4>1. At(c.dns, c.dns.final) = {}
                BY <3>1 DEF At
            <4> QED
                BY <4>1 DEF DetourOf
        <3>2. CASE c.dns.servers # <<>>
            BY <1>4, <3>2 DEF Heals
        <3> QED
            BY <3>1, <3>2
    <2> QED
        BY <2>1, <2>3, <2>4 DEF Reaches, Followed
<1> QED
    BY <1>3, <1>4

(* The checks, and the config as it is written.                             *)

Ended(c) == CheckReferences(RepairGroups(CheckSplit(c)))

LEMMA OutsChanged ==
    ASSUME NEW c, IsConfig(c), NEW v, NEW s, s = [c EXCEPT !.outs = v]
    PROVE  /\ IsConfig(s) /\ s.outs = v /\ s.dns = c.dns /\ s.resolver = c.resolver
           /\ s.client = c.client /\ s.rules = c.rules
<1>1. s = [outs |-> v, eps |-> c.eps, dns |-> c.dns, resolver |-> c.resolver,
           client |-> c.client, inbounds |-> c.inbounds, rules |-> c.rules, ok |-> c.ok]
    BY DEF IsConfig
<1>2. /\ s.outs = v /\ s.eps = c.eps /\ s.dns = c.dns /\ s.resolver = c.resolver
      /\ s.client = c.client /\ s.inbounds = c.inbounds /\ s.rules = c.rules /\ s.ok = c.ok
    BY <1>1
<1> QED
    BY <1>1, <1>2 DEF IsConfig

LEMMA EndedIs ==
    ASSUME NEW c, IsConfig(c), NEW e, e = Ended(c)
    PROVE  /\ e.outs = repairProxyGroupLoopbacks(c.outs, loopbackTags(Eligible))
           /\ e.dns = c.dns /\ e.resolver = c.resolver /\ e.client = c.client /\ e.rules = c.rules
<1>1. PICK s : s = CheckSplit(c)
    OBVIOUS
<1>2. /\ IsConfig(s) /\ s.outs = c.outs /\ s.dns = c.dns /\ s.resolver = c.resolver
      /\ s.client = c.client /\ s.rules = c.rules
    <2>1. PICK v : v = (c.ok /\ assertDirectResolverSplit(c, dns))
        OBVIOUS
    <2>2. s = [c EXCEPT !.ok = v]
        BY <1>1, <2>1 DEF CheckSplit
    <2> QED
        BY <2>2, OkChanged
<1>3. PICK g : g = RepairGroups(s)
    OBVIOUS
<1>4. /\ IsConfig(g) /\ g.outs = repairProxyGroupLoopbacks(s.outs, loopbackTags(Eligible))
      /\ g.dns = s.dns /\ g.resolver = s.resolver /\ g.client = s.client /\ g.rules = s.rules
    <2>1. PICK v : v = repairProxyGroupLoopbacks(s.outs, loopbackTags(Eligible))
        OBVIOUS
    <2>2. g = [s EXCEPT !.outs = v]
        BY <1>3, <2>1 DEF RepairGroups
    <2>3. /\ IsConfig(g) /\ g.outs = v /\ g.dns = s.dns /\ g.resolver = s.resolver
          /\ g.client = s.client /\ g.rules = s.rules
        BY <1>2, <2>2, OutsChanged
    <2> QED
        BY <2>1, <2>3
<1>5. /\ e.outs = g.outs /\ e.dns = g.dns /\ e.resolver = g.resolver /\ e.client = g.client
      /\ e.rules = g.rules
    <2>1. PICK v : v = (g.ok /\ assertResolverReferences(g) /\ assertRuleSetReferences(g))
        OBVIOUS
    <2>2. e = [g EXCEPT !.ok = v]
        BY <1>1, <1>3, <2>1 DEF Ended, CheckReferences
    <2>3. IsConfig(g)
        BY <1>4
    <2>4. /\ IsConfig(e) /\ e.outs = g.outs /\ e.dns = g.dns /\ e.resolver = g.resolver
          /\ e.client = g.client /\ e.rules = g.rules
        BY <2>2, <2>3, OkChanged
    <2> QED
        BY <2>4
<1>6. PICK outs : outs = s.outs /\ outs = c.outs
    BY <1>2
<1>7. repairProxyGroupLoopbacks(s.outs, loopbackTags(Eligible))
        = repairProxyGroupLoopbacks(c.outs, loopbackTags(Eligible))
    BY <1>6
<1> QED
    BY <1>2, <1>4, <1>5, <1>7

\* The groups are repaired last; nothing is behind the proxy group for that.
LEMMA ReachableEnd ==
    ASSUME NEW c, Reaches(c), NEW e, e = Ended(c)
    PROVE  Reachable(e)
<1>1. PICK loopback : loopback = loopbackTags(Eligible)
    OBVIOUS
<1>2. /\ e.outs = repairProxyGroupLoopbacks(c.outs, loopback)
      /\ e.dns = c.dns /\ e.resolver = c.resolver /\ e.client = c.client
    <2>1. IsConfig(c)
        BY DEF Reaches
    <2>2. /\ e.outs = repairProxyGroupLoopbacks(c.outs, loopbackTags(Eligible))
          /\ e.dns = c.dns /\ e.resolver = c.resolver /\ e.client = c.client /\ e.rules = c.rules
        BY <2>1, EndedIs
    <2> QED
        BY <1>1, <2>2
<1>3. PICK s, t : s = c.outs /\ t = e.outs
    OBVIOUS
<1>4. Laid(s) /\ HasProxy(s)
    BY <1>3 DEF Reaches
<1>5. IsSeq(t) /\ Spared(s, t)
    <2>1. /\ IsSeq(repairProxyGroupLoopbacks(s, loopback))
          /\ Spared(s, repairProxyGroupLoopbacks(s, loopback))
        BY <1>4, RepairSpares
    <2>2. t = repairProxyGroupLoopbacks(s, loopback)
        BY <1>2, <1>3
    <2> QED
        BY <2>1, <2>2
<1>6. \A r : Behind(e, r) <=> Behind(c, r)
    BY <1>2 DEF Behind
<1>7. ASSUME NEW o \in Elems(t), o.type \in Dials PROVE ~Behind(e, o.resolver)
    <2>1. PICK x \in Elems(s) : x.type = o.type /\ x.resolver = o.resolver
        BY <1>5, <1>7 DEF Spared
    <2>2. ~Behind(c, x.resolver)
        BY <1>3, <1>7, <2>1 DEF Reaches
    <2> QED
        BY <1>6, <2>1, <2>2
<1>8. \A i \in DOMAIN t : t[i].type \in {"direct", "node"} => ~Behind(e, t[i].resolver)
    BY <1>5, <1>7, Positions DEF Elems, Dials
<1>9. e.client.declared => ~Behind(e, e.client.resolver)
    BY <1>2, <1>6 DEF Reaches
<1>10. proxyHasOnlyDirect(t) => DetourOf(e.dns, e.dns.final) # "proxy"
    <2>1. ASSUME proxyHasOnlyDirect(t) PROVE DetourOf(c.dns, c.dns.final) # "proxy"
        <3>1. IsSeq(s)
            BY <1>4 DEF Laid
        <3>2. proxyHasOnlyDirect(s)
            BY <1>5, <2>1, <3>1, RepairAddsNoExit
        <3> QED
            BY <1>3, <3>2 DEF Reaches
    <2> QED
        BY <1>2, <2>1
<1> QED
    BY <1>3, <1>8, <1>9, <1>10 DEF Reachable

-----------------------------------------------------------------------------
\* What is always true of the settings.
GenInv ==
    /\ SoundDNS
    /\ IsSeq(nodes) /\ IsSeq(exits) /\ IsSeq(endpoints)
    /\ Settled(groups)
    /\ IsSeq(cr) /\ IsSeq(base.rules)

\* The config up to the check of the tunnel, and after DNS follows the routes.
Prepared(eps) ==
    CheckTun(EnforceTun(applyMode(
        Injected(injectOutbounds(Eligible, eps, groups), eps, injectDNS(dns)))))
Steered(eps) == injectDirectDNS(Prepared(eps), dns)

LEMMA EligibleSeq ==
    ASSUME GenInv
    PROVE  IsSeq(Eligible)
<1>1. IsSeq(nodes) /\ IsSeq(exits)
    BY DEF GenInv
<1>2. IsSeq(nodes \o exits)
    BY <1>1, Joined
<1> QED
    BY <1>2, NodesEligible DEF Eligible

LEMMA PreparedPlain ==
    ASSUME GenInv, NEW eps, IsSeq(eps)
    PROVE  Plain(Prepared(eps)) /\ Resolving(Prepared(eps))
<1>1. PICK outs : outs = injectOutbounds(Eligible, eps, groups)
    OBVIOUS
<1>2. Outs(outs) /\ HasProxy(outs)
    <2>1. PICK list, pg : list = Eligible /\ pg = groups
        OBVIOUS
    <2>2. IsSeq(list) /\ Settled(pg)
        BY <2>1, EligibleSeq DEF GenInv
    <2>3. Outs(injectOutbounds(list, eps, pg)) /\ HasProxy(injectOutbounds(list, eps, pg))
        BY <2>2, OutsMade
    <2> QED
        BY <1>1, <2>1, <2>3
<1>3. SoundDNS /\ IsSeq(Merged)
    <2>1. IsSeq(base.rules) /\ IsSeq(cr)
        BY DEF GenInv
    <2> QED
        BY <2>1, MergedSeq DEF GenInv
<1>4. PICK a : a = Injected(outs, eps, injectDNS(dns))
    OBVIOUS
<1>5. Plain(a) /\ Resolving(a)
    BY <1>2, <1>3, <1>4, InjectedPlain
<1>6. PICK b : b = applyMode(a)
    OBVIOUS
<1>7. Plain(b) /\ Resolving(b)
    BY <1>5, <1>6, ModeApplied
<1>8. PICK c : c = EnforceTun(b)
    OBVIOUS
<1>9. Plain(c) /\ Resolving(c)
    BY <1>7, <1>8, TunEnforced
<1>10. PICK d : d = CheckTun(c)
    OBVIOUS
<1>11. Plain(d) /\ Resolving(d)
    BY <1>9, <1>10, TunChecked
<1>12. Prepared(eps) = d
    BY <1>1, <1>4, <1>6, <1>8, <1>10 DEF Prepared
<1> QED
    BY <1>11, <1>12

LEMMA ConfigIs ==
    Config = Ended(healBootstrapDNS(Steered(injectEndpoints(endpoints)), dns))
BY DEF Config, WithEndpoints, applyInvariants, Ended, Steered, Prepared

\* Every server can be found.
LEMMA SettingsReach ==
    ASSUME GenInv
    PROVE  ResolversAreReachable
<1>1. ASSUME dns.split PROVE Reachable(Config)
    <2>1. PICK eps : eps = injectEndpoints(endpoints)
        OBVIOUS
    <2>2. IsSeq(eps)
        BY <2>1, EndpointsMade DEF GenInv
    <2>3. PICK c : c = Prepared(eps)
        OBVIOUS
    <2>4. Plain(c) /\ Resolving(c)
        BY <2>2, <2>3, PreparedPlain
    <2>5. PICK x : x = injectDirectDNS(c, dns)
        OBVIOUS
    <2>6. Followed(x)
        BY <1>1, <2>4, <2>5, DirectFollowed
    <2>7. PICK h : h = healBootstrapDNS(x, dns)
        OBVIOUS
    <2>8. Reaches(h)
        BY <1>1, <2>6, <2>7, HealedReaches
    <2>9. PICK e : e = Ended(h)
        OBVIOUS
    <2>10. Reachable(e)
        BY <2>8, <2>9, ReachableEnd
    <2>11. Config = e
        BY <2>1, <2>3, <2>5, <2>7, <2>9, ConfigIs DEF Steered
    <2> QED
        BY <2>10, <2>11
<1> QED
    BY <1>1 DEF ResolversAreReachable

(* The settings.                                                            *)

LEMMA ServerIs ==
    ASSUME NEW tag \in ServerTag, NEW type \in {"local", "real"}, NEW detour \in {"", "proxy"}
    PROVE  Server(tag, type, detour) \in ServerType /\ Server(tag, type, detour).tag = tag
BY DEF Server, ServerType

LEMMA BlockIs ==
    ASSUME NEW A, NEW B, NEW C, NEW D, NEW s \in A, NEW r \in B, NEW last \in C, NEW split \in D
    PROVE  [servers |-> s, rules |-> r, final |-> last, split |-> split]
                \in [servers : A, rules : B, final : C, split : D]
OBVIOUS

\* What may be saved or loaded.
LEMMA DefaultsSound == Defaults \in DNSType /\ Sound(Defaults)
<1>1. PICK a, b, c : /\ a = Server("local", "local", "") /\ b = Server("ali", "real", "")
                     /\ c = Server("doh", "real", "proxy")
    OBVIOUS
<1>2. PICK d : d = Defaults
    OBVIOUS
<1>3. d = [servers |-> <<a, b, c>>, rules |-> <<>>, final |-> "ali", split |-> TRUE]
    BY <1>1, <1>2 DEF Defaults
<1>4. /\ a \in ServerType /\ b \in ServerType /\ c \in ServerType
      /\ a.tag = "local" /\ b.tag = "ali" /\ c.tag = "doh"
    <2>a. "local" \in ServerTag /\ "ali" \in ServerTag /\ "doh" \in ServerTag
        BY DEF ServerTag
    <2>d. /\ "local" \in {"local", "real"} /\ "real" \in {"local", "real"}
          /\ "" \in {"", "proxy"} /\ "proxy" \in {"", "proxy"}
        OBVIOUS
    <2>1. /\ Server("local", "local", "") \in ServerType
          /\ Server("local", "local", "").tag = "local"
        BY <2>a, <2>d, ServerIs
    <2>2. Server("ali", "real", "") \in ServerType /\ Server("ali", "real", "").tag = "ali"
        BY <2>a, <2>d, ServerIs
    <2>3. /\ Server("doh", "real", "proxy") \in ServerType
          /\ Server("doh", "real", "proxy").tag = "doh"
        BY <2>a, <2>d, ServerIs
    <2> QED
        BY <1>1, <2>1, <2>2, <2>3
<1>5. PICK s : s = <<a, b, c>>
    OBVIOUS
<1>6. s \in Seq(ServerType) /\ DOMAIN s = 1 .. 3
    BY <1>4, <1>5
<1>7. \A i \in 1 .. 3 : s[i].tag \in {"local", "ali", "doh"}
    <2>1. s[1] = a /\ s[2] = b /\ s[3] = c
        BY <1>5
    <2>2. \A i \in 1 .. 3 : i = 1 \/ i = 2 \/ i = 3
        OBVIOUS
    <2> QED
        BY <1>4, <2>1, <2>2
<1>8. d.servers = s /\ d.rules = <<>> /\ d.final = "ali" /\ d.split = TRUE
    BY <1>3, <1>5
<1>9. <<>> \in Seq([of : SUBSET Entry, server : ServerTag])
    OBVIOUS
<1>10. d \in DNSType
    <2>1. PICK r : r = <<>> /\ r \in Seq([of : SUBSET Entry, server : ServerTag])
        BY <1>9
    <2>2. d = [servers |-> s, rules |-> r, final |-> "ali", split |-> TRUE]
        BY <1>3, <1>5, <2>1
    <2>3. [servers |-> s, rules |-> r, final |-> "ali", split |-> TRUE]
            \in [servers : Seq(ServerType), rules : Seq([of : SUBSET Entry, server : ServerTag]),
                 final : ServerTag, split : BOOLEAN]
        <3>1. "ali" \in ServerTag
            BY DEF ServerTag
        <3>2. TRUE \in BOOLEAN
            OBVIOUS
        <3> QED
            BY <1>6, <2>1, <3>1, <3>2, BlockIs
    <2> QED
        BY <2>2, <2>3 DEF DNSType
<1>11. Sound(d)
    <2>1. At(d, Direct) = {}
        BY <1>6, <1>7, <1>8 DEF At, Direct
    <2>2. DetourOf(d, Direct) = ""
        BY <2>1 DEF DetourOf
    <2>3. \A i \in DOMAIN d.servers : d.servers[i].tag # ""
        BY <1>6, <1>7, <1>8
    <2> QED
        BY <2>2, <2>3 DEF Sound
<1> QED
    BY <1>2, <1>10, <1>11

LEMMA ValidSound ==
    ASSUME NEW d, validate(d)
    PROVE  Sound(d)
<1>1. PICK tags : tags = {d.servers[i].tag : i \in DOMAIN d.servers}
    OBVIOUS
<1>2. Direct \notin tags /\ "" \notin tags
    BY <1>1 DEF validate
<1>3. \A i \in DOMAIN d.servers : d.servers[i].tag # "" /\ d.servers[i].tag # Direct
    BY <1>1, <1>2
<1>4. At(d, Direct) = {}
    BY <1>3 DEF At
<1>5. DetourOf(d, Direct) = ""
    BY <1>4 DEF DetourOf
<1> QED
    BY <1>3, <1>5 DEF Sound

LEMMA GroupsSettled ==
    ASSUME NEW pg \in GroupConfigs \cup GroupFiles
    PROVE  Settled(pg) /\ Settled(SanitizedGroups(pg))
<1>1. PICK g : g = pg.groups
    OBVIOUS
<1>2. g \in Seq(UserGroup)
    BY <1>1, ResolversAssumption
<1>3. \A u \in UserGroup : Readable(u)
    <2>1. ASSUME NEW u \in UserGroup PROVE Readable(u)
        <3>1. /\ u.filter \in {"country", "regex", "manual"}
              /\ u.filter = "manual" => u.value \in Seq(STRING)
            BY ResolversAssumption
        <3> QED
            BY <3>1 DEF Readable, IsSeq
    <2> QED
        BY <2>1
<1>4. IsSeq(g) /\ \A i \in DOMAIN g : Readable(g[i])
    <2>1. ASSUME NEW i \in DOMAIN g PROVE Readable(g[i])
        <3>1. g[i] \in UserGroup
            BY <1>2, MemberOf
        <3> QED
            BY <1>3, <3>1
    <2> QED
        BY <1>2, <2>1 DEF IsSeq
<1>5. Settled(pg)
    BY <1>1, <1>4 DEF Settled
<1>6. PICK valid : valid = {i \in DOMAIN pg.groups : validateGroup(pg.groups[i])}
    OBVIOUS
<1>7. PICK kept : kept = {i \in valid : \A j \in valid : j < i => pg.groups[j].name # pg.groups[i].name}
    OBVIOUS
<1>8. kept \subseteq DOMAIN g
    BY <1>1, <1>6, <1>7
<1>9. PICK o : o = Only(g, kept)
    OBVIOUS
<1>10. IsSeq(o) /\ \A i \in DOMAIN o : Readable(o[i])
    <2>1. /\ IsSeq(Only(g, kept)) /\ Len(Only(g, kept)) = Cardinality(kept)
          /\ \A k \in 1 .. Cardinality(kept) :
                \E i \in kept : Rank(kept, i) = k /\ Only(g, kept)[k] = g[i]
        BY <1>4, <1>8, OnlyIs
    <2>2. /\ IsSeq(o) /\ Len(o) = Cardinality(kept)
          /\ \A k \in 1 .. Cardinality(kept) : \E i \in kept : o[k] = g[i]
        BY <1>9, <2>1
    <2>3. DOMAIN o = 1 .. Cardinality(kept)
        BY <2>2, Positions
    <2> QED
        BY <1>4, <1>8, <2>2, <2>3
<1>11. PICK f : f = IF validateFailover(pg.failover) THEN pg.failover ELSE [interval |-> 0, idle |-> 0]
    OBVIOUS
<1>12. SanitizedGroups(pg) = [pg EXCEPT !.groups = o, !.failover = f]
    BY <1>1, <1>6, <1>7, <1>9, <1>11 DEF SanitizedGroups
<1>13. PICK s : s = [pg EXCEPT !.groups = o, !.failover = f]
    OBVIOUS
<1>14. s.groups = o
    <2>1. PICK a, x, l : pg = [autoCountry |-> a, exclude |-> x, groups |-> g, failover |-> l]
        BY <1>1, ResolversAssumption
    <2>2. s = [autoCountry |-> a, exclude |-> x, groups |-> o, failover |-> f]
        BY <1>13, <2>1
    <2> QED
        BY <2>2
<1>15. Settled(s)
    BY <1>10, <1>14 DEF Settled
<1> QED
    BY <1>5, <1>12, <1>13, <1>15

\* The settings at boot.
LEMMA GenInvInit ==
    ASSUME GenInit
    PROVE  GenInv
<1>1. SoundDNS
    <2>1. PICK f \in DNSFiles : dns = LoadedDNS(f)
        BY DEF GenInit
    <2>2. f \in DNSType /\ Sound(f)
        BY ResolversAssumption, DNSFilesAssumption
    <2>3. dns = f \/ dns = Defaults
        BY <2>1 DEF LoadedDNS
    <2> QED
        BY <2>2, <2>3, DefaultsSound DEF SoundDNS
<1>2. IsSeq(<<>>)
    BY NoRules
<1>3. IsSeq(nodes) /\ IsSeq(exits) /\ IsSeq(endpoints)
    BY <1>2 DEF GenInit
<1>4. Settled(groups)
    BY GroupsSettled DEF GenInit
<1>5. IsSeq(cr)
    <2>1. cr = <<>>
        BY DEF GenInit, Init, Fresh
    <2> QED
        BY <1>2, <2>1
<1>6. IsSeq(base.rules)
    <2>1. base \in Bases
        BY DEF GenInit, Init
    <2>2. base.rules \in Seq(BaseRule)
        BY <2>1, RouteLayersAssumption
    <2> QED
        BY <2>2 DEF IsSeq
<1> QED
    BY <1>1, <1>3, <1>4, <1>5, <1>6 DEF GenInv

\* A policy setter leaves the settings alone, and the custom rules a list.
LEMMA PolicyStep ==
    ASSUME GenInv, SetPolicy
    PROVE  GenInv'
<1>1. UNCHANGED settings
    BY DEF SetPolicy
<1>2. UNCHANGED <<nodes, exits, endpoints, groups, dns>>
    BY <1>1 DEF settings
<1>3. base' = base /\ (cr' = cr \/ cr' \in CustomLists)
    BY DEF SetPolicy, SetWhitelist, SetBlacklist, SetDirectList, SetCustomRules,
           SetRuleSets, SetFinal, SetPosture
<1>4. IsSeq(cr')
    <2>1. ASSUME NEW l \in CustomLists PROVE IsSeq(l)
        BY RouteLayersAssumption DEF IsSeq
    <2> QED
        BY <1>3, <2>1 DEF GenInv
<1>5. SoundDNS' /\ Settled(groups)'
    BY <1>2 DEF GenInv, SoundDNS
<1> QED
    BY <1>2, <1>3, <1>4, <1>5 DEF GenInv

\* One part of the settings.
Changed(part, value) == [Settings EXCEPT ![part] = value]
Fields(s, part, value) ==
    /\ s.nodes = IF part = "nodes" THEN value ELSE nodes
    /\ s.exits = IF part = "exits" THEN value ELSE exits
    /\ s.endpoints = IF part = "endpoints" THEN value ELSE endpoints
    /\ s.groups = IF part = "groups" THEN value ELSE groups
    /\ s.dns = IF part = "dns" THEN value ELSE dns

LEMMA PartChanged ==
    ASSUME NEW part, NEW value
    PROVE  Fields(Changed(part, value), part, value)
<1>a. PICK s : s = Changed(part, value)
    OBVIOUS
<1>1. PICK k : k = Settings
    OBVIOUS
<1>2. /\ k.nodes = nodes /\ k.exits = exits /\ k.endpoints = endpoints
      /\ k.groups = groups /\ k.dns = dns
    BY <1>1 DEF Settings
<1>3. PICK D : D = DOMAIN k
    OBVIOUS
<1>4. {"nodes", "exits", "endpoints", "groups", "dns"} \subseteq D
    BY <1>1, <1>3 DEF Settings
<1>5. s = [f \in D |-> IF f = part THEN value ELSE k[f]]
    BY <1>1, <1>3, <1>a DEF Changed
<1>6. /\ s["nodes"] = (IF part = "nodes" THEN value ELSE k["nodes"])
      /\ s["exits"] = (IF part = "exits" THEN value ELSE k["exits"])
      /\ s["endpoints"] = (IF part = "endpoints" THEN value ELSE k["endpoints"])
      /\ s["groups"] = (IF part = "groups" THEN value ELSE k["groups"])
      /\ s["dns"] = (IF part = "dns" THEN value ELSE k["dns"])
    BY <1>4, <1>5
<1>7. s.nodes = (IF part = "nodes" THEN value ELSE nodes)
    BY <1>2, <1>6
<1>8. s.exits = (IF part = "exits" THEN value ELSE exits)
    BY <1>2, <1>6
<1>9. s.endpoints = (IF part = "endpoints" THEN value ELSE endpoints)
    BY <1>2, <1>6
<1>10. s.groups = (IF part = "groups" THEN value ELSE groups)
    BY <1>2, <1>6
<1>11. s.dns = (IF part = "dns" THEN value ELSE dns)
    BY <1>2, <1>6
<1> QED
    BY <1>a, <1>7, <1>8, <1>9, <1>10, <1>11 DEF Fields

LEMMA ChangeStep ==
    ASSUME GenInv, NEW part, NEW value, Change(part, value),
           part \in {"nodes", "exits", "endpoints"} => IsSeq(value),
           part = "groups" => Settled(value),
           part = "dns" => value \in DNSType /\ Sound(value)
    PROVE  GenInv'
<1>1. PICK s : s = Changed(part, value)
    OBVIOUS
<1>2. /\ nodes' = s.nodes /\ exits' = s.exits /\ endpoints' = s.endpoints
      /\ groups' = s.groups /\ dns' = s.dns /\ UNCHANGED policy
    BY <1>1 DEF Change, Changed
<1>3. Fields(s, part, value)
    BY <1>1, PartChanged
<1>4. UNCHANGED <<cr, base>>
    BY <1>2 DEF policy
<1>5. IsSeq(nodes') /\ IsSeq(exits') /\ IsSeq(endpoints')
    BY <1>2, <1>3 DEF GenInv, Fields
<1>6. Settled(groups')
    BY <1>2, <1>3 DEF GenInv, Fields
<1>7. dns' \in DNSType /\ Sound(dns')
    BY <1>2, <1>3 DEF GenInv, SoundDNS, Fields
<1> QED
    BY <1>4, <1>5, <1>6, <1>7 DEF GenInv, SoundDNS

LEMMA GenInvNext ==
    ASSUME GenInv, [GenNext]_<<vars, settings>>
    PROVE  GenInv'
<1>1. CASE SetPolicy
    BY <1>1, PolicyStep
<1>2. CASE SetNodes
    <2>1. PICK list \in NodeLists : Change("nodes", list)
        BY <1>2 DEF SetNodes
    <2>2. IsSeq(list)
        BY ResolversAssumption DEF IsSeq
    <2> QED
        BY <2>1, <2>2, ChangeStep
<1>3. CASE SetGatewayExits
    <2>1. PICK list \in ExitLists : Change("exits", list)
        BY <1>3 DEF SetGatewayExits
    <2>2. IsSeq(list)
        BY ResolversAssumption DEF IsSeq
    <2> QED
        BY <2>1, <2>2, ChangeStep
<1>4. CASE SetDisabledNodes
    <2>1. PICK tags \in DisabledSets : Change("disabled", tags)
        BY <1>4 DEF SetDisabledNodes
    <2> QED
        BY <2>1, ChangeStep
<1>5. CASE SetEndpoints
    <2>1. PICK list \in EndpointLists : Change("endpoints", list)
        BY <1>5 DEF SetEndpoints
    <2>2. IsSeq(list)
        BY ResolversAssumption DEF IsSeq
    <2> QED
        BY <2>1, <2>2, ChangeStep
<1>6. CASE SetProxyGroups
    <2>1. PICK pg \in GroupConfigs : Change("groups", pg)
        BY <1>6 DEF SetProxyGroups
    <2>2. Settled(pg)
        BY GroupsSettled
    <2> QED
        BY <2>1, <2>2, ChangeStep
<1>7. CASE SetDNS
    <2>1. PICK d \in DNSConfigs : validate(d) /\ Change("dns", d)
        BY <1>7 DEF SetDNS
    <2>2. d \in DNSType /\ Sound(d)
        BY <2>1, ResolversAssumption, ValidSound
    <2> QED
        BY <2>1, <2>2, ChangeStep
<1>8. CASE SetCapture
    <2>1. PICK m \in {"manual", "tun"} : Change("mode", m)
        BY <1>8 DEF SetCapture
    <2> QED
        BY <2>1, ChangeStep
<1>9. CASE UNCHANGED <<vars, settings>>
    <2>1. UNCHANGED <<nodes, exits, endpoints, groups, dns, cr, base>>
        BY <1>9 DEF vars, settings
    <2> QED
        BY <2>1 DEF GenInv, SoundDNS
<1> QED
    BY <1>1, <1>2, <1>3, <1>4, <1>5, <1>6, <1>7, <1>8, <1>9 DEF GenNext

LEMMA SettingsHold == GenSpec => []GenInv
<1>1. GenInit => GenInv
    BY GenInvInit
<1>2. GenInv /\ [GenNext]_<<vars, settings>> => GenInv'
    BY GenInvNext
<1> QED
    BY <1>1, <1>2, PTL DEF GenSpec

\* Whatever is saved, and in whatever order, whoever dials a server by its host
\* name can find it without going through it (injectDirectDNS,
\* healBootstrapDNS).
THEOREM ServersAreFound == GenSpec => []ResolversAreReachable
BY SettingsHold, SettingsReach, PTL

(* Who answers for a name.                                                  *)

\* The operator's DNS rules say nothing of a name.
Unnamed(name) == \A i \in DOMAIN dns.rules : \A e \in dns.rules[i].of : name \notin Covers[e]

NameHits(rules, name) == {i \in DOMAIN rules : \E e \in rules[i].of : name \in Covers[e]}

LEMMA AnswerIs ==
    ASSUME NEW b, NEW name
    PROVE  /\ NameHits(b.rules, name) = {} => Answer(b, name) = b.final
           /\ NameHits(b.rules, name) # {} =>
                Answer(b, name) = b.rules[Least(NameHits(b.rules, name))].server
<1>1. PICK H : H = NameHits(b.rules, name)
    OBVIOUS
<1>2. H = {i \in DOMAIN b.rules : \E e \in b.rules[i].of : name \in Covers[e]}
    BY <1>1 DEF NameHits
<1>3. Answer(b, name) = IF H = {} THEN b.final ELSE b.rules[Least(H)].server
    BY <1>2 DEF Answer
<1> QED
    BY <1>1, <1>3

LEMMA OwnRulesMiss ==
    ASSUME NEW rules, OwnRules(rules), NEW name, Unnamed(name)
    PROVE  \A i \in 1 .. Len(rules) : \A e \in rules[i].of : name \notin Covers[e]
<1>1. ASSUME NEW i \in 1 .. Len(rules), NEW e \in rules[i].of PROVE name \notin Covers[e]
    <2>1. rules[i] \in Elems(rules)
        BY DEF Elems
    <2>2. PICK j \in DOMAIN dns.rules : rules[i].of \subseteq dns.rules[j].of
        BY <2>1 DEF OwnRules
    <2> QED
        BY <1>1, <2>2 DEF Unnamed
<1> QED
    BY <1>1

\* A rule that names the name, and the catch-all, match.
LEMMA NamedMatches ==
    ASSUME NEW rules, NEW i \in DOMAIN rules, NEW c, Named(rules[i], c.name)
    PROVE  i \in Matching(rules, c)
<1>1. PICK known : known <=> c.byAddr \/ \E j \in 1 .. i - 1 : rules[j].kind = "resolve"
    OBVIOUS
<1>2. Matches(rules[i], c, known)
    BY DEF Named, NameMatchers, Matches, HitsAny, Hits
<1> QED
    BY <1>1, <1>2 DEF Matching

LEMMA CatchAllMatches ==
    ASSUME NEW rules, NEW i \in DOMAIN rules, NEW c \in Conn, isCatchAllRule(rules[i])
    PROVE  i \in Matching(rules, c)
<1>1. c.net \in Everything
    BY RouteLayersAssumption
<1>2. \A known : Matches(rules[i], c, known)
    BY <1>1 DEF isCatchAllRule, Matches, Everything
<1> QED
    BY <1>2 DEF Matching

\* The mirrored rules stand where the routing rules do.
MirrorRule(r, remote) ==
    [of |-> NameMatchers(r), server |-> IF r.out = "direct" THEN Direct ELSE remote]
Routing(rules) == {i \in DOMAIN rules : Routes(rules[i])}

LEMMA MirrorRuleIs ==
    ASSUME NEW r, NEW remote
    PROVE  /\ MirrorRule(r, remote).of = NameMatchers(r)
           /\ r.out = "direct" => MirrorRule(r, remote).server = Direct
BY DEF MirrorRule

LEMMA MirroredIs ==
    ASSUME NEW rules, IsSeq(rules), NEW remote, NEW m, m = Mirrored(rules, remote),
           NEW S, S = Routing(rules)
    PROVE  /\ IsSeq(m) /\ S \subseteq 1 .. Len(rules)
           /\ \A i \in S : Rank(S, i) \in 1 .. Len(m) /\ m[Rank(S, i)] = MirrorRule(rules[i], remote)
           /\ \A k \in 1 .. Len(m) : \E i \in S : Rank(S, i) = k
           /\ \A i, j \in S : i < j => Rank(S, i) < Rank(S, j)
<1>1. S \subseteq DOMAIN rules
    BY DEF Routing
<1>2. PICK o : o = Only(rules, S)
    OBVIOUS
<1>3. PICK n : n = Cardinality(S)
    OBVIOUS
<1>4. /\ IsSeq(o) /\ Len(o) = n
      /\ \A i \in S : Rank(S, i) \in 1 .. n /\ o[Rank(S, i)] = rules[i]
      /\ \A k \in 1 .. n : \E i \in S : Rank(S, i) = k
      /\ \A i, j \in S : i < j => Rank(S, i) < Rank(S, j)
    <2>1. /\ IsSeq(Only(rules, S)) /\ Len(Only(rules, S)) = Cardinality(S)
          /\ \A i \in S : Rank(S, i) \in 1 .. Cardinality(S) /\ Only(rules, S)[Rank(S, i)] = rules[i]
          /\ \A k \in 1 .. Cardinality(S) : \E i \in S : Rank(S, i) = k /\ Only(rules, S)[k] = rules[i]
          /\ \A i, j \in S : i < j => Rank(S, i) < Rank(S, j)
        BY <1>1, OnlyIs
    <2> QED
        BY <1>2, <1>3, <2>1
<1>5. n \in Nat /\ DOMAIN o = 1 .. n
    BY <1>4, Positions
<1>6. m = [i \in DOMAIN o |-> MirrorRule(o[i], remote)]
    BY <1>2 DEF Mirrored, MirrorRule, Routing
<1>7. IsSeq(m) /\ Len(m) = n
    <2>1. m = [i \in 1 .. n |-> m[i]]
        BY <1>5, <1>6
    <2> QED
        BY <1>5, <2>1, Listing
<1>8. \A k \in 1 .. n : m[k] = MirrorRule(o[k], remote)
    BY <1>5, <1>6
<1>9. S \subseteq 1 .. Len(rules)
    BY <1>1, Positions
<1> QED
    BY <1>4, <1>7, <1>8, <1>9

\* The first rule that matches sends the connection direct, and no rule for
\* names speaks before the routes: the direct resolver answers.
LEMMA MirrorAnswers ==
    ASSUME NEW rules, IsSeq(rules), NEW remote, NEW own, OwnRules(own), NEW last,
           NEW c \in Conn, Unnamed(c.name), Matching(rules, c) # {},
           DirectBy(rules, Least(Matching(rules, c)), c.name),
           NEW b, b.rules = own \o Mirrored(rules, remote), b.final = SplitFinal(rules, last)
    PROVE  Answer(b, c.name) = Direct
<1>1. PICK hits : hits = Matching(rules, c)
    OBVIOUS
<1>2. PICK r \in Nat : r = Len(rules) /\ DOMAIN rules = 1 .. r
    BY Positions
<1>3. hits \subseteq 1 .. r /\ hits # {}
    BY <1>1, <1>2 DEF Matching
<1>4. PICK k : k = Least(hits)
    OBVIOUS
<1>5. k \in 1 .. r /\ \A j \in hits : k <= j
    <2>1. hits \subseteq Nat
        BY <1>3
    <2> QED
        BY <1>3, <1>4, <2>1, LeastIs
<1>6. DirectBy(rules, k, c.name)
    BY <1>1, <1>4
<1>7. PICK m : m = Mirrored(rules, remote)
    OBVIOUS
<1>8. PICK S : S = Routing(rules)
    OBVIOUS
<1>9. /\ IsSeq(m) /\ S \subseteq 1 .. r
      /\ \A i \in S : Rank(S, i) \in 1 .. Len(m) /\ m[Rank(S, i)] = MirrorRule(rules[i], remote)
      /\ \A p \in 1 .. Len(m) : \E i \in S : Rank(S, i) = p
      /\ \A i, j \in S : i < j => Rank(S, i) < Rank(S, j)
    <2>1. /\ IsSeq(m) /\ S \subseteq 1 .. Len(rules)
          /\ \A i \in S : Rank(S, i) \in 1 .. Len(m) /\ m[Rank(S, i)] = MirrorRule(rules[i], remote)
          /\ \A p \in 1 .. Len(m) : \E i \in S : Rank(S, i) = p
          /\ \A i, j \in S : i < j => Rank(S, i) < Rank(S, j)
        BY <1>7, <1>8, MirroredIs
    <2> QED
        BY <1>2, <2>1
<1>10. PICK n \in Nat, l \in Nat : n = Len(own) /\ l = Len(m)
    BY <1>9, Positions DEF OwnRules
<1>11. PICK all : all = own \o m
    OBVIOUS
<1>12. /\ DOMAIN all = 1 .. n + l
       /\ \A i \in 1 .. n : all[i] = own[i]
       /\ \A p \in 1 .. l : all[n + p] = m[p]
    <2>1. IsSeq(own) /\ IsSeq(m)
        BY <1>9 DEF OwnRules
    <2>2. /\ IsSeq(own \o m) /\ Len(own \o m) = Len(own) + Len(m)
          /\ \A i \in 1 .. Len(own) : (own \o m)[i] = own[i]
          /\ \A i \in 1 .. Len(m) : (own \o m)[Len(own) + i] = m[i]
        BY <2>1, Joined
    <2>3. DOMAIN (own \o m) = 1 .. Len(own \o m)
        BY <2>2, Positions
    <2> QED
        BY <1>10, <1>11, <2>2, <2>3
<1>13. PICK H : H = NameHits(all, c.name)
    OBVIOUS
<1>14. ASSUME NEW q \in H
       PROVE  \E i \in S : q = n + Rank(S, i) /\ Named(rules[i], c.name) /\ k <= i
    <2>1. q \in 1 .. n + l /\ \E e \in all[q].of : c.name \in Covers[e]
        BY <1>12, <1>13 DEF NameHits
    <2>2. q \notin 1 .. n
        BY <1>10, <1>12, <2>1, OwnRulesMiss
    <2>3. PICK p \in 1 .. l : q = n + p
        <3>1. q - n \in 1 .. l /\ q = n + (q - n)
            BY <2>1, <2>2
        <3> QED
            BY <3>1
    <2>4. PICK i \in S : Rank(S, i) = p
        BY <1>9, <1>10
    <2>5. all[q] = MirrorRule(rules[i], remote)
        BY <1>9, <1>12, <2>3, <2>4
    <2>6. all[q].of = NameMatchers(rules[i])
        BY <2>5, MirrorRuleIs
    <2>7. rules[i].kind = "any"
        BY <1>8 DEF Routing, Routes
    <2>8. Named(rules[i], c.name)
        BY <2>1, <2>6, <2>7 DEF Named
    <2>9. i \in hits
        BY <1>1, <1>2, <1>9, <2>8, NamedMatches
    <2> QED
        BY <1>5, <2>3, <2>4, <2>8, <2>9
<1>15. ASSUME NEW i \in S, rules[i].out = "direct" PROVE all[n + Rank(S, i)].server = Direct
    <2>1. all[n + Rank(S, i)] = MirrorRule(rules[i], remote)
        BY <1>9, <1>10, <1>12
    <2> QED
        BY <1>15, <2>1, MirrorRuleIs
<1>16. rules[k].out = "direct"
    BY <1>6 DEF DirectBy
<1>17. H \subseteq Nat
    BY <1>12, <1>13 DEF NameHits
<1>18. /\ H = {} => Answer(b, c.name) = SplitFinal(rules, last)
       /\ H # {} => Answer(b, c.name) = all[Least(H)].server
    <2>1. /\ NameHits(b.rules, c.name) = {} => Answer(b, c.name) = b.final
          /\ NameHits(b.rules, c.name) # {} =>
                Answer(b, c.name) = b.rules[Least(NameHits(b.rules, c.name))].server
        BY AnswerIs
    <2>2. b.rules = all
        BY <1>7, <1>11
    <2> QED
        BY <1>13, <2>1, <2>2
<1>19. CASE Named(rules[k], c.name)
    <2>1. k \in S
        <3>1. Routes(rules[k])
            BY <1>16, <1>19 DEF Named, Routes, Stopped
        <3> QED
            BY <1>2, <1>5, <1>8, <3>1 DEF Routing
    <2>2. PICK p : p = Rank(S, k)
        OBVIOUS
    <2>3. p \in 1 .. l /\ all[n + p] = MirrorRule(rules[k], remote)
        BY <1>9, <1>10, <1>12, <2>1, <2>2
    <2>4. n + p \in H
        <3>1. all[n + p].of = NameMatchers(rules[k])
            BY <2>3, MirrorRuleIs
        <3>2. \E e \in all[n + p].of : c.name \in Covers[e]
            BY <1>19, <3>1 DEF Named
        <3>3. n + p \in DOMAIN all
            BY <1>12, <2>3
        <3> QED
            BY <1>13, <3>2, <3>3 DEF NameHits
    <2>5. Least(H) \in H /\ Least(H) <= n + p
        BY <1>17, <2>4, LeastIs
    <2>6. PICK i \in S : Least(H) = n + Rank(S, i) /\ k <= i
        BY <1>14, <2>5
    <2>7. Rank(S, i) \in 1 .. l
        BY <1>9, <1>10
    <2>8. i = k
        <3>1. i \in 1 .. r
            BY <1>9
        <3>2. ~(k < i)
            <4>1. ASSUME k < i PROVE FALSE
                <5>1. Rank(S, k) < Rank(S, i)
                    BY <1>9, <2>1, <4>1
                <5> QED
                    BY <2>2, <2>3, <2>5, <2>6, <2>7, <5>1
            <4> QED
                BY <4>1
        <3> QED
            BY <1>5, <2>6, <3>1, <3>2
    <2>9. all[Least(H)].server = Direct
        BY <1>15, <1>16, <2>6, <2>8
    <2> QED
        BY <1>18, <2>4, <2>9
<1>20. CASE isCatchAllRule(rules[k]) /\ \A j \in DOMAIN rules : j > k => ~Named(rules[j], c.name)
    <2>1. CASE H = {}
        <3>1. PICK ca : ca = catchAllIdx(rules)
            OBVIOUS
        <3>2. /\ ca \in 1 .. r + 1
              /\ \A i \in 1 .. ca - 1 : ~isCatchAllRule(rules[i])
              /\ ca <= r => isCatchAllRule(rules[ca])
            BY <1>2, <3>1, CatchAllIs
        <3>3. ca <= k
            <4>1. ~(k \in 1 .. ca - 1)
                BY <1>20, <3>2
            <4> QED
                BY <1>5, <3>2, <4>1
        <3>4. ca \in 1 .. r /\ isCatchAllRule(rules[ca])
            BY <1>5, <3>2, <3>3
        <3>5. ca \in hits
            BY <1>1, <1>2, <3>4, CatchAllMatches
        <3>6. ca = k
            BY <1>5, <3>3, <3>4, <3>5
        <3>7. SplitFinal(rules, last) = Direct
            BY <1>2, <1>5, <1>16, <3>1, <3>6 DEF SplitFinal
        <3> QED
            BY <1>18, <2>1, <3>7
    <2>2. CASE H # {}
        <3>1. Least(H) \in H
            BY <1>17, <2>2, LeastIs
        <3>2. PICK i \in S : Least(H) = n + Rank(S, i) /\ Named(rules[i], c.name) /\ k <= i
            BY <1>14, <3>1
        <3>3. i \in 1 .. r
            BY <1>9
        <3>4. i = k
            <4>1. ~(i > k)
                BY <1>2, <1>20, <3>2, <3>3
            <4> QED
                BY <1>5, <3>2, <3>3, <4>1
        <3>5. all[Least(H)].server = Direct
            BY <1>15, <1>16, <3>2, <3>4
        <3> QED
            BY <1>18, <2>2, <3>5
    <2> QED
        BY <2>1, <2>2
<1> QED
    BY <1>6, <1>19, <1>20 DEF DirectBy

\* A name is resolved by the direct resolver, or by no rule for names and a
\* final server that nobody asks through the proxy group.
Answers(b, name) ==
    \/ Answer(b, name) = Direct /\ Reserves(b)
    \/ NameHits(b.rules, name) = {} /\ ~AskedBehind(b, b.final)

\* The name of a connection that goes direct.
GoesDirect(rules, c) ==
    /\ Matching(rules, c) # {}
    /\ DirectBy(rules, Least(Matching(rules, c)), c.name)
    /\ Unnamed(c.name)

LEMMA SteeredAnswers ==
    ASSUME NEW c, Plain(c), Resolving(c), dns.split, NEW x, x = injectDirectDNS(c, dns),
           NEW conn \in Conn, GoesDirect(c.rules, conn)
    PROVE  x.rules = c.rules /\ Answers(x.dns, conn.name)
<1>1. /\ ~Splits(c) => x = c
      /\ Splits(c) =>
            /\ IsConfig(x)
            /\ x.dns.servers = Reserving(c.dns) /\ x.dns.rules = FollowingRules(c)
            /\ x.dns.final = SplitFinal(c.rules, c.dns.final)
            /\ x.outs = Pinned(c.outs) /\ x.client = PinClient(c.client)
            /\ x.resolver = c.resolver /\ x.rules = c.rules
    <2>1. IsConfig(c)
        BY DEF Plain
    <2> QED
        BY <2>1, SplitIs
<1>2. PICK rules : rules = c.rules
    OBVIOUS
<1>3. PICK own : own = c.dns.rules
    OBVIOUS
<1>4. IsSeq(rules) /\ OwnRules(own) /\ Unnamed(conn.name)
    BY <1>2, <1>3 DEF Plain, GoesDirect
<1>5. CASE Splits(c)
    <2>1. PICK a, b : a = c.dns /\ b = x.dns
        OBVIOUS
    <2>2. Tagged(a.servers) /\ b.servers = Reserving(a)
        BY <1>1, <1>5, <2>1 DEF Plain
    <2>3. Reserves(b)
        BY <2>2, ReservingIs
    <2>4. PICK remote, last : remote = Remote(c) /\ last = c.dns.final
        OBVIOUS
    <2>5. b.rules = own \o Mirrored(rules, remote) /\ b.final = SplitFinal(rules, last)
        BY <1>1, <1>2, <1>3, <1>5, <2>1, <2>4 DEF FollowingRules
    <2>6. /\ Matching(rules, conn) # {}
          /\ DirectBy(rules, Least(Matching(rules, conn)), conn.name)
        BY <1>2 DEF GoesDirect
    <2>7. Answer(b, conn.name) = Direct
        BY <1>4, <2>5, <2>6, MirrorAnswers
    <2> QED
        BY <1>1, <1>5, <2>1, <2>3, <2>7 DEF Answers
<1>6. CASE ~Splits(c)
    <2>1. x = c
        BY <1>1, <1>6
    <2>2. NameHits(own, conn.name) = {}
        <3>1. \A i \in 1 .. Len(own) : \A e \in own[i].of : conn.name \notin Covers[e]
            BY <1>4, OwnRulesMiss
        <3>2. DOMAIN own = 1 .. Len(own)
            BY <1>4, Positions DEF OwnRules
        <3> QED
            BY <3>1, <3>2 DEF NameHits
    <2>3. ~AskedBehind(c.dns, c.dns.final)
        <3>1. ASSUME AskedBehind(c.dns, c.dns.final) PROVE FALSE
            <4>1. Tagged(c.dns.servers)
                BY DEF Plain
            <4>2. DetourOf(c.dns, "") = ""
                BY <4>1, NobodyUntagged
            <4>3. Real(c, c.dns.final)
                BY <3>1, <4>2 DEF AskedBehind, Real
            <4>4. Remote(c) = c.dns.final
                BY <4>3 DEF Resolving
            <4> QED
                BY <1>6, <3>1, <4>4 DEF Splits, AskedBehind
        <3> QED
            BY <3>1
    <2> QED
        BY <1>3, <2>1, <2>2, <2>3 DEF Answers
<1> QED
    BY <1>5, <1>6

LEMMA HealedAnswers ==
    ASSUME NEW c, Followed(c), NEW name, Answers(c.dns, name),
           NEW x, x = healBootstrapDNS(c, dns)
    PROVE  x.rules = c.rules /\ ~AskedBehind(x.dns, Answer(x.dns, name))
<1>1. /\ ~Heals(c) => x = c
      /\ Heals(c) =>
            /\ IsConfig(x)
            /\ x.dns.servers = HealedServers(c.dns) /\ x.dns.rules = c.dns.rules
            /\ x.dns.final = Direct /\ x.resolver = Direct
            /\ x.outs = c.outs /\ x.client = c.client /\ x.rules = c.rules
    <2>1. IsConfig(c)
        BY DEF Followed
    <2> QED
        BY <2>1, HealIs
<1>2. PICK a, b : a = c.dns /\ b = x.dns
    OBVIOUS
<1>3. Answers(a, name)
    BY <1>2
<1>4. /\ NameHits(a.rules, name) = {} => Answer(a, name) = a.final
      /\ NameHits(a.rules, name) # {} =>
            Answer(a, name) = a.rules[Least(NameHits(a.rules, name))].server
    BY AnswerIs
<1>5. CASE Heals(c)
    <2>1. b.rules = a.rules /\ b.final = Direct /\ b.servers = HealedServers(a)
        BY <1>1, <1>2, <1>5
    <2>2. Tagged(a.servers) /\ DetourOf(a, Direct) # "proxy"
        BY <1>2, <1>5 DEF Followed, Heals
    <2>3. Reserves(b)
        BY <2>1, <2>2, HealedServersIs
    <2>4. /\ NameHits(b.rules, name) = {} => Answer(b, name) = b.final
          /\ NameHits(b.rules, name) # {} =>
                Answer(b, name) = b.rules[Least(NameHits(b.rules, name))].server
        BY AnswerIs
    <2>5. Answer(b, name) = Direct
        BY <1>3, <1>4, <2>1, <2>4 DEF Answers
    <2>6. ~AskedBehind(b, Direct)
        BY <2>3 DEF Reserves, AskedBehind
    <2> QED
        BY <1>1, <1>2, <1>5, <2>5, <2>6
<1>6. CASE ~Heals(c)
    <2>1. x = c
        BY <1>1, <1>6
    <2>2. ~AskedBehind(a, Answer(a, name))
        BY <1>3, <1>4 DEF Answers, Reserves, AskedBehind
    <2> QED
        BY <1>2, <2>1, <2>2
<1> QED
    BY <1>5, <1>6

\* What resolves a name is the direct resolver, or the server that would
\* resolve it for a direct dial.
LEMMA SettingsAnswer ==
    ASSUME GenInv
    PROVE  AnswersFollowEgress
<1>1. ASSUME dns.split PROVE FollowsEgress(Config)
    <2>1. PICK eps : eps = injectEndpoints(endpoints)
        OBVIOUS
    <2>2. IsSeq(eps)
        BY <2>1, EndpointsMade DEF GenInv
    <2>3. PICK c : c = Prepared(eps)
        OBVIOUS
    <2>4. Plain(c) /\ Resolving(c)
        BY <2>2, <2>3, PreparedPlain
    <2>5. PICK x : x = injectDirectDNS(c, dns)
        OBVIOUS
    <2>6. Followed(x)
        BY <1>1, <2>4, <2>5, DirectFollowed
    <2>7. PICK h : h = healBootstrapDNS(x, dns)
        OBVIOUS
    <2>8. PICK e : e = Ended(h)
        OBVIOUS
    <2>9. e.dns = h.dns /\ e.rules = h.rules
        <3>1. Reaches(h)
            BY <1>1, <2>6, <2>7, HealedReaches
        <3>2. IsConfig(h)
            BY <3>1 DEF Reaches
        <3>3. /\ e.outs = repairProxyGroupLoopbacks(h.outs, loopbackTags(Eligible))
              /\ e.dns = h.dns /\ e.resolver = h.resolver /\ e.client = h.client
              /\ e.rules = h.rules
            BY <2>8, <3>2, EndedIs
        <3> QED
            BY <3>3
    <2>10. ASSUME NEW conn \in Conn, GoesDirect(e.rules, conn)
           PROVE  ~AskedBehind(e.dns, Answer(e.dns, conn.name))
        <3>1. x.rules = c.rules
            <4>1. IsConfig(c)
                BY <2>4 DEF Plain
            <4> QED
                BY <1>1, <2>5, <4>1, SplitIs
        <3>2. h.rules = x.rules
            <4>1. IsConfig(x)
                BY <2>6 DEF Followed
            <4> QED
                BY <2>7, <4>1, HealIs
        <3>3. GoesDirect(c.rules, conn)
            BY <2>9, <2>10, <3>1, <3>2
        <3>4. Answers(x.dns, conn.name)
            BY <1>1, <2>4, <2>5, <3>3, SteeredAnswers
        <3>5. ~AskedBehind(h.dns, Answer(h.dns, conn.name))
            BY <2>6, <2>7, <3>4, HealedAnswers
        <3> QED
            BY <2>9, <3>5
    <2>11. FollowsEgress(e)
        BY <2>10 DEF FollowsEgress, GoesDirect, Unnamed
    <2>12. Config = e
        BY <2>1, <2>3, <2>5, <2>7, <2>8, ConfigIs DEF Steered
    <2> QED
        BY <2>11, <2>12
<1> QED
    BY <1>1 DEF AnswersFollowEgress

\* Whatever is saved, and in whatever order, a name whose connection goes direct
\* is resolved by a server that is dialled directly too (injectDirectDNS).
THEOREM NamesFollowEgress == GenSpec => []AnswersFollowEgress
BY SettingsHold, SettingsAnswer, PTL

-----------------------------------------------------------------------------
(* The exits on this machine: the groups the injectors make.                *)

LEMMA SeqElements ==
    ASSUME NEW s, IsSeq(s)
    PROVE  Elements(s) = Elems(s)
BY Positions DEF Elements, Elems

\* What is kept of a sequence.
LEMMA OnlyPicks ==
    ASSUME NEW s, IsSeq(s), NEW S, S \subseteq DOMAIN s
    PROVE  /\ IsSeq(Only(s, S)) /\ Len(Only(s, S)) <= Len(s)
           /\ Elements(Only(s, S)) = {s[i] : i \in S}
<1>1. Len(s) \in Nat /\ DOMAIN s = 1 .. Len(s)
    BY Positions
<1>2. Cardinality(S) \in Nat /\ Cardinality(S) <= Len(s)
    <2>1. IsFiniteSet(1 .. Len(s)) /\ Cardinality(1 .. Len(s)) = Len(s)
        BY <1>1, FS_Interval
    <2>2. IsFiniteSet(S) /\ Cardinality(S) <= Cardinality(1 .. Len(s))
        BY <1>1, <2>1, FS_Subset
    <2> QED
        BY <2>1, <2>2, FS_CardinalityType
<1>3. PICK r : r = Only(s, S)
    OBVIOUS
<1>4. /\ IsSeq(r) /\ Len(r) = Cardinality(S)
      /\ \A i \in S : Rank(S, i) \in 1 .. Cardinality(S) /\ r[Rank(S, i)] = s[i]
      /\ \A k \in 1 .. Cardinality(S) : \E i \in S : r[k] = s[i]
    <2>1. /\ IsSeq(Only(s, S)) /\ Len(Only(s, S)) = Cardinality(S)
          /\ \A i \in S : Rank(S, i) \in 1 .. Cardinality(S) /\ Only(s, S)[Rank(S, i)] = s[i]
          /\ \A k \in 1 .. Cardinality(S) : \E i \in S : Rank(S, i) = k /\ Only(s, S)[k] = s[i]
        BY OnlyIs
    <2> QED
        BY <1>3, <2>1
<1>5. DOMAIN r = 1 .. Cardinality(S)
    BY <1>4, Positions
<1>6. Elements(r) \subseteq {s[i] : i \in S}
    BY <1>4, <1>5 DEF Elements
<1>7. ASSUME NEW i \in S PROVE s[i] \in Elements(r)
    BY <1>4, <1>5 DEF Elements
<1> QED
    BY <1>2, <1>3, <1>4, <1>6, <1>7

\* The first n values of a function are n at most.
LEMMA FewValues ==
    ASSUME NEW n \in Nat, NEW f
    PROVE  LET S == {f[i] : i \in 1 .. n} IN IsFiniteSet(S) /\ Cardinality(S) \in Nat /\ Cardinality(S) <= n
<1>1. PICK S : S = {f[i] : i \in 1 .. n}
    OBVIOUS
<1>2. PICK g : g = [i \in 1 .. n |-> f[i]]
    OBVIOUS
<1>3. IsFiniteSet(1 .. n) /\ Cardinality(1 .. n) = n
    BY FS_Interval
<1>4. g \in Surjection(1 .. n, S)
    BY <1>1, <1>2 DEF Surjection
<1>5. IsFiniteSet(S) /\ Cardinality(S) <= n
    BY <1>3, <1>4, FS_Surjection
<1>6. Cardinality(S) \in Nat
    BY <1>5, FS_CardinalityType
<1> QED
    BY <1>1, <1>5, <1>6

\* More tags than there are in use: one is free.
LEMMA OneIsFree ==
    ASSUME NEW n \in Nat, NEW f, \A i, j \in 1 .. n : f[i] = f[j] => i = j,
           NEW used, IsFiniteSet(used), Cardinality(used) < n
    PROVE  \E i \in 1 .. n : f[i] \notin used
<1>1. ASSUME \A i \in 1 .. n : f[i] \in used PROVE FALSE
    <2>1. PICK g : g = [i \in 1 .. n |-> f[i]]
        OBVIOUS
    <2>2. g \in [1 .. n -> used]
        BY <1>1, <2>1
    <2>3. IsFiniteSet(1 .. n) /\ Cardinality(1 .. n) = n
        BY FS_Interval
    <2>4. \E x, y \in 1 .. n : x # y /\ g[x] = g[y]
        BY <2>2, <2>3, FS_PigeonHole
    <2> QED
        BY <2>1, <2>4
<1> QED
    BY <1>1

\* The tags tried for a name are more than room, and different.
Ample(name, room) ==
    /\ IsSeq(Numbered[name]) /\ room < Len(Numbered[name])
    /\ \A i, j \in DOMAIN Numbered[name] : Numbered[name][i] = Numbered[name][j] => i = j

\* uniq finds a tag that is free, the name itself if it is.
LEMMA FreeIs ==
    ASSUME NEW name, NEW room \in Nat, Ample(name, room),
           NEW used, IsFiniteSet(used), Cardinality(used) <= room
    PROVE  /\ FirstFree(used, name) \in Elements(Numbered[name])
           /\ FirstFree(used, name) \notin used
           /\ Numbered[name][1] \notin used => FirstFree(used, name) = Numbered[name][1]
<1>1. PICK s : s = Numbered[name]
    OBVIOUS
<1>2. PICK n \in Nat : n = Len(s) /\ DOMAIN s = 1 .. n
    BY <1>1, Positions DEF Ample
<1>3. \E i \in 1 .. n : s[i] \notin used
    <2>1. Cardinality(used) \in Nat
        BY FS_CardinalityType
    <2>2. room < n
        BY <1>1, <1>2 DEF Ample
    <2>3. Cardinality(used) < n
        BY <2>1, <2>2
    <2>4. \A i, j \in 1 .. n : s[i] = s[j] => i = j
        BY <1>1, <1>2 DEF Ample
    <2> QED
        BY <2>3, <2>4, OneIsFree
<1>4. PICK first \in 1 .. n : s[first] \notin used /\ \A j \in 1 .. first - 1 : s[j] \in used
    <2> DEFINE T == {i \in 1 .. n : s[i] \notin used}
    <2>1. T \subseteq Nat /\ T # {}
        BY <1>3
    <2>2. PICK m \in T : \A j \in T : m <= j
        <3> HIDE DEF T
        <3> QED
            BY <2>1, LeastIs
    <2>3. ASSUME NEW j \in 1 .. m - 1 PROVE s[j] \in used
        <3>1. j \in 1 .. n /\ ~(m <= j)
            BY <2>2
        <3>2. j \notin T
            BY <2>2, <3>1
        <3> QED
            BY <3>1, <3>2
    <2> QED
        BY <2>2, <2>3
<1>5. PICK i : i = CHOOSE k \in DOMAIN s : s[k] \notin used /\ \A j \in 1 .. k - 1 : s[j] \in used
    OBVIOUS
<1>6. i \in 1 .. n /\ s[i] \notin used /\ \A j \in 1 .. i - 1 : s[j] \in used
    <2>1. \E k \in DOMAIN s : s[k] \notin used /\ \A j \in 1 .. k - 1 : s[j] \in used
        BY <1>2, <1>4
    <2>2. i \in DOMAIN s /\ s[i] \notin used /\ \A j \in 1 .. i - 1 : s[j] \in used
        BY <1>5, <2>1
    <2> QED
        BY <1>2, <2>2
<1>7. FirstFree(used, name) = s[i]
    BY <1>1, <1>5 DEF FirstFree
<1>8. s[i] \in Elements(s)
    BY <1>2, <1>6 DEF Elements
<1>9. s[1] \notin used => i = 1
    <2>1. i # 1 => 1 \in 1 .. i - 1
        BY <1>6
    <2> QED
        BY <1>6, <2>1
<1> QED
    BY <1>1, <1>6, <1>7, <1>8, <1>9

\* Each name gets a tag of its own, its own name if that is free by then.
LEMMA DistinctFree ==
    ASSUME NEW used, IsFiniteSet(used), NEW names, IsSeq(names), NEW room \in Nat,
           Cardinality(used) + Len(names) <= room,
           \A i \in 1 .. Len(names) : Ample(names[i], room),
           NEW d, Taken(d, names, used), NEW n \in 1 .. Len(names)
    PROVE  /\ d[n] \in Elements(Numbered[names[n]])
           /\ d[n] \notin used /\ \A i \in 1 .. n - 1 : d[n] # d[i]
           /\ Numbered[names[n]][1] \notin used /\ (\A i \in 1 .. n - 1 : Numbered[names[n]][1] # d[i])
                => d[n] = Numbered[names[n]][1]
<1>1. PICK before : before = {d[i] : i \in 1 .. n - 1}
    OBVIOUS
<1>2. Len(names) \in Nat /\ n \in Nat /\ n <= Len(names) /\ n - 1 \in Nat
    BY Positions
<1>3. IsFiniteSet(before) /\ Cardinality(before) \in Nat /\ Cardinality(before) <= n - 1
    BY <1>1, <1>2, FewValues
<1>4. Cardinality(used) \in Nat
    BY FS_CardinalityType
<1>5. IsFiniteSet(used \cup before) /\ Cardinality(used \cup before) <= room
    <2>1. /\ IsFiniteSet(used \cup before)
          /\ Cardinality(used \cup before) =
                Cardinality(used) + Cardinality(before) - Cardinality(used \cap before)
        BY <1>3, FS_Union
    <2>2. IsFiniteSet(used \cap before)
        BY FS_Subset
    <2>3. Cardinality(used \cap before) \in Nat
        BY <2>2, FS_CardinalityType
    <2> QED
        BY <1>2, <1>3, <1>4, <2>1, <2>3
<1>6. d[n] = FirstFree(used \cup before, names[n])
    BY <1>1 DEF Taken
<1>7. Ample(names[n], room)
    OBVIOUS
<1>8. /\ FirstFree(used \cup before, names[n]) \in Elements(Numbered[names[n]])
      /\ FirstFree(used \cup before, names[n]) \notin used \cup before
      /\ Numbered[names[n]][1] \notin used \cup before =>
            FirstFree(used \cup before, names[n]) = Numbered[names[n]][1]
    BY <1>5, <1>7, FreeIs
<1>9. d[n] \notin used \cup before
    BY <1>6, <1>8
<1>10. Numbered[names[n]][1] \notin used \cup before => d[n] = Numbered[names[n]][1]
    BY <1>6, <1>8
<1> QED
    BY <1>1, <1>6, <1>8, <1>9, <1>10

\* Groups over these tags, under names among these.
Within(s, tags, names) ==
    /\ Formed(s)
    /\ \A g \in Elems(s) : Elements(g.members) \subseteq tags /\ g.name \in names

LEMMA WithinTogether ==
    ASSUME NEW tags, NEW names, NEW s, NEW t, Within(s, tags, names), Within(t, tags, names)
    PROVE  Within(s \o t, tags, names) /\ Len(s \o t) = Len(s) + Len(t)
<1>1. IsSeq(s) /\ IsSeq(t)
    BY DEF Within, Formed
<1>2. Formed(s \o t)
    BY FormedTogether DEF Within
<1>3. Elems(s \o t) = Elems(s) \cup Elems(t)
    BY <1>1, ElemsJoined
<1>4. Len(s \o t) = Len(s) + Len(t)
    BY <1>1, Joined
<1> QED
    BY <1>2, <1>3, <1>4 DEF Within

LEMMA WithinNone ==
    ASSUME NEW tags, NEW names
    PROVE  Within(<<>>, tags, names) /\ Len(<<>>) = 0
<1>1. Elems(<<>>) = {}
    BY NoRules DEF Elems
<1> QED
    BY <1>1, FormedNone, NoRules DEF Within

LEMMA WithinIf ==
    ASSUME NEW tags, NEW names, NEW condition, NEW type, NEW name \in names, NEW inside,
           IsSeq(inside), Elements(inside) \subseteq tags
    PROVE  /\ Within(If(condition, Group(type, name, inside)), tags, names)
           /\ Len(If(condition, Group(type, name, inside))) \in 0 .. 1
<1>1. PICK g : g = Group(type, name, inside)
    OBVIOUS
<1>2. g.members = inside /\ g.name = name
    BY <1>1 DEF Group
<1>3. Within(<<g>>, tags, names) /\ Len(<<g>>) = 1
    <2>1. Elems(<<g>>) = {g}
        BY ElemsSingle
    <2>2. IsSeq(<<g>>) /\ Len(<<g>>) = 1
        BY Single
    <2> QED
        BY <1>2, <2>1, <2>2 DEF Within, Formed
<1>4. If(condition, g) \in {<<g>>, <<>>}
    BY DEF If
<1>5. Within(<<>>, tags, names) /\ Len(<<>>) = 0
    BY WithinNone
<1> QED
    BY <1>1, <1>3, <1>4, <1>5

\* A user group's members are tags that exist.
LEMMA UserPicks ==
    ASSUME NEW g, Readable(g), NEW tags, IsSeq(tags)
    PROVE  Elements(groupMembers(g, tags)) \subseteq Elements(tags)
<1>1. CASE g.filter = "country"
    <2>1. PICK S : S = {i \in DOMAIN tags : CountryOf[tags[i]] = g.value}
        OBVIOUS
    <2>2. groupMembers(g, tags) = Only(tags, S) /\ S \subseteq DOMAIN tags
        BY <1>1, <2>1 DEF groupMembers
    <2>3. Elements(Only(tags, S)) = {tags[i] : i \in S}
        BY <2>2, OnlyPicks
    <2> QED
        BY <2>2, <2>3 DEF Elements
<1>2. CASE g.filter = "regex"
    <2>1. PICK S : S = {i \in DOMAIN tags : tags[i] \in g.value}
        OBVIOUS
    <2>2. groupMembers(g, tags) = Only(tags, S) /\ S \subseteq DOMAIN tags
        BY <1>2, <2>1 DEF groupMembers
    <2>3. Elements(Only(tags, S)) = {tags[i] : i \in S}
        BY <2>2, OnlyPicks
    <2> QED
        BY <2>2, <2>3 DEF Elements
<1>3. CASE g.filter = "manual"
    <2>1. PICK S : S = {i \in DOMAIN g.value : g.value[i] \in Elements(tags)}
        OBVIOUS
    <2>2. groupMembers(g, tags) = Only(g.value, S) /\ S \subseteq DOMAIN g.value
        BY <1>3, <2>1 DEF groupMembers
    <2>3. Elements(Only(g.value, S)) = {g.value[i] : i \in S}
        BY <1>3, <2>2, OnlyPicks DEF Readable
    <2> QED
        BY <2>1, <2>2, <2>3
<1> QED
    BY <1>1, <1>2, <1>3 DEF Readable

LEMMA UserWithin ==
    ASSUME NEW pg, Settled(pg), NEW tags, IsSeq(tags), NEW names,
           \A i \in DOMAIN pg.groups : pg.groups[i].name \in names
    PROVE  /\ Within(UserGroups(pg, tags), Elements(tags), names)
           /\ Len(UserGroups(pg, tags)) <= Len(pg.groups)
<1>0. IsSeq(pg.groups) /\ \A i \in DOMAIN pg.groups : Readable(pg.groups[i])
    BY DEF Settled
<1>1. PICK n \in Nat : n = Len(pg.groups) /\ DOMAIN pg.groups = 1 .. n
    BY <1>0, Positions
<1>2. PICK made : made = [i \in DOMAIN pg.groups |->
                    Group(Strategy(pg.groups[i]), pg.groups[i].name,
                          groupMembers(pg.groups[i], tags))]
    OBVIOUS
<1>3. IsSeq(made) /\ Len(made) = n /\ DOMAIN made = 1 .. n
    <2>1. made = [i \in 1 .. n |-> made[i]]
        BY <1>1, <1>2
    <2> QED
        BY <1>1, <1>2, <2>1, Listing
<1>4. \A i \in 1 .. n : Elements(made[i].members) \subseteq Elements(tags) /\ made[i].name \in names
    <2>1. ASSUME NEW i \in 1 .. n
          PROVE  Elements(made[i].members) \subseteq Elements(tags) /\ made[i].name \in names
        <3>1. /\ made[i].members = groupMembers(pg.groups[i], tags)
              /\ made[i].name = pg.groups[i].name
            BY <1>1, <1>2 DEF Group
        <3>2. Elements(groupMembers(pg.groups[i], tags)) \subseteq Elements(tags)
            BY <1>0, <1>1, UserPicks
        <3> QED
            BY <1>1, <3>1, <3>2
    <2> QED
        BY <2>1
<1>5. PICK S : S = {i \in DOMAIN made : made[i].members # <<>>}
    OBVIOUS
<1>6. PICK r : r = Only(made, S)
    OBVIOUS
<1>7. UserGroups(pg, tags) = r
    BY <1>2, <1>5, <1>6 DEF UserGroups
<1>8. IsSeq(r) /\ Len(r) <= n /\ Elements(r) = {made[i] : i \in S}
    <2>1. S \subseteq DOMAIN made
        BY <1>5
    <2>2. /\ IsSeq(Only(made, S)) /\ Len(Only(made, S)) <= Len(made)
          /\ Elements(Only(made, S)) = {made[i] : i \in S}
        BY <1>3, <2>1, OnlyPicks
    <2> QED
        BY <1>3, <1>6, <2>2
<1>9. Elems(r) = {made[i] : i \in S}
    BY <1>8, SeqElements
<1>10. Formed(r)
    BY <1>0, <1>7, UserFormed
<1>11. \A g \in Elems(r) : Elements(g.members) \subseteq Elements(tags) /\ g.name \in names
    BY <1>3, <1>4, <1>5, <1>9
<1> QED
    BY <1>1, <1>7, <1>8, <1>10, <1>11 DEF Within

\* The groups over countries.
LEMMA CountriesWithin ==
    ASSUME NEW remote, IsSeq(remote), NEW tags, Elements(remote) \subseteq tags, NEW names,
           \A t \in tags : CountryName[Label(t)] \in names
    PROVE  /\ Within(Countries(remote), tags, names)
           /\ Len(Countries(remote)) <= Len(remote)
<1>1. PICK n \in Nat : n = Len(remote) /\ DOMAIN remote = 1 .. n
    BY Positions
<1>2. PICK labels : labels = [i \in DOMAIN remote |-> Label(remote[i])]
    OBVIOUS
<1>3. IsSeq(labels) /\ Len(labels) = n
    <2>1. labels = [i \in 1 .. n |-> labels[i]]
        BY <1>1, <1>2
    <2> QED
        BY <1>1, <2>1, Listing
<1>4. PICK order : order = Only(labels, {i \in DOMAIN labels :
                                  \A j \in 1 .. i - 1 : labels[j] # labels[i]})
    OBVIOUS
<1>5. IsSeq(order) /\ Len(order) <= n /\ Elements(order) \subseteq Elements(labels)
    <2>1. PICK S : S = {i \in DOMAIN labels : \A j \in 1 .. i - 1 : labels[j] # labels[i]}
        OBVIOUS
    <2>2. S \subseteq DOMAIN labels /\ order = Only(labels, S)
        BY <1>4, <2>1
    <2>3. /\ IsSeq(Only(labels, S)) /\ Len(Only(labels, S)) <= Len(labels)
          /\ Elements(Only(labels, S)) = {labels[i] : i \in S}
        BY <1>3, <2>2, OnlyPicks
    <2> QED
        BY <1>3, <2>2, <2>3 DEF Elements
<1>6. PICK k \in Nat : k = Len(order) /\ DOMAIN order = 1 .. k
    BY <1>5, Positions
<1>7. PICK made : made = [i \in DOMAIN order |->
                Group("urltest", CountryName[order[i]],
                      Only(remote, {j \in DOMAIN remote : labels[j] = order[i]}))]
    OBVIOUS
<1>8. IsSeq(made) /\ Len(made) = k /\ DOMAIN made = 1 .. k
    <2>1. made = [i \in 1 .. k |-> made[i]]
        BY <1>6, <1>7
    <2> QED
        BY <1>6, <1>7, <2>1, Listing
<1>9. ASSUME NEW i \in 1 .. k
      PROVE  /\ IsSeq(made[i].members) /\ Elements(made[i].members) \subseteq tags
             /\ made[i].name \in names
    <2>1. PICK S : S = {j \in DOMAIN remote : labels[j] = order[i]}
        OBVIOUS
    <2>2. made[i].members = Only(remote, S) /\ made[i].name = CountryName[order[i]]
        BY <1>6, <1>7, <2>1 DEF Group
    <2>3. IsSeq(Only(remote, S)) /\ Elements(Only(remote, S)) = {remote[j] : j \in S}
        BY <2>1, OnlyPicks
    <2>4. {remote[j] : j \in S} \subseteq tags
        BY <2>1 DEF Elements
    <2>5. order[i] \in Elements(labels)
        BY <1>5, <1>6 DEF Elements
    <2>6. PICK j \in DOMAIN remote : order[i] = Label(remote[j])
        BY <1>2, <2>5 DEF Elements
    <2>7. remote[j] \in tags
        BY DEF Elements
    <2> QED
        BY <2>2, <2>3, <2>4, <2>6, <2>7
<1>10. Within(made, tags, names)
    <2>1. \A g \in Elems(made) : \E i \in 1 .. k : g = made[i]
        BY <1>8 DEF Elems
    <2> QED
        BY <1>8, <1>9, <2>1 DEF Within, Formed
<1>11. Countries(remote) = IF Elements(order) \subseteq {"Other"} THEN <<>> ELSE made
    BY <1>2, <1>4, <1>7 DEF Countries
<1>12. Within(<<>>, tags, names) /\ Len(<<>>) = 0
    BY WithinNone
<1> QED
    BY <1>1, <1>5, <1>6, <1>8, <1>10, <1>11, <1>12

LEMMA OverseasWithin ==
    ASSUME NEW remote, IsSeq(remote), NEW excluded, NEW tags, Elements(remote) \subseteq tags,
           NEW names, "Overseas" \in names
    PROVE  /\ Within(Overseas(remote, excluded), tags, names)
           /\ Len(Overseas(remote, excluded)) \in 0 .. 1
<1>1. PICK known : known = {i \in DOMAIN remote : CountryOf[remote[i]] # ""}
    OBVIOUS
<1>2. PICK allowed : allowed = {i \in known : CountryOf[remote[i]] \notin excluded}
    OBVIOUS
<1>3. allowed \subseteq DOMAIN remote
    BY <1>1, <1>2
<1>4. PICK inside : inside = Only(remote, allowed)
    OBVIOUS
<1>5. IsSeq(inside) /\ Elements(inside) \subseteq tags
    <2>1. IsSeq(Only(remote, allowed)) /\ Elements(Only(remote, allowed)) = {remote[i] : i \in allowed}
        BY <1>3, OnlyPicks
    <2> QED
        BY <1>3, <1>4, <2>1 DEF Elements
<1>6. PICK yes : yes = (allowed \notin {{}, known})
    OBVIOUS
<1>7. Overseas(remote, excluded) = If(yes, Group("urltest", "Overseas", inside))
    BY <1>1, <1>2, <1>4, <1>6 DEF Overseas
<1> QED
    BY <1>5, <1>7, WithinIf

\* The tags of other machines, and those of this one.
Far(tags, loopback) == Only(tags, {i \in DOMAIN tags : tags[i] \notin loopback})
Near(tags, loopback) == Only(tags, {i \in DOMAIN tags : tags[i] \in loopback})

LEMMA FarNear ==
    ASSUME NEW tags, IsSeq(tags), NEW loopback
    PROVE  /\ IsSeq(Far(tags, loopback)) /\ Len(Far(tags, loopback)) <= Len(tags)
           /\ Elements(Far(tags, loopback)) = Elements(tags) \ loopback
           /\ IsSeq(Near(tags, loopback)) /\ Len(Near(tags, loopback)) <= Len(tags)
           /\ Elements(Near(tags, loopback)) = Elements(tags) \cap loopback
<1>1. PICK S : S = {i \in DOMAIN tags : tags[i] \notin loopback}
    OBVIOUS
<1>2. PICK T : T = {i \in DOMAIN tags : tags[i] \in loopback}
    OBVIOUS
<1>3. /\ IsSeq(Only(tags, S)) /\ Len(Only(tags, S)) <= Len(tags)
      /\ Elements(Only(tags, S)) = {tags[i] : i \in S}
    BY <1>1, OnlyPicks
<1>4. /\ IsSeq(Only(tags, T)) /\ Len(Only(tags, T)) <= Len(tags)
      /\ Elements(Only(tags, T)) = {tags[i] : i \in T}
    BY <1>2, OnlyPicks
<1>5. {tags[i] : i \in S} = Elements(tags) \ loopback
    BY <1>1 DEF Elements
<1>6. {tags[i] : i \in T} = Elements(tags) \cap loopback
    BY <1>2 DEF Elements
<1>7. Far(tags, loopback) = Only(tags, S)
    BY <1>1 DEF Far
<1>8. Near(tags, loopback) = Only(tags, T)
    BY <1>2 DEF Near
<1> QED
    BY <1>3, <1>4, <1>5, <1>6, <1>7, <1>8

LEMMA NoElements ==
    ASSUME NEW s, IsSeq(s)
    PROVE  s = <<>> <=> Elements(s) = {}
<1>1. PICK S : s \in Seq(S)
    BY DEF IsSeq
<1>2. s # <<>> => 1 \in DOMAIN s
    BY <1>1
<1>3. s # <<>> => s[1] \in Elements(s)
    BY <1>2 DEF Elements
<1>4. s = <<>> => DOMAIN s = {}
    OBVIOUS
<1> QED
    BY <1>3, <1>4 DEF Elements

\* The names groups can have over these tags.
GroupNames(tags, pg) ==
    {"Auto", "Local", "Overseas"} \cup {CountryName[Label(t)] : t \in Elements(tags)}
        \cup {pg.groups[i].name : i \in DOMAIN pg.groups}

LEMMA WantedIs ==
    ASSUME NEW tags, IsSeq(tags), NEW loopback, NEW pg, Settled(pg),
           NEW w, w = Wanted(tags, loopback, pg)
    PROVE  /\ Within(w, Elements(tags), GroupNames(tags, pg))
           /\ Len(w) \in 1 .. Len(tags) + Len(pg.groups) + 3
           /\ w[1] = Group("urltest", "Auto", AutoMembers(Far(tags, loopback), tags))
           /\ Near(tags, loopback) # <<>> /\ Far(tags, loopback) # <<>> =>
                /\ 2 \in 1 .. Len(w)
                /\ w[2] = Group("selector", "Local", Near(tags, loopback))
<1>0. PICK T, N : T = Elements(tags) /\ N = GroupNames(tags, pg)
    OBVIOUS
<1>1. PICK remote : remote = Far(tags, loopback)
    OBVIOUS
<1>2. PICK local : local = Near(tags, loopback)
    OBVIOUS
<1>3. /\ IsSeq(remote) /\ Len(remote) <= Len(tags) /\ Elements(remote) \subseteq T
      /\ IsSeq(local) /\ Len(local) <= Len(tags) /\ Elements(local) \subseteq T
    BY <1>0, <1>1, <1>2, FarNear
<1>4. {"Auto", "Local", "Overseas"} \subseteq N
    BY <1>0 DEF GroupNames
<1>5. PICK g : g = Group("urltest", "Auto", AutoMembers(remote, tags))
    OBVIOUS
<1>6. PICK a : a = <<g>>
    OBVIOUS
<1>7. Within(a, T, N) /\ IsSeq(a) /\ Len(a) = 1 /\ a[1] = g
    <2>1. PICK inside : inside = AutoMembers(remote, tags)
        OBVIOUS
    <2>2. IsSeq(inside) /\ Elements(inside) \subseteq T
        BY <1>0, <1>3, <2>1 DEF AutoMembers
    <2>3. PICK x : x = If(TRUE, Group("urltest", "Auto", inside))
        OBVIOUS
    <2>4. a = x
        BY <1>5, <1>6, <2>1, <2>3 DEF If
    <2>5. Within(x, T, N)
        BY <1>4, <2>2, <2>3, WithinIf
    <2> QED
        BY <1>6, <2>4, <2>5, Single
<1>8. PICK l : l = Group("selector", "Local", local)
    OBVIOUS
<1>9. PICK b : b = If(local # <<>> /\ remote # <<>>, l)
    OBVIOUS
<1>10. Within(b, T, N) /\ IsSeq(b) /\ Len(b) \in 0 .. 1
    <2>1. /\ Within(If(local # <<>> /\ remote # <<>>, Group("selector", "Local", local)), T, N)
          /\ Len(If(local # <<>> /\ remote # <<>>, Group("selector", "Local", local))) \in 0 .. 1
        BY <1>3, <1>4, WithinIf
    <2> QED
        BY <1>8, <1>9, <2>1 DEF Within, Formed
<1>11. PICK c : c = IF pg.exclude = {} THEN <<>> ELSE Overseas(remote, pg.exclude)
    OBVIOUS
<1>12. Within(c, T, N) /\ Len(c) \in 0 .. 1
    <2>1. Within(<<>>, T, N) /\ Len(<<>>) = 0
        BY WithinNone
    <2>2. Within(Overseas(remote, pg.exclude), T, N) /\ Len(Overseas(remote, pg.exclude)) \in 0 .. 1
        BY <1>3, <1>4, OverseasWithin
    <2> QED
        BY <1>11, <2>1, <2>2
<1>13. PICK d : d = IF pg.autoCountry THEN Countries(remote) ELSE <<>>
    OBVIOUS
<1>14. Within(d, T, N) /\ Len(d) \in Nat /\ Len(d) <= Len(tags)
    <2>1. Within(<<>>, T, N) /\ Len(<<>>) = 0
        BY WithinNone
    <2>2. \A t \in T : CountryName[Label(t)] \in N
        BY <1>0 DEF GroupNames
    <2>3. Within(Countries(remote), T, N) /\ Len(Countries(remote)) <= Len(remote)
        BY <1>3, <2>2, CountriesWithin
    <2>4. Within(d, T, N)
        BY <1>13, <2>1, <2>3
    <2>5. Len(d) \in Nat
        BY <2>4, Positions DEF Within, Formed
    <2>6. Len(remote) \in Nat /\ Len(tags) \in Nat
        BY <1>3, Positions
    <2> QED
        BY <1>3, <1>13, <2>1, <2>3, <2>4, <2>5, <2>6
<1>15. PICK e : e = UserGroups(pg, tags)
    OBVIOUS
<1>16. Within(e, T, N) /\ Len(e) \in Nat /\ Len(e) <= Len(pg.groups)
    <2>1. \A i \in DOMAIN pg.groups : pg.groups[i].name \in N
        BY <1>0 DEF GroupNames
    <2>2. Within(UserGroups(pg, tags), T, N) /\ Len(UserGroups(pg, tags)) <= Len(pg.groups)
        BY <1>0, <2>1, UserWithin
    <2> QED
        BY <1>15, <2>2, Positions DEF Within, Formed
<1>17. w = (((a \o b) \o c) \o d) \o e
    BY <1>1, <1>2, <1>5, <1>6, <1>8, <1>9, <1>11, <1>13, <1>15 DEF Wanted, Far, Near
<1>18. Within(a \o b, T, N) /\ Len(a \o b) = 1 + Len(b)
    <2>1. Within(a, T, N) /\ Within(b, T, N)
        BY <1>7, <1>10
    <2>2. Within(a \o b, T, N) /\ Len(a \o b) = Len(a) + Len(b)
        BY <2>1, WithinTogether
    <2> QED
        BY <1>7, <2>2
<1>19. Within((a \o b) \o c, T, N) /\ Len((a \o b) \o c) = Len(a \o b) + Len(c)
    BY <1>12, <1>18, WithinTogether
<1>20. /\ Within(((a \o b) \o c) \o d, T, N)
       /\ Len(((a \o b) \o c) \o d) = Len((a \o b) \o c) + Len(d)
    BY <1>14, <1>19, WithinTogether
<1>21. Within(w, T, N) /\ Len(w) = Len(((a \o b) \o c) \o d) + Len(e)
    BY <1>16, <1>17, <1>20, WithinTogether
<1>22. Len(tags) \in Nat /\ Len(pg.groups) \in Nat
    BY Positions DEF Settled
<1>23. Len(w) \in 1 .. Len(tags) + Len(pg.groups) + 3
    <2>0. Len(b) \in Nat /\ Len(b) <= 1 /\ Len(c) \in Nat /\ Len(c) <= 1
        <3>1. \A k \in 0 .. 1 : k \in Nat /\ k <= 1
            OBVIOUS
        <3> QED
            BY <1>10, <1>12, <3>1
    <2>1. PICK lb \in Nat, lc \in Nat, ld \in Nat, le \in Nat, lt \in Nat, lp \in Nat :
            /\ lb = Len(b) /\ lc = Len(c) /\ ld = Len(d) /\ le = Len(e)
            /\ lt = Len(tags) /\ lp = Len(pg.groups)
        BY <1>14, <1>16, <1>22, <2>0
    <2>2. lb <= 1 /\ lc <= 1 /\ ld <= lt /\ le <= lp
        BY <1>14, <1>16, <2>0, <2>1
    <2>3. Len(w) = 1 + lb + lc + ld + le
        BY <1>18, <1>19, <1>20, <1>21, <2>1
    <2>4. 1 + lb + lc + ld + le \in 1 .. lt + lp + 3
        BY <2>2
    <2> QED
        BY <2>1, <2>3, <2>4
<1>24. \A i \in 1 .. 1 + Len(b) : w[i] = (a \o b)[i]
    <2>1. IsSeq(a \o b) /\ IsSeq((a \o b) \o c) /\ IsSeq(((a \o b) \o c) \o d)
          /\ IsSeq(c) /\ IsSeq(d) /\ IsSeq(e)
        BY <1>12, <1>14, <1>16, <1>18, <1>19, <1>20 DEF Within, Formed
    <2>2. \A i \in 1 .. Len(a \o b) : ((a \o b) \o c)[i] = (a \o b)[i]
        BY <2>1, Joined
    <2>3. \A i \in 1 .. Len((a \o b) \o c) : (((a \o b) \o c) \o d)[i] = ((a \o b) \o c)[i]
        BY <2>1, Joined
    <2>4. \A i \in 1 .. Len(((a \o b) \o c) \o d) : w[i] = (((a \o b) \o c) \o d)[i]
        BY <1>17, <2>1, Joined
    <2>5. \A i \in 1 .. 1 + Len(b) : /\ i \in 1 .. Len(a \o b) /\ i \in 1 .. Len((a \o b) \o c)
                                     /\ i \in 1 .. Len(((a \o b) \o c) \o d)
        BY <1>10, <1>12, <1>14, <1>18, <1>19, <1>20
    <2> QED
        BY <2>2, <2>3, <2>4, <2>5
<1>25. w[1] = g
    <2>1. (a \o b)[1] = a[1]
        BY <1>7, <1>10, Joined
    <2>2. 1 \in 1 .. 1 + Len(b)
        BY <1>10
    <2> QED
        BY <1>7, <1>24, <2>1, <2>2
<1>26. ASSUME local # <<>>, remote # <<>>
       PROVE  2 \in 1 .. Len(w) /\ w[2] = l
    <2>1. b = <<l>>
        BY <1>9, <1>26 DEF If
    <2>2. Len(b) = 1 /\ b[1] = l
        BY <2>1, Single
    <2>3. (a \o b)[Len(a) + 1] = b[1]
        <3>1. \A i \in 1 .. Len(b) : (a \o b)[Len(a) + i] = b[i]
            BY <1>7, <1>10, Joined
        <3> QED
            BY <2>2, <3>1
    <2>4. (a \o b)[2] = l
        <3>1. Len(a) + 1 = 2
            BY <1>7
        <3> QED
            BY <2>2, <2>3, <3>1
    <2>5. 2 \in 1 .. 1 + Len(b)
        BY <2>2
    <2>6. Len(w) >= 2
        BY <1>12, <1>14, <1>16, <1>18, <1>19, <1>20, <1>21, <2>2
    <2>7. Len(w) \in Nat
        BY <1>22, <1>23
    <2>8. w[2] = l
        BY <1>24, <2>4, <2>5
    <2>9. 2 \in 1 .. Len(w)
        BY <2>6, <2>7
    <2> QED
        BY <2>8, <2>9
<1> QED
    BY <1>0, <1>1, <1>2, <1>5, <1>8, <1>21, <1>23, <1>25, <1>26

\* Its members are all on this machine, or none is.
OneSide(o, loopback) ==
    Elements(o.members) \subseteq loopback \/ Elements(o.members) \cap loopback = {}

\* Before the repair: no automatic group that the repair spares mixes the exits
\* on this machine with others, and one group that the selector offers has them.
Choices(s, loopback) ==
    /\ \A o \in Elems(s) : o.type = "urltest" =>
            o.tag # "proxy" /\ (o.tag = "Local" => OneSide(o, loopback))
    /\ loopback # {} => \E g, p \in Elems(s) :
            /\ IsGroup(g) /\ Elements(g.members) = loopback
            /\ p.tag = "proxy" /\ g.tag \in Elements(p.members)

LEMMA OutIs ==
    ASSUME NEW tag, NEW type, NEW inside, NEW host
    PROVE  /\ Out(tag, type, inside, host).tag = tag /\ Out(tag, type, inside, host).type = type
           /\ Out(tag, type, inside, host).members = inside
BY DEF Out

\* What uniq makes of a name: the name, or others, and "Local" only of itself.
Proper(name, room) ==
    /\ Ample(name, room) /\ Numbered[name][1] = name
    /\ "Local" \in Elements(Numbered[name]) => name = "Local"

\* The tags that are in use before the groups have theirs.
Used(tags) == Elements(tags) \cup {"direct", "blocked", "proxy"}

LEMMA OneMore ==
    ASSUME NEW S, IsFiniteSet(S), NEW n \in Nat, Cardinality(S) <= n, NEW x
    PROVE  IsFiniteSet(S \cup {x}) /\ Cardinality(S \cup {x}) <= n + 1
<1>1. /\ IsFiniteSet(S \cup {x})
      /\ Cardinality(S \cup {x}) = IF x \in S THEN Cardinality(S) ELSE Cardinality(S) + 1
    BY FS_AddElement
<1>2. PICK k \in Nat : k = Cardinality(S)
    BY FS_CardinalityType
<1>3. Cardinality(S \cup {x}) \in {k, k + 1} /\ k <= n
    BY <1>1, <1>2
<1> QED
    BY <1>1, <1>2, <1>3

LEMMA FewUsed ==
    ASSUME NEW tags, IsSeq(tags)
    PROVE  IsFiniteSet(Used(tags)) /\ Cardinality(Used(tags)) <= Len(tags) + 3
<1>1. PICK n \in Nat : n = Len(tags) /\ DOMAIN tags = 1 .. n
    BY Positions
<1>2. PICK S : S = Elements(tags)
    OBVIOUS
<1>3. IsFiniteSet(S) /\ Cardinality(S) \in Nat /\ Cardinality(S) <= n
    <2>1. S = {tags[i] : i \in 1 .. n}
        BY <1>1, <1>2 DEF Elements
    <2> QED
        BY <2>1, FewValues
<1>4. PICK T : T = S \cup {"direct"} /\ IsFiniteSet(T) /\ Cardinality(T) <= n + 1
    BY <1>3, OneMore
<1>5. PICK V : V = T \cup {"blocked"} /\ IsFiniteSet(V) /\ Cardinality(V) <= n + 2
    <2>1. n + 1 \in Nat /\ (n + 1) + 1 = n + 2
        OBVIOUS
    <2>2. IsFiniteSet(T \cup {"blocked"}) /\ Cardinality(T \cup {"blocked"}) <= (n + 1) + 1
        BY <1>4, <2>1, OneMore
    <2> QED
        BY <2>1, <2>2
<1>8. IsFiniteSet(V \cup {"proxy"}) /\ Cardinality(V \cup {"proxy"}) <= n + 3
    <2>1. n + 2 \in Nat /\ (n + 2) + 1 = n + 3
        OBVIOUS
    <2>2. IsFiniteSet(V \cup {"proxy"}) /\ Cardinality(V \cup {"proxy"}) <= (n + 2) + 1
        BY <1>5, <2>1, OneMore
    <2> QED
        BY <2>1, <2>2
<1>9. Used(tags) = V \cup {"proxy"}
    BY <1>2, <1>4, <1>5 DEF Used
<1> QED
    BY <1>1, <1>8, <1>9

\* The tags d of groups with these names, where each name is proper.
Given(d, names, used) ==
    \A n \in 1 .. Len(names) :
        /\ d[n] \in Elements(Numbered[names[n]])
        /\ d[n] \notin used /\ \A i \in 1 .. n - 1 : d[n] # d[i]
        /\ Numbered[names[n]][1] \notin used /\ (\A i \in 1 .. n - 1 : Numbered[names[n]][1] # d[i])
                => d[n] = Numbered[names[n]][1]

LEMMA DistinctGiven ==
    ASSUME NEW used, IsFiniteSet(used), NEW names, IsSeq(names), NEW room \in Nat,
           Cardinality(used) + Len(names) <= room,
           \A i \in 1 .. Len(names) : Ample(names[i], room)
    PROVE  /\ IsSeq(Distinct(used, names)) /\ Len(Distinct(used, names)) = Len(names)
           /\ Given(Distinct(used, names), names, used)
<1>1. ASSUME NEW d, Taken(d, names, used) PROVE Given(d, names, used)
    <2>1. ASSUME NEW m \in 1 .. Len(names)
          PROVE  /\ d[m] \in Elements(Numbered[names[m]])
                 /\ d[m] \notin used /\ \A i \in 1 .. m - 1 : d[m] # d[i]
                 /\ Numbered[names[m]][1] \notin used
                        /\ (\A i \in 1 .. m - 1 : Numbered[names[m]][1] # d[i])
                    => d[m] = Numbered[names[m]][1]
        BY <1>1, DistinctFree
    <2> QED
        BY <2>1 DEF Given
<1>2. /\ IsSeq(Distinct(used, names)) /\ Len(Distinct(used, names)) = Len(names)
      /\ Taken(Distinct(used, names), names, used)
    BY DistinctIs
<1> QED
    BY <1>1, <1>2

\* If the group of the exits on this machine comes second, after Auto, no later
\* group is called like it.
LEMMA LocalIsSecond ==
    ASSUME NEW names, IsSeq(names), NEW d, NEW used, NEW room, Given(d, names, used),
           \A i \in 1 .. Len(names) : Proper(names[i], room),
           2 \in 1 .. Len(names), names[1] = "Auto", names[2] = "Local",
           NEW n \in 1 .. Len(names), d[n] = "Local"
    PROVE  n = 2
<1>0. Len(names) \in Nat /\ 1 \in 1 .. Len(names)
    BY Positions
<1>1. names[n] = "Local"
    BY DEF Given, Proper
<1>2. d[1] # "Local"
    <2>1. d[1] \in Elements(Numbered["Auto"])
        BY <1>0 DEF Given
    <2>2. "Local" \notin Elements(Numbered["Auto"])
        BY <1>0 DEF Proper
    <2> QED
        BY <2>1, <2>2
<1>3. "Local" \notin used
    BY DEF Given
<1>4. d[2] = "Local"
    <2>1. Numbered["Local"][1] = "Local"
        BY DEF Proper
    <2>2. \A i \in 1 .. 2 - 1 : i = 1
        OBVIOUS
    <2>3. /\ Numbered[names[2]][1] \notin used
          /\ \A i \in 1 .. 2 - 1 : Numbered[names[2]][1] # d[i]
        BY <1>2, <1>3, <2>1, <2>2
    <2>4. d[2] = Numbered[names[2]][1]
        BY <2>3 DEF Given
    <2> QED
        BY <2>1, <2>4
<1>5. ~(n < 2)
    <2>1. n < 2 => n = 1
        OBVIOUS
    <2> QED
        BY <1>2, <2>1
<1>6. ~(n > 2)
    <2>1. ASSUME n > 2 PROVE FALSE
        <3>1. 2 \in 1 .. n - 1
            BY <2>1
        <3>2. d[n] # d[2]
            BY <3>1 DEF Given
        <3> QED
            BY <1>4, <3>2
    <2> QED
        BY <2>1
<1> QED
    BY <1>5, <1>6

LEMMA GroupsStay ==
    ASSUME NEW tags, IsSeq(tags), tags # <<>>, NEW loopback, loopback # {},
           loopback \subseteq Elements(tags), NEW pg, Settled(pg),
           NEW room \in Nat, 2 * Len(tags) + Len(pg.groups) + 6 <= room,
           \A name \in GroupNames(tags, pg) : Proper(name, room)
    PROVE  Choices(buildProxyGroups(tags, loopback, pg), loopback)
<1>1. PICK w : w = Wanted(tags, loopback, pg)
    OBVIOUS
<1>2. PICK far, near : far = Far(tags, loopback) /\ near = Near(tags, loopback)
    OBVIOUS
<1>3. /\ Within(w, Elements(tags), GroupNames(tags, pg))
      /\ Len(w) \in 1 .. Len(tags) + Len(pg.groups) + 3
      /\ w[1] = Group("urltest", "Auto", AutoMembers(far, tags))
      /\ near # <<>> /\ far # <<>> =>
            2 \in 1 .. Len(w) /\ w[2] = Group("selector", "Local", near)
    BY <1>1, <1>2, WantedIs
<1>4. PICK n \in Nat : n = Len(w) /\ DOMAIN w = 1 .. n
    BY <1>3, Positions DEF Within, Formed
<1>5. PICK called : called = [i \in DOMAIN w |-> w[i].name]
    OBVIOUS
<1>6. IsSeq(called) /\ Len(called) = n
    <2>1. called = [i \in 1 .. n |-> called[i]]
        BY <1>4, <1>5
    <2> QED
        BY <2>1, Listing
<1>7. \A i \in 1 .. n : called[i] = w[i].name
    BY <1>4, <1>5
<1>8. \A i \in 1 .. n : w[i] \in Elems(w)
    BY <1>4 DEF Elems
<1>9. \A i \in 1 .. Len(called) : Proper(called[i], room)
    BY <1>3, <1>6, <1>7, <1>8 DEF Within
<1>10. PICK d : /\ d = Distinct(Used(tags), called) /\ IsSeq(d) /\ Len(d) = n
                /\ Given(d, called, Used(tags))
    <2>2. IsFiniteSet(Used(tags)) /\ Cardinality(Used(tags)) <= Len(tags) + 3
        BY FewUsed
    <2>3. Cardinality(Used(tags)) + Len(called) <= room
        <3>1. PICK k \in Nat : k = Cardinality(Used(tags))
            BY <2>2, FS_CardinalityType
        <3>2. PICK lt \in Nat, lp \in Nat : lt = Len(tags) /\ lp = Len(pg.groups)
            BY Positions DEF Settled
        <3>3. n \in 1 .. lt + lp + 3
            BY <1>3, <1>4, <3>2
        <3>4. 2 * lt + lp + 6 <= room
            BY <3>2
        <3>5. k <= lt + 3
            BY <2>2, <3>1, <3>2
        <3>6. k + n <= room
            BY <3>3, <3>4, <3>5
        <3> QED
            BY <1>6, <3>1, <3>6
    <2>4. \A i \in 1 .. Len(called) : Ample(called[i], room)
        BY <1>9 DEF Proper
    <2>5. /\ IsSeq(Distinct(Used(tags), called)) /\ Len(Distinct(Used(tags), called)) = Len(called)
          /\ Given(Distinct(Used(tags), called), called, Used(tags))
        BY <1>6, <2>2, <2>3, <2>4, DistinctGiven
    <2> QED
        BY <1>6, <2>5
<1>11. DOMAIN d = 1 .. n
    BY <1>10, Positions
<1>13. PICK made : made = [i \in DOMAIN w |-> Out(d[i], w[i].type, w[i].members, "")]
    OBVIOUS
<1>14. /\ IsSeq(made) /\ Len(made) = n
       /\ \A i \in 1 .. n : made[i].tag = d[i] /\ made[i].type = w[i].type /\ made[i].members = w[i].members
    <2>1. made = [i \in 1 .. n |-> made[i]]
        BY <1>4, <1>13
    <2>2. \A i \in 1 .. n : made[i] = Out(d[i], w[i].type, w[i].members, "")
        BY <1>4, <1>13
    <2>3. IsSeq(made) /\ Len(made) = n
        BY <2>1, Listing
    <2>4. ASSUME NEW i \in 1 .. n
          PROVE  made[i].tag = d[i] /\ made[i].type = w[i].type /\ made[i].members = w[i].members
        <3>1. PICK o : o = made[i]
            OBVIOUS
        <3>2. o = Out(d[i], w[i].type, w[i].members, "")
            BY <2>2, <3>1
        <3>3. o.tag = d[i]
            BY <3>2 DEF Out
        <3>4. o.type = w[i].type
            BY <3>2 DEF Out
        <3>5. o.members = w[i].members
            BY <3>2 DEF Out
        <3> QED
            BY <3>1, <3>3, <3>4, <3>5
    <2> QED
        BY <2>3, <2>4
<1>15. PICK last : last = Out("proxy", "selector", d, "")
    OBVIOUS
<1>16. last.tag = "proxy" /\ last.type = "selector" /\ last.members = d
    BY <1>15 DEF Out
<1>17. PICK s : s = Append(made, last)
    OBVIOUS
<1>18. Elems(s) = Elems(made) \cup {last}
    BY <1>14, <1>17, ElemsAppended
<1>19. buildProxyGroups(tags, loopback, pg) = s
    BY <1>1, <1>5, <1>10, <1>13, <1>15, <1>17 DEF buildProxyGroups, Used
<1>20. /\ IsSeq(far) /\ Elements(far) = Elements(tags) \ loopback
       /\ IsSeq(near) /\ Elements(near) = loopback
    BY <1>2, FarNear
<1>21. near # <<>>
    BY <1>20, NoElements
<1>22. far = <<>> => Elements(tags) = loopback
    BY <1>20, NoElements
<1>23. ASSUME NEW i \in 1 .. n, w[i].type = "urltest"
       PROVE  d[i] # "proxy" /\ (d[i] = "Local" => OneSide(made[i], loopback))
    <2>1. d[i] # "proxy"
        BY <1>6, <1>10 DEF Given, Used
    <2>2. ASSUME d[i] = "Local" PROVE OneSide(made[i], loopback)
        <3>1. CASE far = <<>>
            <4>1. Elements(w[i].members) \subseteq Elements(tags)
                BY <1>3, <1>8 DEF Within
            <4> QED
                BY <1>14, <1>22, <3>1, <4>1 DEF OneSide
        <3>2. CASE far # <<>>
            <4>1. w[2] = Group("selector", "Local", near) /\ 2 \in 1 .. n
                BY <1>3, <1>4, <1>21, <3>2
            <4>2. w[2].type = "selector" /\ called[2] = "Local"
                BY <1>7, <4>1 DEF Group
            <4>3. called[1] = "Auto"
                <5>1. 1 \in 1 .. n
                    BY <4>1
                <5> QED
                    BY <1>3, <1>7, <5>1 DEF Group
            <4>4. i = 2
                BY <1>6, <1>9, <1>10, <2>2, <4>1, <4>2, <4>3, LocalIsSecond
            <4> QED
                BY <1>23, <4>2, <4>4
        <3> QED
            BY <3>1, <3>2
    <2> QED
        BY <2>1, <2>2
<1>24. ASSUME NEW o \in Elems(s), o.type = "urltest"
       PROVE  o.tag # "proxy" /\ (o.tag = "Local" => OneSide(o, loopback))
    <2>1. o \in Elems(made)
        BY <1>16, <1>18, <1>24
    <2>2. PICK i \in 1 .. n : o = made[i]
        BY <1>14, <2>1 DEF Elems
    <2> QED
        BY <1>14, <1>23, <1>24, <2>2
<1>25. \E i \in 1 .. n : w[i].type \in {"selector", "urltest"} /\ Elements(w[i].members) = loopback
    <2>1. CASE far = <<>>
        <3>1. w[1].type = "urltest" /\ w[1].members = tags /\ 1 \in 1 .. n
            BY <1>3, <1>4, <2>1 DEF Group, AutoMembers
        <3> QED
            BY <1>22, <2>1, <3>1
    <2>2. CASE far # <<>>
        <3>1. w[2] = Group("selector", "Local", near) /\ 2 \in 1 .. n
            BY <1>3, <1>4, <1>21, <2>2
        <3>2. w[2].type = "selector" /\ w[2].members = near
            BY <3>1 DEF Group
        <3> QED
            BY <1>20, <3>1, <3>2
    <2> QED
        BY <2>1, <2>2
<1>26. \E g, p \in Elems(s) : /\ IsGroup(g) /\ Elements(g.members) = loopback
                              /\ p.tag = "proxy" /\ g.tag \in Elements(p.members)
    <2>1. PICK i \in 1 .. n : w[i].type \in {"selector", "urltest"} /\ Elements(w[i].members) = loopback
        BY <1>25
    <2>2. made[i] \in Elems(s)
        BY <1>14, <1>18 DEF Elems
    <2>3. IsGroup(made[i]) /\ Elements(made[i].members) = loopback
        BY <1>14, <2>1 DEF IsGroup
    <2>4. made[i].tag \in Elements(last.members)
        BY <1>11, <1>14, <1>16 DEF Elements
    <2> QED
        BY <1>16, <1>18, <2>2, <2>3, <2>4
<1> QED
    BY <1>19, <1>24, <1>26 DEF Choices

(* The exits on this machine: the repair.                                   *)

\* After the repair: no automatic group mixes the exits on this machine with
\* others, and a group that the selector offers has them all.
Stays(s, loopback) ==
    /\ \A o \in Elems(s) : o.type = "urltest" => o.tag # "proxy" /\ OneSide(o, loopback)
    /\ loopback # {} => \E g, p \in Elems(s) :
            /\ IsGroup(g) /\ loopback \subseteq Elements(g.members)
            /\ p.tag = "proxy" /\ g.tag \in Elements(p.members)

LEMMA StaysManually ==
    ASSUME NEW s, IsSeq(s), NEW loopback, Stays(s, loopback)
    PROVE  StayManual(s, loopback)
<1>1. PICK n \in Nat : n = Len(s) /\ DOMAIN s = 1 .. n
    BY Positions
<1>2. ASSUME NEW i \in DOMAIN s, s[i].type = "urltest"
      PROVE  Elements(s[i].members) \subseteq loopback \/ Elements(s[i].members) \cap loopback = {}
    <2>1. s[i] \in Elems(s)
        BY <1>1 DEF Elems
    <2> QED
        BY <1>2, <2>1 DEF Stays, OneSide
<1>3. ASSUME NEW t \in loopback
      PROVE  \E i \in DOMAIN s :
                IsGroup(s[i]) /\ s[i].tag \in Chosen(s) /\ t \in Elements(s[i].members)
    <2>1. PICK g \in Elems(s), p \in Elems(s) :
            /\ IsGroup(g) /\ loopback \subseteq Elements(g.members)
            /\ p.tag = "proxy" /\ g.tag \in Elements(p.members)
        BY <1>3 DEF Stays
    <2>2. PICK i \in DOMAIN s, j \in DOMAIN s : g = s[i] /\ p = s[j]
        BY <1>1 DEF Elems
    <2>3. s[i].tag \in Chosen(s)
        BY <2>1, <2>2 DEF Chosen
    <2> QED
        BY <1>3, <2>1, <2>2, <2>3
<1> QED
    BY <1>2, <1>3 DEF StayManual

\* What stripping leaves of an outbound.
LEMMA StrippedIs ==
    ASSUME NEW o, Kept(o), NEW loopback, NEW x,
           x = IF Repairable(o, loopback)
               THEN [o EXCEPT !.members = Stripped(o, loopback)] ELSE o
    PROVE  /\ x.tag = o.tag /\ x.type = o.type
           /\ o.type = "urltest" /\ o.tag \notin {"Local", "proxy"} => OneSide(x, loopback)
           /\ o.tag \in {"Local", "proxy"} => x = o
           /\ loopback # {} /\ Elements(o.members) = loopback => x = o
<1>1. PICK m : m = Stripped(o, loopback)
    OBVIOUS
<1>2. IsSeq(m) /\ Elements(m) = Elements(o.members) \ loopback
    <2>1. m = Far(o.members, loopback)
        BY <1>1 DEF Stripped, Far
    <2> QED
        BY <2>1, FarNear DEF Kept
<1>3. m = <<>> <=> Elements(m) = {}
    BY <1>2, NoElements
<1>4. CASE Repairable(o, loopback)
    <2>1. x = [o EXCEPT !.members = m]
        BY <1>1, <1>4
    <2>2. x.tag = o.tag /\ x.type = o.type /\ x.members = m
        BY <2>1 DEF Kept
    <2>3. m # <<>> /\ o.tag \notin {"Local", "proxy"}
        BY <1>1, <1>4 DEF Repairable
    <2>4. OneSide(x, loopback)
        BY <1>2, <2>2 DEF OneSide
    <2> QED
        BY <1>2, <1>3, <2>2, <2>3, <2>4
<1>5. CASE ~Repairable(o, loopback)
    <2>1. x = o
        BY <1>5
    <2>2. ASSUME o.type = "urltest", o.tag \notin {"Local", "proxy"} PROVE OneSide(o, loopback)
        <3>1. m = <<>>
            BY <1>1, <1>5, <2>2 DEF Repairable, IsGroup
        <3> QED
            BY <1>2, <1>3, <3>1 DEF OneSide
    <2> QED
        BY <2>1, <2>2
<1> QED
    BY <1>4, <1>5

LEMMA StrippedStays ==
    ASSUME NEW s, Laid(s), NEW loopback, loopback # {}, Choices(s, loopback)
    PROVE  Laid(StrippedAll(s, loopback)) /\ Stays(StrippedAll(s, loopback), loopback)
<1>1. PICK n \in Nat : n = Len(s) /\ DOMAIN s = 1 .. n
    BY Positions DEF Laid
<1>2. PICK t : t = StrippedAll(s, loopback)
    OBVIOUS
<1>3. Laid(t) /\ Len(t) = n
    BY <1>1, <1>2, StrippedRestricts DEF Restricted
<1>4. ASSUME NEW i \in 1 .. n
      PROVE  /\ t[i].tag = s[i].tag /\ t[i].type = s[i].type
             /\ s[i].type = "urltest" /\ s[i].tag \notin {"Local", "proxy"} => OneSide(t[i], loopback)
             /\ s[i].tag \in {"Local", "proxy"} => t[i] = s[i]
             /\ loopback # {} /\ Elements(s[i].members) = loopback => t[i] = s[i]
    <2>1. PICK o : o = s[i] /\ Kept(o)
        BY <1>1 DEF Laid, Elems
    <2>2. PICK x : x = t[i]
        OBVIOUS
    <2>3. x = IF Repairable(o, loopback)
              THEN [o EXCEPT !.members = Stripped(o, loopback)] ELSE o
        BY <1>1, <1>2, <2>1, <2>2 DEF StrippedAll
    <2>4. /\ x.tag = o.tag /\ x.type = o.type
          /\ o.type = "urltest" /\ o.tag \notin {"Local", "proxy"} => OneSide(x, loopback)
          /\ o.tag \in {"Local", "proxy"} => x = o
          /\ loopback # {} /\ Elements(o.members) = loopback => x = o
        BY <2>1, <2>3, StrippedIs
    <2> QED
        BY <2>1, <2>2, <2>4
<1>5. \A i \in 1 .. n : s[i] \in Elems(s) /\ t[i] \in Elems(t)
    BY <1>1, <1>3 DEF Elems
<1>6. ASSUME NEW o \in Elems(t), o.type = "urltest"
      PROVE  o.tag # "proxy" /\ OneSide(o, loopback)
    <2>1. PICK i \in 1 .. n : o = t[i]
        BY <1>3 DEF Elems
    <2>2. s[i].tag # "proxy" /\ (s[i].tag = "Local" => OneSide(s[i], loopback))
        BY <1>4, <1>5, <1>6, <2>1 DEF Choices
    <2> QED
        BY <1>4, <1>6, <2>1, <2>2
<1>7. \E g, p \in Elems(t) : /\ IsGroup(g) /\ loopback \subseteq Elements(g.members)
                             /\ p.tag = "proxy" /\ g.tag \in Elements(p.members)
    <2>1. PICK g \in Elems(s), p \in Elems(s) :
            /\ IsGroup(g) /\ Elements(g.members) = loopback
            /\ p.tag = "proxy" /\ g.tag \in Elements(p.members)
        BY DEF Choices
    <2>2. PICK i \in 1 .. n, j \in 1 .. n : g = s[i] /\ p = s[j]
        BY <1>1 DEF Elems
    <2>3. t[i] = g /\ t[j] = p
        BY <1>4, <2>1, <2>2
    <2> QED
        BY <1>5, <2>1, <2>3
<1> QED
    BY <1>2, <1>3, <1>6, <1>7 DEF Stays

LEMMA WidenedStays ==
    ASSUME NEW s, IsSeq(s), NEW t, Widened(s, t), NEW loopback, Stays(s, loopback)
    PROVE  Stays(t, loopback)
<1>1. PICK n \in Nat : n = Len(s) /\ DOMAIN s = 1 .. n
    BY Positions
<1>2. Len(t) = n
    BY <1>1 DEF Widened
<1>3. \A i \in 1 .. n : s[i] \in Elems(s) /\ t[i] \in Elems(t)
    BY <1>1, <1>2 DEF Elems
<1>4. ASSUME NEW i \in 1 .. n
      PROVE  /\ t[i].tag = s[i].tag /\ t[i].type = s[i].type
             /\ s[i].tag # "proxy" => t[i] = s[i]
             /\ Elements(s[i].members) \subseteq Elements(t[i].members)
    BY <1>1 DEF Widened
<1>5. ASSUME NEW o \in Elems(t), o.type = "urltest"
      PROVE  o.tag # "proxy" /\ OneSide(o, loopback)
    <2>1. PICK i \in 1 .. n : o = t[i]
        BY <1>2 DEF Elems
    <2>2. s[i].tag # "proxy" /\ OneSide(s[i], loopback)
        BY <1>3, <1>4, <1>5, <2>1 DEF Stays
    <2> QED
        BY <1>4, <2>1, <2>2
<1>6. ASSUME loopback # {}
      PROVE  \E g, p \in Elems(t) : /\ IsGroup(g) /\ loopback \subseteq Elements(g.members)
                                    /\ p.tag = "proxy" /\ g.tag \in Elements(p.members)
    <2>1. PICK g \in Elems(s), p \in Elems(s) :
            /\ IsGroup(g) /\ loopback \subseteq Elements(g.members)
            /\ p.tag = "proxy" /\ g.tag \in Elements(p.members)
        BY <1>6 DEF Stays
    <2>2. PICK i \in 1 .. n, j \in 1 .. n : g = s[i] /\ p = s[j]
        BY <1>1 DEF Elems
    <2>3. IsGroup(t[i]) /\ loopback \subseteq Elements(t[i].members)
        BY <1>4, <2>1, <2>2 DEF IsGroup
    <2>4. t[j].tag = "proxy" /\ t[i].tag \in Elements(t[j].members)
        BY <1>4, <2>1, <2>2
    <2> QED
        BY <1>3, <2>3, <2>4
<1> QED
    BY <1>5, <1>6 DEF Stays

LEMMA RepairStays ==
    ASSUME NEW s, Laid(s), NEW loopback, loopback # {} => Choices(s, loopback)
    PROVE  StayManual(repairProxyGroupLoopbacks(s, loopback), loopback)
<1>1. CASE loopback = {}
    <2>1. repairProxyGroupLoopbacks(s, loopback) = s
        BY <1>1 DEF repairProxyGroupLoopbacks
    <2>2. StayManual(s, loopback)
        BY <1>1 DEF StayManual
    <2> QED
        BY <2>1, <2>2
<1>2. CASE loopback # {}
    <2>1. PICK t : t = StrippedAll(s, loopback)
        OBVIOUS
    <2>2. Laid(t) /\ Stays(t, loopback)
        BY <1>2, <2>1, StrippedStays
    <2>3. PICK u : u = AddLocal(t, loopback)
        OBVIOUS
    <2>4. PICK o : o = Out("Local", "selector", Seqs!SetToSeq(loopback), "")
        OBVIOUS
    <2>5. HasProxy(t)
        BY <1>2, <2>2 DEF Stays, HasProxy
    <2>6. IsSeq(u) /\ Elems(t) \subseteq Elems(u) /\ Elems(u) \subseteq Elems(t) \cup {o}
        BY <2>2, <2>3, <2>4, <2>5, LocalAdded DEF Laid
    <2>7. o.tag = "Local" /\ o.type = "selector"
        BY <2>4 DEF Out
    <2>8. Stays(u, loopback)
        <3>1. \A x \in Elems(u) : x.type = "urltest" => x.tag # "proxy" /\ OneSide(x, loopback)
            BY <2>2, <2>6, <2>7 DEF Stays
        <3>2. \E g, p \in Elems(u) : /\ IsGroup(g) /\ loopback \subseteq Elements(g.members)
                                     /\ p.tag = "proxy" /\ g.tag \in Elements(p.members)
            BY <1>2, <2>2, <2>6 DEF Stays
        <3> QED
            BY <3>1, <3>2 DEF Stays
    <2>9. Widened(u, OfferLocal(u))
        <3>1. \A x \in Elems(u) : x.tag = "proxy" => Kept(x)
            BY <2>2, <2>6, <2>7 DEF Laid
        <3> QED
            BY <2>6, <3>1, OfferWidens
    <2>10. IsSeq(OfferLocal(u)) /\ Stays(OfferLocal(u), loopback)
        <3>1. Stays(OfferLocal(u), loopback)
            BY <2>6, <2>8, <2>9, WidenedStays
        <3> QED
            BY <2>9, <3>1 DEF Widened
    <2>11. \/ repairProxyGroupLoopbacks(s, loopback) = t
           \/ repairProxyGroupLoopbacks(s, loopback) = OfferLocal(u)
        BY <1>2, <2>1, <2>3 DEF repairProxyGroupLoopbacks
    <2> QED
        BY <2>2, <2>10, <2>11, StaysManually DEF Laid
<1> QED
    BY <1>1, <1>2

(* The exits on this machine: what the settings inject.                     *)

\* The tags that uniq may give nodes with these names.
TagsFor(list) == UNION {Elements(Numbered[n.tag]) : n \in Elements(list)}

LEMMA UsableAre ==
    ASSUME NEW list, IsSeq(list)
    PROVE  /\ IsSeq(Usable(list)) /\ Len(Usable(list)) <= Len(list)
           /\ Elements(Usable(list)) \subseteq Elements(list)
<1>1. PICK S : S = {i \in DOMAIN list : list[i].usable}
    OBVIOUS
<1>2. S \subseteq DOMAIN list /\ Usable(list) = Only(list, S)
    BY <1>1 DEF Usable
<1>3. /\ IsSeq(Only(list, S)) /\ Len(Only(list, S)) <= Len(list)
      /\ Elements(Only(list, S)) = {list[i] : i \in S}
    BY <1>2, OnlyPicks
<1> QED
    BY <1>2, <1>3 DEF Elements

\* The tags of the nodes, one for each.
LEMMA TagsAre ==
    ASSUME NEW list, IsSeq(list), NEW room \in Nat, Len(list) <= room,
           \A n \in Elements(list) : Ample(n.tag, room)
    PROVE  /\ IsSeq(memberTags(list)) /\ Len(memberTags(list)) <= Len(list)
           /\ Elements(memberTags(list)) \subseteq TagsFor(list)
           /\ loopbackTags(list) \subseteq Elements(memberTags(list))
<1>1. PICK usable : usable = Usable(list)
    OBVIOUS
<1>2. IsSeq(usable) /\ Len(usable) <= Len(list) /\ Elements(usable) \subseteq Elements(list)
    BY <1>1, UsableAre
<1>3. PICK n \in Nat : n = Len(usable) /\ DOMAIN usable = 1 .. n
    BY <1>2, Positions
<1>4. PICK called : called = [i \in DOMAIN usable |-> usable[i].tag]
    OBVIOUS
<1>5. IsSeq(called) /\ Len(called) = n
    <2>1. called = [i \in 1 .. n |-> called[i]]
        BY <1>3, <1>4
    <2> QED
        BY <2>1, Listing
<1>6. \A i \in 1 .. n : called[i] = usable[i].tag /\ usable[i] \in Elements(list)
    BY <1>2, <1>3, <1>4 DEF Elements
<1>7. PICK tags : tags = Distinct({}, called) /\ memberTags(list) = tags
    BY <1>1, <1>4 DEF memberTags
<1>8. IsSeq(tags) /\ Len(tags) = n /\ Given(tags, called, {})
    <2>1. IsFiniteSet({}) /\ Cardinality({}) = 0
        BY FS_EmptySet
    <2>2. Cardinality({}) + Len(called) <= room
        <3>1. Len(list) \in Nat
            BY Positions
        <3>2. n <= room
            BY <1>2, <1>3, <3>1
        <3> QED
            BY <1>5, <2>1, <3>2
    <2>3. \A i \in 1 .. Len(called) : Ample(called[i], room)
        BY <1>5, <1>6
    <2>4. /\ IsSeq(Distinct({}, called)) /\ Len(Distinct({}, called)) = Len(called)
          /\ Given(Distinct({}, called), called, {})
        BY <1>5, <2>1, <2>2, <2>3, DistinctGiven
    <2> QED
        BY <1>5, <1>7, <2>4
<1>9. DOMAIN tags = 1 .. n
    BY <1>8, Positions
<1>10. Elements(tags) \subseteq TagsFor(list)
    <2>1. ASSUME NEW i \in 1 .. n PROVE tags[i] \in TagsFor(list)
        <3>1. tags[i] \in Elements(Numbered[called[i]])
            BY <1>5, <1>8 DEF Given
        <3>2. PICK x : x = usable[i] /\ x \in Elements(list) /\ called[i] = x.tag
            BY <1>6
        <3>3. tags[i] \in Elements(Numbered[x.tag])
            BY <3>1, <3>2
        <3> QED
            BY <3>2, <3>3 DEF TagsFor
    <2> QED
        BY <1>9, <2>1 DEF Elements
<1>11. loopbackTags(list) \subseteq Elements(tags)
    BY <1>1, <1>3, <1>7, <1>9 DEF loopbackTags, Elements
<1> QED
    BY <1>2, <1>3, <1>7, <1>8, <1>10, <1>11

\* Outbounds that no automatic group is among change nothing.
LEMMA ChoicesBeside ==
    ASSUME NEW s, NEW t, IsSeq(s), IsSeq(t), NEW loopback, Choices(t, loopback),
           \A o \in Elems(s) : o.type # "urltest"
    PROVE  IsSeq(s \o t) /\ Choices(s \o t, loopback)
<1>1. IsSeq(s \o t) /\ Elems(s \o t) = Elems(s) \cup Elems(t)
    BY ElemsJoined
<1> QED
    BY <1>1 DEF Choices

\* The tags of the exits: of the nodes, then of the endpoints.
AllTags(list, eps) == memberTags(list) \o [i \in DOMAIN eps |-> eps[i].tag]

LEMMA AllTagsAre ==
    ASSUME NEW list, NEW eps, IsSeq(eps), IsSeq(memberTags(list))
    PROVE  /\ IsSeq(AllTags(list, eps))
           /\ Len(AllTags(list, eps)) = Len(memberTags(list)) + Len(eps)
           /\ Elements(AllTags(list, eps)) =
                Elements(memberTags(list)) \cup {e.tag : e \in Elements(eps)}
<1>1. PICK m \in Nat : m = Len(eps) /\ DOMAIN eps = 1 .. m
    BY Positions
<1>2. PICK more : more = [i \in DOMAIN eps |-> eps[i].tag]
    OBVIOUS
<1>3. IsSeq(more) /\ Len(more) = m
    <2>1. more = [i \in 1 .. m |-> more[i]]
        BY <1>1, <1>2
    <2> QED
        BY <2>1, Listing
<1>4. PICK tags : tags = memberTags(list)
    OBVIOUS
<1>5. IsSeq(tags)
    BY <1>4
<1>6. /\ IsSeq(tags \o more) /\ Len(tags \o more) = Len(tags) + m
      /\ Elems(tags \o more) = Elems(tags) \cup Elems(more)
    BY <1>3, <1>5, Joined, ElemsJoined
<1>7. Elements(tags \o more) = Elements(tags) \cup Elements(more)
    BY <1>3, <1>5, <1>6, SeqElements
<1>8. Elements(more) = {e.tag : e \in Elements(eps)}
    BY <1>2 DEF Elements
<1>9. AllTags(list, eps) = tags \o more
    BY <1>2, <1>4 DEF AllTags
<1> QED
    BY <1>1, <1>4, <1>6, <1>7, <1>8, <1>9

\* What the injectors make of the settings has the choices.
LEMMA OutsStay ==
    ASSUME NEW list, IsSeq(list), NEW eps, IsSeq(eps), NEW pg, Settled(pg),
           NEW room \in Nat, 2 * (Len(list) + Len(eps)) + Len(pg.groups) + 6 <= room,
           \A n \in Elements(list) : Ample(n.tag, room),
           \A name \in GroupNames(AllTags(list, eps), pg) : Proper(name, room),
           loopbackTags(list) # {}
    PROVE  Choices(injectOutbounds(list, eps, pg), loopbackTags(list))
<1>1. PICK ll \in Nat, le \in Nat, lp \in Nat : ll = Len(list) /\ le = Len(eps) /\ lp = Len(pg.groups)
    BY Positions DEF Settled
<1>2. 2 * (ll + le) + lp + 6 <= room
    BY <1>1
<1>3. PICK tags, loopback : tags = memberTags(list) /\ loopback = loopbackTags(list)
    OBVIOUS
<1>4. /\ IsSeq(tags) /\ Len(tags) <= ll
      /\ loopback \subseteq Elements(tags)
    <2>1. ll <= room
        BY <1>2
    <2>2. Len(list) <= room
        BY <1>1, <2>1
    <2> QED
        BY <1>1, <1>3, <2>2, TagsAre
<1>5. PICK all : all = AllTags(list, eps)
    OBVIOUS
<1>6. IsSeq(all) /\ Len(all) = Len(tags) + le /\ loopback \subseteq Elements(all)
    BY <1>1, <1>3, <1>4, <1>5, AllTagsAre
<1>7. 2 * Len(all) + Len(pg.groups) + 6 <= room
    <2>1. PICK lt \in Nat : lt = Len(tags)
        BY <1>4, Positions
    <2>2. lt <= ll /\ Len(all) = lt + le
        BY <1>4, <1>6, <2>1
    <2>3. 2 * (lt + le) + lp + 6 <= room
        BY <1>2, <2>2
    <2> QED
        BY <1>1, <2>2, <2>3
<1>8. all # <<>> /\ loopback # {}
    BY <1>3, <1>6, NoElements
<1>9. PICK last : last = buildProxyGroups(all, loopback, pg)
    OBVIOUS
<1>10. \A name \in GroupNames(all, pg) : Proper(name, room)
    BY <1>5
<1>11. Choices(buildProxyGroups(all, loopback, pg), loopback)
    BY <1>6, <1>7, <1>8, <1>10, GroupsStay
<1>12. IsSeq(last) /\ Choices(last, loopback)
    <2>1. Outs(buildProxyGroups(all, loopback, pg))
        BY <1>6, GroupsMade
    <2> QED
        BY <1>9, <1>11, <2>1 DEF Outs
<1>13. PICK usable : usable = Usable(list) /\ IsSeq(usable)
    BY NodesUsable
<1>14. PICK n \in Nat : n = Len(usable) /\ DOMAIN usable = 1 .. n
    BY <1>13, Positions
<1>15. PICK made : made = [i \in DOMAIN usable |-> Out(tags[i], "node", <<>>, usable[i].host)]
    OBVIOUS
<1>16. IsSeq(made) /\ \A o \in Elems(made) : o.type # "urltest"
    <2>1. made = [i \in 1 .. n |-> made[i]]
        BY <1>14, <1>15
    <2>2. IsSeq(made) /\ Len(made) = n
        BY <2>1, Listing
    <2>3. ASSUME NEW i \in 1 .. n PROVE made[i].type # "urltest"
        <3>1. made[i] = Out(tags[i], "node", <<>>, usable[i].host)
            BY <1>14, <1>15
        <3>2. PICK a, h : a = tags[i] /\ h = usable[i].host
            OBVIOUS
        <3>3. Out(a, "node", <<>>, h).type = "node"
            BY DEF Out
        <3> QED
            BY <3>1, <3>2, <3>3
    <2> QED
        BY <2>2, <2>3 DEF Elems
<1>17. PICK d, b : d = Out("direct", "direct", <<>>, "") /\ b = Out("blocked", "block", <<>>, "")
    OBVIOUS
<1>18. d.type # "urltest" /\ b.type # "urltest"
    BY <1>17 DEF Out
<1>19. PICK own : own = <<d, b>>
    OBVIOUS
<1>20. IsSeq(own) /\ \A o \in Elems(own) : o.type # "urltest"
    <2>1. own \in Seq({d, b}) /\ Len(own) = 2 /\ own[1] = d /\ own[2] = b
        BY <1>19
    <2>2. \A i \in 1 .. 2 : i = 1 \/ i = 2
        OBVIOUS
    <2> QED
        BY <1>18, <2>1, <2>2 DEF IsSeq, Elems
<1>21. IsSeq(own \o made) /\ \A o \in Elems(own \o made) : o.type # "urltest"
    BY <1>16, <1>20, ElemsJoined
<1>22. Choices((own \o made) \o last, loopback)
    BY <1>12, <1>21, ChoicesBeside
<1>23. injectOutbounds(list, eps, pg) = (own \o made) \o last
    BY <1>3, <1>5, <1>9, <1>13, <1>15, <1>17, <1>19 DEF injectOutbounds, AllTags
<1> QED
    BY <1>3, <1>22, <1>23

\* Resolvers make no difference.
LEMMA PinnedStays ==
    ASSUME NEW s, Laid(s), NEW loopback, Choices(s, loopback)
    PROVE  Choices(Pinned(s), loopback)
<1>1. PICK n \in Nat : n = Len(s) /\ DOMAIN s = 1 .. n
    BY Positions DEF Laid
<1>2. PICK t : t = Pinned(s)
    OBVIOUS
<1>3. IsSeq(t) /\ Len(t) = n
    <2>1. t = [i \in 1 .. n |-> t[i]]
        BY <1>1, <1>2 DEF Pinned
    <2> QED
        BY <2>1, Listing
<1>4. ASSUME NEW i \in 1 .. n
      PROVE  t[i].tag = s[i].tag /\ t[i].type = s[i].type /\ t[i].members = s[i].members
    <2>1. t[i] = Pin(s[i])
        BY <1>1, <1>2 DEF Pinned
    <2>2. Kept(s[i])
        BY <1>1 DEF Laid, Elems
    <2>3. /\ Pin(s[i]).tag = s[i].tag /\ Pin(s[i]).type = s[i].type
          /\ Pin(s[i]).members = s[i].members
        BY <2>2, PinIs
    <2> QED
        BY <2>1, <2>3
<1>5. \A i \in 1 .. n : s[i] \in Elems(s) /\ t[i] \in Elems(t)
    BY <1>1, <1>3 DEF Elems
<1>6. ASSUME NEW o \in Elems(t), o.type = "urltest"
      PROVE  o.tag # "proxy" /\ (o.tag = "Local" => OneSide(o, loopback))
    <2>1. PICK i \in 1 .. n : o = t[i]
        BY <1>3 DEF Elems
    <2>2. s[i].tag # "proxy" /\ (s[i].tag = "Local" => OneSide(s[i], loopback))
        BY <1>4, <1>5, <1>6, <2>1 DEF Choices
    <2> QED
        BY <1>4, <2>1, <2>2 DEF OneSide
<1>7. ASSUME loopback # {}
      PROVE  \E g, p \in Elems(t) : /\ IsGroup(g) /\ Elements(g.members) = loopback
                                    /\ p.tag = "proxy" /\ g.tag \in Elements(p.members)
    <2>1. PICK g \in Elems(s), p \in Elems(s) :
            /\ IsGroup(g) /\ Elements(g.members) = loopback
            /\ p.tag = "proxy" /\ g.tag \in Elements(p.members)
        BY <1>7 DEF Choices
    <2>2. PICK i \in 1 .. n, j \in 1 .. n : g = s[i] /\ p = s[j]
        BY <1>1 DEF Elems
    <2>3. IsGroup(t[i]) /\ Elements(t[i].members) = loopback
        BY <1>4, <2>1, <2>2 DEF IsGroup
    <2>4. t[j].tag = "proxy" /\ t[i].tag \in Elements(t[j].members)
        BY <1>4, <2>1, <2>2
    <2> QED
        BY <1>5, <2>3, <2>4
<1> QED
    BY <1>2, <1>6, <1>7 DEF Choices

\* The settings are those that may be passed, and name what may be named.
Fits(s) ==
    /\ \A i \in DOMAIN s.groups : s.groups[i] \in UserGroup
    /\ \E pg \in GroupConfigs \cup GroupFiles : Len(s.groups) <= Len(pg.groups)
NamesInv ==
    /\ nodes \in NodeLists \cup {<<>>} /\ exits \in ExitLists \cup {<<>>}
    /\ endpoints \in EndpointLists \cup {<<>>}
    /\ Fits(groups)

LEMMA NamesAreProper ==
    ASSUME NEW n \in NodeLists \cup {<<>>}, NEW x \in ExitLists \cup {<<>>},
           NEW e \in EndpointLists \cup {<<>>}, NEW pg \in GroupConfigs \cup GroupFiles,
           NEW name \in AnyName
    PROVE  Proper(name, MostTags(n, x, e, pg))
<1>1. /\ Numbered[name] \in Seq(STRING) /\ Numbered[name][1] = name
      /\ \A i, j \in DOMAIN Numbered[name] : Numbered[name][i] = Numbered[name][j] => i = j
      /\ "Local" \in Elements(Numbered[name]) => name = "Local"
    BY NamesAssumption
<1>2. MostTags(n, x, e, pg) < Len(Numbered[name])
    BY NamesAssumption
<1>3. IsSeq(Numbered[name])
    BY <1>1 DEF IsSeq
<1> QED
    BY <1>1, <1>2, <1>3 DEF Proper, Ample

\* The nodes in use are among those applied.
LEMMA EligibleAre ==
    ASSUME NEW n, IsSeq(n), NEW x, IsSeq(x), NEW off,
           NEW list, list = FilterEligibleNodes(n \o x, off)
    PROVE  /\ IsSeq(list) /\ Len(list) <= Len(n) + Len(x)
           /\ Elements(list) \subseteq Elements(n) \cup Elements(x)
<1>1. PICK s : s = n \o x
    OBVIOUS
<1>2. IsSeq(s) /\ Len(s) = Len(n) + Len(x) /\ Elems(s) = Elems(n) \cup Elems(x)
    BY <1>1, Joined, ElemsJoined
<1>3. Elements(s) = Elements(n) \cup Elements(x)
    BY <1>2, SeqElements
<1>4. PICK usable : usable = Usable(s)
    OBVIOUS
<1>5. IsSeq(usable) /\ Len(usable) <= Len(s) /\ Elements(usable) \subseteq Elements(s)
    BY <1>2, <1>4, UsableAre
<1>6. PICK S : S = {i \in DOMAIN usable : ~usable[i].junk /\ memberTags(s)[i] \notin off}
    OBVIOUS
<1>7. S \subseteq DOMAIN usable /\ list = Only(usable, S)
    BY <1>1, <1>4, <1>6 DEF FilterEligibleNodes
<1>8. /\ IsSeq(list) /\ Len(list) <= Len(usable)
      /\ Elements(list) = {usable[i] : i \in S}
    BY <1>5, <1>7, OnlyPicks
<1>9. Elements(list) \subseteq Elements(usable)
    BY <1>7, <1>8 DEF Elements
<1>10. Len(list) \in Nat /\ Len(usable) \in Nat /\ Len(s) \in Nat
    BY <1>2, <1>5, <1>8, Positions
<1> QED
    BY <1>2, <1>3, <1>5, <1>8, <1>9, <1>10

LEMMA EndpointsAre ==
    ASSUME NEW list, IsSeq(list)
    PROVE  /\ IsSeq(injectEndpoints(list)) /\ Len(injectEndpoints(list)) <= Len(list)
           /\ \A o \in Elements(injectEndpoints(list)) : \E e \in Elements(list) : o.tag = e.tag
<1>1. PICK S : S = {i \in DOMAIN list : list[i].enabled}
    OBVIOUS
<1>2. S \subseteq DOMAIN list
    BY <1>1
<1>3. PICK enabled : enabled = Only(list, S)
    OBVIOUS
<1>4. /\ IsSeq(enabled) /\ Len(enabled) <= Len(list)
      /\ Elements(enabled) = {list[i] : i \in S}
    BY <1>2, <1>3, OnlyPicks
<1>5. PICK n \in Nat : n = Len(enabled) /\ DOMAIN enabled = 1 .. n
    BY <1>4, Positions
<1>6. PICK made : made = [i \in DOMAIN enabled |-> Out(enabled[i].tag, "endpoint", <<>>, enabled[i].host)]
    OBVIOUS
<1>7. IsSeq(made) /\ Len(made) = n /\ DOMAIN made = 1 .. n
    <2>1. made = [i \in 1 .. n |-> made[i]]
        BY <1>5, <1>6
    <2> QED
        BY <1>5, <1>6, <2>1, Listing
<1>8. ASSUME NEW i \in 1 .. n PROVE \E e \in Elements(list) : made[i].tag = e.tag
    <2>1. PICK t, h : t = enabled[i].tag /\ h = enabled[i].host
        OBVIOUS
    <2>2. made[i] = Out(t, "endpoint", <<>>, h)
        BY <1>5, <1>6, <2>1
    <2>3. Out(t, "endpoint", <<>>, h).tag = t
        BY DEF Out
    <2>4. enabled[i] \in Elements(list)
        BY <1>2, <1>4, <1>5 DEF Elements
    <2> QED
        BY <2>1, <2>2, <2>3, <2>4
<1>9. injectEndpoints(list) = made
    BY <1>1, <1>3, <1>6 DEF injectEndpoints
<1>10. \A o \in Elements(made) : \E e \in Elements(list) : o.tag = e.tag
    BY <1>7, <1>8 DEF Elements
<1> QED
    BY <1>4, <1>5, <1>7, <1>9, <1>10

\* The nodes that are applied are known.
LEMMA NodesKnown ==
    ASSUME NamesInv
    PROVE  Elements(nodes) \cup Elements(exits) \subseteq Listed(NodeLists \cup ExitLists)
<1>1. Elements(<<>>) = {}
    BY DEF Elements
<1> QED
    BY <1>1 DEF NamesInv, Listed

LEMMA EndpointsKnown ==
    ASSUME NamesInv
    PROVE  Elements(endpoints) \subseteq Listed(EndpointLists)
<1>1. Elements(<<>>) = {}
    BY DEF Elements
<1> QED
    BY <1>1 DEF NamesInv, Listed

LEMMA EndpointTagged ==
    ASSUME NEW x \in Listed(EndpointLists)
    PROVE  x.tag \in NodeTag
BY DEF NodeTag

LEMMA MostIs ==
    ASSUME NEW n, NEW x, NEW e, NEW pg
    PROVE  MostTags(n, x, e, pg) = 2 * (Len(n) + Len(x) + Len(e)) + Len(pg.groups) + 6
BY Zenon DEF MostTags

\* What the settings make has the choices.
LEMMA SettingsChoose ==
    ASSUME GenInv, NamesInv, NEW eps, eps = injectEndpoints(endpoints),
           loopbackTags(Eligible) # {}
    PROVE  Choices(injectOutbounds(Eligible, eps, groups), loopbackTags(Eligible))
<1>1. PICK list : list = Eligible
    OBVIOUS
<1>2. /\ IsSeq(list) /\ Len(list) <= Len(nodes) + Len(exits)
      /\ Elements(list) \subseteq Listed(NodeLists \cup ExitLists)
    <2>1. IsSeq(nodes) /\ IsSeq(exits)
        BY DEF GenInv
    <2>2. list = FilterEligibleNodes(nodes \o exits, disabled)
        BY <1>1 DEF Eligible
    <2> QED
        BY <2>1, <2>2, EligibleAre, NodesKnown
<1>3. /\ IsSeq(eps) /\ Len(eps) <= Len(endpoints)
      /\ \A o \in Elements(eps) : \E e \in Listed(EndpointLists) : o.tag = e.tag
    BY EndpointsAre, EndpointsKnown DEF GenInv
<1>4. PICK pg \in GroupConfigs \cup GroupFiles : Len(groups.groups) <= Len(pg.groups)
    BY DEF NamesInv, Fits
<1>5. PICK ln \in Nat, lx \in Nat, le \in Nat, lp \in Nat, lg \in Nat :
        /\ ln = Len(nodes) /\ lx = Len(exits) /\ le = Len(endpoints) /\ lp = Len(pg.groups)
        /\ lg = Len(groups.groups)
    <2>1. IsSeq(pg.groups) /\ IsSeq(groups.groups)
        BY GroupsSettled DEF GenInv, Settled
    <2> QED
        BY <2>1, Positions DEF GenInv
<1>6. PICK room : room = MostTags(nodes, exits, endpoints, pg)
    OBVIOUS
<1>7. room \in Nat /\ room = 2 * (ln + lx + le) + lp + 6
    <2>1. room = 2 * (Len(nodes) + Len(exits) + Len(endpoints)) + Len(pg.groups) + 6
        BY <1>6, MostIs
    <2>2. room = 2 * (ln + lx + le) + lp + 6
        <3>1. Len(nodes) = ln /\ Len(exits) = lx /\ Len(endpoints) = le /\ Len(pg.groups) = lp
            BY <1>5
        <3> QED
            BY <2>1, <3>1, Zenon
    <2>3. 2 * (ln + lx + le) + lp + 6 \in Nat
        OBVIOUS
    <2> QED
        BY <2>2, <2>3, Zenon
<1>8. \A name \in AnyName : Proper(name, room)
    BY <1>4, <1>6, NamesAreProper DEF NamesInv
<1>9. PICK ll \in Nat, lo \in Nat : ll = Len(list) /\ lo = Len(eps)
    BY <1>2, <1>3, Positions
<1>10. ll <= ln + lx /\ lo <= le /\ lg <= lp
    BY <1>2, <1>3, <1>4, <1>5, <1>9
<1>11. 2 * (Len(list) + Len(eps)) + Len(groups.groups) + 6 <= room
    <2>1. 2 * (ll + lo) + lg + 6 <= room
        BY <1>7, <1>10
    <2> QED
        BY <1>5, <1>9, <2>1
<1>12. Len(list) <= room
    <2>1. ll <= room
        BY <1>7, <1>10
    <2> QED
        BY <1>9, <2>1
<1>13. \A n \in Elements(list) : n.tag \in NodeName
    BY <1>2 DEF NodeName
<1>14. \A n \in Elements(list) : Ample(n.tag, room)
    BY <1>8, <1>13 DEF AnyName, Proper
<1>15. /\ IsSeq(memberTags(list))
       /\ Elements(memberTags(list)) \subseteq TagsFor(list)
    BY <1>2, <1>7, <1>12, <1>14, TagsAre
<1>16. TagsFor(list) \subseteq NodeTag
    BY <1>13 DEF TagsFor, NodeTag
<1>17. Elements(AllTags(list, eps)) \subseteq NodeTag
    <2>1. Elements(AllTags(list, eps)) =
            Elements(memberTags(list)) \cup {e.tag : e \in Elements(eps)}
        BY <1>3, <1>15, AllTagsAre
    <2>2. ASSUME NEW o \in Elements(eps) PROVE o.tag \in NodeTag
        <3>1. PICK e \in Listed(EndpointLists) : o.tag = e.tag
            BY <1>3
        <3> QED
            BY <3>1, EndpointTagged
    <2> QED
        BY <1>15, <1>16, <2>1, <2>2
<1>18. \A i \in DOMAIN groups.groups : groups.groups[i].name \in AnyName
    BY DEF NamesInv, Fits, AnyName
<1>19. GroupNames(AllTags(list, eps), groups) \subseteq AnyName
    BY <1>17, <1>18 DEF GroupNames, AnyName
<1>20. \A name \in GroupNames(AllTags(list, eps), groups) : Proper(name, room)
    BY <1>8, <1>19
<1>21. loopbackTags(list) # {}
    BY <1>1
<1>22. Choices(injectOutbounds(list, eps, groups), loopbackTags(list))
    <2>1. PICK s : s = groups /\ Settled(s)
        BY DEF GenInv
    <2>2. /\ 2 * (Len(list) + Len(eps)) + Len(s.groups) + 6 <= room
          /\ \A name \in GroupNames(AllTags(list, eps), s) : Proper(name, room)
        BY <1>11, <1>20, <2>1
    <2>3. Choices(injectOutbounds(list, eps, s), loopbackTags(list))
        BY <1>2, <1>3, <1>7, <1>14, <1>21, <2>1, <2>2, OutsStay
    <2> QED
        BY <2>1, <2>3
<1> QED
    BY <1>1, <1>22

(* The exits on this machine: from the injectors to the repair.             *)

\* The mode of capture is none of the outbounds' business.
LEMMA ModeKeepsOuts ==
    ASSUME NEW c, Plain(c), Resolving(c), NEW s, s = applyMode(c)
    PROVE  s.outs = c.outs
<1>1. CASE mode # "tun"
    BY <1>1 DEF applyMode
<1>2. CASE mode = "tun"
    <2>1. PICK x : x = [c EXCEPT !.inbounds = {"tun", "mixed"}]
        OBVIOUS
    <2>a. IsConfig(c)
        BY DEF Plain
    <2>2. IsConfig(x) /\ x.outs = c.outs
        BY <2>1, <2>a, InboundsChanged
    <2>3. s = sanitizeTunDNS(x)
        BY <1>2, <2>1 DEF applyMode
    <2>4. s.outs = x.outs
        BY <2>2, <2>3, SanitizedIs
    <2> QED
        BY <2>2, <2>4
<1> QED
    BY <1>1, <1>2

LEMMA TunKeepsOuts ==
    ASSUME NEW c, Plain(c), Resolving(c), NEW s, s = EnforceTun(c)
    PROVE  s.outs = c.outs
<1>1. CASE mode # "tun"
    BY <1>1 DEF EnforceTun
<1>2. CASE mode = "tun"
    <2>1. PICK x : x = sanitizeTunDNS(c)
        OBVIOUS
    <2>2. IsConfig(x) /\ x.outs = c.outs
        BY <2>1, SanitizedIs DEF Plain
    <2>3. s = [x EXCEPT !.rules = ensureTunHijack(x.rules)]
        BY <1>2, <2>1 DEF EnforceTun
    <2>4. s.outs = x.outs
        BY <2>2, <2>3, RulesChanged
    <2> QED
        BY <2>2, <2>4
<1> QED
    BY <1>1, <1>2

\* The outbounds reach the repair as they were injected, save for resolvers.
LEMMA PreparedOuts ==
    ASSUME GenInv, NEW eps, IsSeq(eps)
    PROVE  /\ IsConfig(Prepared(eps)) /\ Laid(Prepared(eps).outs)
           /\ Prepared(eps).outs = injectOutbounds(Eligible, eps, groups)
<1>1. PICK outs : outs = injectOutbounds(Eligible, eps, groups)
    OBVIOUS
<1>2. Outs(outs) /\ HasProxy(outs)
    <2>1. PICK list, pg : list = Eligible /\ pg = groups
        OBVIOUS
    <2>2. IsSeq(list) /\ Settled(pg)
        BY <2>1, EligibleSeq DEF GenInv
    <2>3. Outs(injectOutbounds(list, eps, pg)) /\ HasProxy(injectOutbounds(list, eps, pg))
        BY <2>2, OutsMade
    <2> QED
        BY <1>1, <2>1, <2>3
<1>3. SoundDNS /\ IsSeq(Merged)
    <2>1. IsSeq(base.rules) /\ IsSeq(cr)
        BY DEF GenInv
    <2> QED
        BY <2>1, MergedSeq DEF GenInv
<1>4. PICK a : a = Injected(outs, eps, injectDNS(dns))
    OBVIOUS
<1>5. Plain(a) /\ Resolving(a)
    BY <1>2, <1>3, <1>4, InjectedPlain
<1>6. a.outs = outs
    BY <1>4 DEF Injected
<1>7. PICK b : b = applyMode(a)
    OBVIOUS
<1>8. Plain(b) /\ Resolving(b) /\ b.outs = outs
    BY <1>5, <1>6, <1>7, ModeApplied, ModeKeepsOuts
<1>9. PICK c : c = EnforceTun(b)
    OBVIOUS
<1>10. Plain(c) /\ Resolving(c) /\ c.outs = outs
    BY <1>8, <1>9, TunEnforced, TunKeepsOuts
<1>11. PICK d : d = CheckTun(c)
    OBVIOUS
<1>12. Plain(d) /\ d.outs = outs
    <2>1. Plain(d)
        BY <1>10, <1>11, TunChecked
    <2>2. PICK v : v = (mode = "tun" => assertDNSRealUpstream(c))
        OBVIOUS
    <2>3. d = [c EXCEPT !.ok = v]
        BY <1>11, <2>2 DEF CheckTun
    <2>a. IsConfig(c)
        BY <1>10 DEF Plain
    <2>4. d.outs = c.outs
        BY <2>3, <2>a, OkChanged
    <2> QED
        BY <1>10, <2>1, <2>4
<1>13. Prepared(eps) = d
    BY <1>1, <1>4, <1>7, <1>9, <1>11 DEF Prepared
<1> QED
    BY <1>1, <1>12, <1>13 DEF Plain

LEMMA SteeredOuts ==
    ASSUME NEW c, IsConfig(c), Laid(c.outs), HasProxy(c.outs), NEW x, x = injectDirectDNS(c, dns)
    PROVE  /\ IsConfig(x) /\ Laid(x.outs)
           /\ x.outs = c.outs \/ x.outs = Pinned(c.outs)
<1>1. CASE ~dns.split
    <2>1. x = c
        BY <1>1 DEF injectDirectDNS
    <2> QED
        BY <2>1
<1>2. CASE dns.split
    <2>1. /\ ~Splits(c) => x = c
          /\ Splits(c) => IsConfig(x) /\ x.outs = Pinned(c.outs)
        BY <1>2, SplitIs
    <2>2. Laid(Pinned(c.outs))
        BY PinnedIs
    <2>3. CASE Splits(c)
        <3>1. IsConfig(x) /\ x.outs = Pinned(c.outs)
            BY <2>1, <2>3
        <3> QED
            BY <2>2, <3>1
    <2>4. CASE ~Splits(c)
        <3>1. x = c
            BY <2>1, <2>4
        <3> QED
            BY <3>1
    <2> QED
        BY <2>3, <2>4
<1> QED
    BY <1>1, <1>2

\* The exits on this machine stay a choice by hand.
LEMMA SettingsStay ==
    ASSUME GenInv, NamesInv
    PROVE  LocalExitsStayManual
<1>1. PICK eps : eps = injectEndpoints(endpoints)
    OBVIOUS
<1>2. IsSeq(eps)
    BY <1>1, EndpointsMade DEF GenInv
<1>3. PICK loopback : loopback = loopbackTags(Eligible)
    OBVIOUS
<1>4. PICK c : c = Prepared(eps)
    OBVIOUS
<1>5. IsConfig(c) /\ Laid(c.outs) /\ HasProxy(c.outs)
    BY <1>2, <1>4, PreparedPlain DEF Plain
<1>6. PICK x : x = injectDirectDNS(c, dns)
    OBVIOUS
<1>7. IsConfig(x) /\ Laid(x.outs) /\ (x.outs = c.outs \/ x.outs = Pinned(c.outs))
    BY <1>5, <1>6, SteeredOuts
<1>8. PICK h : h = healBootstrapDNS(x, dns)
    OBVIOUS
<1>9. IsConfig(h) /\ h.outs = x.outs
    <2>1. /\ ~Heals(x) => h = x
          /\ Heals(x) => IsConfig(h) /\ h.outs = x.outs
        BY <1>7, <1>8, HealIs
    <2>2. CASE Heals(x)
        BY <2>1, <2>2
    <2>3. CASE ~Heals(x)
        <3>1. h = x
            BY <2>1, <2>3
        <3> QED
            BY <1>7, <3>1
    <2> QED
        BY <2>2, <2>3
<1>10. PICK outs : outs = h.outs
    OBVIOUS
<1>11. Laid(outs)
    BY <1>7, <1>9, <1>10
<1>12. loopback # {} => Choices(outs, loopback)
    <2>1. ASSUME loopback # {} PROVE Choices(c.outs, loopback)
        <3>1. Choices(injectOutbounds(Eligible, eps, groups), loopbackTags(Eligible))
            BY <1>1, <1>3, <2>1, SettingsChoose
        <3>2. c.outs = injectOutbounds(Eligible, eps, groups)
            BY <1>2, <1>4, PreparedOuts
        <3> QED
            BY <1>3, <3>1, <3>2
    <2>2. ASSUME loopback # {} PROVE Choices(Pinned(c.outs), loopback)
        BY <1>5, <2>1, <2>2, PinnedStays
    <2> QED
        BY <1>7, <1>9, <1>10, <2>1, <2>2
<1>13. StayManual(repairProxyGroupLoopbacks(outs, loopback), loopback)
    BY <1>11, <1>12, RepairStays
<1>14. PICK e : e = Ended(h)
    OBVIOUS
<1>15. e.outs = repairProxyGroupLoopbacks(outs, loopback)
    BY <1>3, <1>9, <1>10, <1>14, EndedIs
<1>16. Config = e
    BY <1>1, <1>4, <1>6, <1>8, <1>14, ConfigIs DEF Steered
<1> QED
    BY <1>3, <1>13, <1>15, <1>16 DEF LocalExitsStayManual

\* What is saved or loaded fits.
LEMMA GroupsFit ==
    ASSUME NEW pg \in GroupConfigs \cup GroupFiles
    PROVE  Fits(pg) /\ Fits(SanitizedGroups(pg))
<1>1. PICK g : g = pg.groups
    OBVIOUS
<1>2. g \in Seq(UserGroup)
    BY <1>1, ResolversAssumption
<1>3. IsSeq(g) /\ \A i \in DOMAIN g : g[i] \in UserGroup
    BY <1>2, MemberOf DEF IsSeq
<1>4. Fits(pg)
    <2>1. Len(pg.groups) <= Len(pg.groups)
        <3>1. Len(g) \in Nat
            BY <1>3, Positions
        <3> QED
            BY <1>1, <3>1
    <2> QED
        BY <1>1, <1>3, <2>1 DEF Fits
<1>5. PICK s : s = SanitizedGroups(pg)
    OBVIOUS
<1>6. PICK kept : kept \subseteq DOMAIN g /\ s.groups = Only(g, kept)
    <2>1. PICK valid : valid = {i \in DOMAIN pg.groups : validateGroup(pg.groups[i])}
        OBVIOUS
    <2>2. PICK kept : kept = {i \in valid : \A j \in valid : j < i => pg.groups[j].name # pg.groups[i].name}
        OBVIOUS
    <2>3. PICK f : f = IF validateFailover(pg.failover) THEN pg.failover ELSE [interval |-> 0, idle |-> 0]
        OBVIOUS
    <2>4. PICK o : o = Only(g, kept)
        OBVIOUS
    <2>5. s = [pg EXCEPT !.groups = o, !.failover = f]
        BY <1>1, <1>5, <2>1, <2>2, <2>3, <2>4 DEF SanitizedGroups
    <2>6. PICK a, x, l : pg = [autoCountry |-> a, exclude |-> x, groups |-> g, failover |-> l]
        BY <1>1, ResolversAssumption
    <2>7. s = [autoCountry |-> a, exclude |-> x, groups |-> o, failover |-> f]
        BY <2>5, <2>6
    <2>8. s.groups = o
        BY <2>7
    <2> QED
        BY <1>1, <2>1, <2>2, <2>4, <2>8
<1>7. PICK o : o = Only(g, kept)
    OBVIOUS
<1>8. IsSeq(o) /\ Len(o) <= Len(g) /\ Elements(o) = {g[i] : i \in kept}
    BY <1>3, <1>6, <1>7, OnlyPicks
<1>9. \A i \in DOMAIN o : o[i] \in UserGroup
    <2>1. Elements(o) \subseteq UserGroup
        BY <1>3, <1>6, <1>8
    <2> QED
        BY <2>1 DEF Elements
<1>10. Fits(s)
    BY <1>1, <1>6, <1>7, <1>8, <1>9 DEF Fits
<1> QED
    BY <1>4, <1>5, <1>10

LEMMA NamesInit ==
    ASSUME GenInit
    PROVE  NamesInv
BY GroupsFit DEF GenInit, NamesInv

LEMMA NamesChange ==
    ASSUME NamesInv, NEW part, NEW value, Change(part, value),
           part = "nodes" => value \in NodeLists, part = "exits" => value \in ExitLists,
           part = "endpoints" => value \in EndpointLists, part = "groups" => Fits(value)
    PROVE  NamesInv'
<1>1. PICK s : s = Changed(part, value)
    OBVIOUS
<1>2. nodes' = s.nodes /\ exits' = s.exits /\ endpoints' = s.endpoints /\ groups' = s.groups
    BY <1>1 DEF Change, Changed
<1>3. Fields(s, part, value)
    BY <1>1, PartChanged
<1>4. nodes' = nodes \/ nodes' \in NodeLists
    BY <1>2, <1>3 DEF Fields
<1>5. exits' = exits \/ exits' \in ExitLists
    BY <1>2, <1>3 DEF Fields
<1>6. endpoints' = endpoints \/ endpoints' \in EndpointLists
    BY <1>2, <1>3 DEF Fields
<1>7. groups' = groups \/ Fits(groups')
    BY <1>2, <1>3 DEF Fields
<1>8. Fits(groups)'
    BY <1>7 DEF NamesInv, Fits
<1> QED
    BY <1>4, <1>5, <1>6, <1>8 DEF NamesInv

LEMMA NamesNext ==
    ASSUME NamesInv, [GenNext]_<<vars, settings>>
    PROVE  NamesInv'
<1>1. CASE UNCHANGED settings
    <2>1. UNCHANGED <<nodes, exits, endpoints, groups>>
        BY <1>1 DEF settings
    <2> QED
        BY <2>1 DEF NamesInv, Fits
<1>2. CASE SetNodes
    BY <1>2, NamesChange DEF SetNodes
<1>3. CASE SetGatewayExits
    BY <1>3, NamesChange DEF SetGatewayExits
<1>4. CASE SetDisabledNodes
    BY <1>4, NamesChange DEF SetDisabledNodes
<1>5. CASE SetEndpoints
    BY <1>5, NamesChange DEF SetEndpoints
<1>6. CASE SetProxyGroups
    <2>1. PICK pg \in GroupConfigs : Change("groups", pg)
        BY <1>6 DEF SetProxyGroups
    <2>2. Fits(pg)
        BY GroupsFit
    <2> QED
        BY <2>1, <2>2, NamesChange
<1>7. CASE SetDNS
    BY <1>7, NamesChange DEF SetDNS
<1>8. CASE SetCapture
    BY <1>8, NamesChange DEF SetCapture
<1> QED
    BY <1>1, <1>2, <1>3, <1>4, <1>5, <1>6, <1>7, <1>8 DEF GenNext, SetPolicy

LEMMA NamesHold == GenSpec => []NamesInv
<1>1. GenInit => NamesInv
    BY NamesInit
<1>2. NamesInv /\ [GenNext]_<<vars, settings>> => NamesInv'
    BY NamesNext
<1> QED
    BY <1>1, <1>2, PTL DEF GenSpec

\* Whatever is saved, and in whatever order, no automatic choice falls on an exit
\* on this machine while a group has another member, and such an exit can still
\* be chosen by hand (repairProxyGroupLoopbacks).
THEOREM LocalExitsStay == GenSpec => []LocalExitsStayManual
BY SettingsHold, NamesHold, SettingsStay, PTL
=============================================================================
