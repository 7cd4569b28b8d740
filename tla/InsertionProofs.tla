--------------------------- MODULE InsertionProofs --------------------------
(* Proof of InsertionRight, of the incremental insertion of triangle.c, for *)
(* all points.  In this order: the arithmetic of turns and circles; the box *)
(* of boundingbox and the three corners that count as infinitely far; a     *)
(* sound mesh, and that turning an edge and splitting a triangle or an edge *)
(* keep it sound; that edges are only turned where that is so; the search;  *)
(* the invariant of the insertion, and the way around the box.              *)
EXTENDS DivConq, Segments, Holes, FiniteSetTheorems, WellFoundedInduction, TLAPS

\* The first two coordinates of p are integers.
IsPlace(p) == p[1] \in Int /\ p[2] \in Int

\* What the sign of a product and of one factor say of the other.
LEMMA SignOfProduct ==
  ASSUME NEW x \in Int, NEW y \in Int
  PROVE  /\ x * y \in Int
         /\ x > 0 /\ y > 0 => x * y > 0
         /\ x > 0 /\ y >= 0 => x * y >= 0
         /\ x > 0 /\ x * y > 0 => y > 0
         /\ x > 0 /\ x * y >= 0 => y >= 0
         /\ x > 0 /\ x * y = 0 => y = 0
         /\ x > 0 /\ y <= 0 => x * y <= 0
BY SMT

\* A difference of a number that is not positive and two that are not negative.
LEMMA NotPositive ==
  ASSUME NEW x \in Int, NEW y \in Int, NEW z \in Int, NEW t, t = x - y - z, x <= 0, y >= 0, z >= 0
  PROVE  ~(t > 0)
OBVIOUS

\* Counterclockwise is an integer that stays when its points turn around, changes
\* its sign when two of them change places, and is 0 where two are in one place.
LEMMA Turning ==
  ASSUME NEW a, NEW b, NEW c, IsPlace(a), IsPlace(b), IsPlace(c)
  PROVE  /\ Counterclockwise(a, b, c) \in Int
         /\ Counterclockwise(b, c, a) = Counterclockwise(a, b, c)
         /\ Counterclockwise(c, a, b) = Counterclockwise(a, b, c)
         /\ Counterclockwise(b, a, c) = -Counterclockwise(a, b, c)
         /\ SamePlace(a, b) \/ SamePlace(b, c) \/ SamePlace(a, c) =>
              Counterclockwise(a, b, c) = 0
<1>1. PICK x1 \in Int, y1 \in Int : a[1] = x1 /\ a[2] = y1
  BY DEF IsPlace
<1>2. PICK x2 \in Int, y2 \in Int : b[1] = x2 /\ b[2] = y2
  BY DEF IsPlace
<1>3. PICK x3 \in Int, y3 \in Int : c[1] = x3 /\ c[2] = y3
  BY DEF IsPlace
<1>4. /\ Counterclockwise(a, b, c) = (x1 - x3) * (y2 - y3) - (y1 - y3) * (x2 - x3)
      /\ Counterclockwise(b, c, a) = (x2 - x1) * (y3 - y1) - (y2 - y1) * (x3 - x1)
      /\ Counterclockwise(c, a, b) = (x3 - x2) * (y1 - y2) - (y3 - y2) * (x1 - x2)
      /\ Counterclockwise(b, a, c) = (x2 - x3) * (y1 - y3) - (y2 - y3) * (x1 - x3)
  BY <1>1, <1>2, <1>3, Zenon DEF Counterclockwise
<1>5. /\ SamePlace(a, b) <=> x1 = x2 /\ y1 = y2
      /\ SamePlace(b, c) <=> x2 = x3 /\ y2 = y3
      /\ SamePlace(a, c) <=> x1 = x3 /\ y1 = y3
  BY <1>1, <1>2, <1>3 DEF SamePlace
<1>6. (x1 - x3) * (y2 - y3) - (y1 - y3) * (x2 - x3) = 0 \/
        ~((x1 = x2 /\ y1 = y2) \/ (x2 = x3 /\ y2 = y3) \/ (x1 = x3 /\ y1 = y3))
  BY SMT
<1>7. /\ (x1 - x3) * (y2 - y3) - (y1 - y3) * (x2 - x3) \in Int
      /\ (x2 - x1) * (y3 - y1) - (y2 - y1) * (x3 - x1) = (x1 - x3) * (y2 - y3) - (y1 - y3) * (x2 - x3)
      /\ (x3 - x2) * (y1 - y2) - (y3 - y2) * (x1 - x2) = (x1 - x3) * (y2 - y3) - (y1 - y3) * (x2 - x3)
      /\ (x2 - x3) * (y1 - y3) - (y2 - y3) * (x1 - x3) = -((x1 - x3) * (y2 - y3) - (y1 - y3) * (x2 - x3))
  BY SMT
<1> DEFINE s == (x1 - x3) * (y2 - y3) - (y1 - y3) * (x2 - x3)
<1>8. /\ Counterclockwise(a, b, c) = s /\ s \in Int /\ Counterclockwise(b, c, a) = s
      /\ Counterclockwise(c, a, b) = s /\ Counterclockwise(b, a, c) = -s
  BY <1>4, <1>7, Zenon
<1>9. SamePlace(a, b) \/ SamePlace(b, c) \/ SamePlace(a, c) => s = 0
  BY <1>5, <1>6, Zenon
<1> HIDE DEF s
<1> QED
  BY <1>8, <1>9

\* Three vectors that are all on one side of a line.
LEMMA TurnsAddUp ==
  ASSUME NEW n1 \in Int, NEW n2 \in Int, NEW r1 \in Int, NEW r2 \in Int,
         NEW f1 \in Int, NEW f2 \in Int, NEW x \in Int, NEW y \in Int,
         x * n1 + y * n2 > 0, x * r1 + y * r2 > 0, x * f1 + y * f2 > 0,
         n1 * r2 - n2 * r1 > 0, r1 * f2 - r2 * f1 > 0
  PROVE  n1 * f2 - n2 * f1 > 0
<1> DEFINE nr == n1 * r2 - n2 * r1
           rf == r1 * f2 - r2 * f1
           nf == n1 * f2 - n2 * f1
           N == x * n1 + y * n2
           R == x * r1 + y * r2
           F == x * f1 + y * f2
<1>1. R * nf = nr * F + rf * N
  BY SMT
<1>2. nr \in Int /\ rf \in Int /\ nf \in Int /\ N \in Int /\ R \in Int /\ F \in Int
  OBVIOUS
<1>3. nr > 0 /\ rf > 0 /\ N > 0 /\ R > 0 /\ F > 0
  OBVIOUS
<1> HIDE DEF nr, rf, nf, N, R, F
<1>4. nr * F > 0 /\ rf * N > 0
  BY <1>2, <1>3, SignOfProduct
<1>5. R * nf > 0
  BY <1>1, <1>2, <1>4, SignOfProduct
<1>6. nf > 0
  BY <1>2, <1>3, <1>5, SignOfProduct
<1> QED
  BY <1>6 DEF nf

\* p is the mean of u and w with the weights b and c.
IsMean(D, b, c, u, w, p) == b >= 0 /\ c >= 0 /\ D = b + c /\ D > 0 /\ D * p = b * u + c * w

\* A mean of u and w is between them.
LEMMA MeanBetween ==
  ASSUME NEW D \in Int, NEW b \in Int, NEW c \in Int, NEW u \in Int, NEW w \in Int, NEW p \in Int,
         IsMean(D, b, c, u, w, p)
  PROVE  /\ (u <= p /\ p <= w) \/ (w <= p /\ p <= u)
         /\ c = 0 => p = u
         /\ b = 0 => p = w
         /\ u # w /\ b > 0 /\ c > 0 => p # u /\ p # w
<1>0. b >= 0 /\ c >= 0 /\ D = b + c /\ D > 0 /\ D * p = b * u + c * w
  BY DEF IsMean
<1>1. D * (p - u) = c * (w - u) /\ D * (w - p) = b * (w - u)
  BY <1>0, SMT
<1>2. CASE w - u > 0
  <2>1. c * (w - u) >= 0 /\ b * (w - u) >= 0 /\ (c > 0 => c * (w - u) > 0) /\ (b > 0 => b * (w - u) > 0)
    BY <1>0, <1>2, SMT
  <2>2. p - u >= 0 /\ w - p >= 0 /\ (c > 0 => p - u > 0) /\ (b > 0 => w - p > 0)
    BY <1>0, <2>1, <1>1, SMT
  <2>3. (c = 0 => D * (p - u) = 0) /\ (b = 0 => D * (w - p) = 0)
    BY <1>0, <1>1
  <2>4. (c = 0 => p - u = 0) /\ (b = 0 => w - p = 0)
    BY <1>0, <2>3, SMT
  <2> QED
    BY <2>2, <2>4
<1>3. CASE u - w > 0
  <2>1. c * (u - w) >= 0 /\ b * (u - w) >= 0 /\ (c > 0 => c * (u - w) > 0) /\ (b > 0 => b * (u - w) > 0)
    BY <1>0, <1>3, SMT
  <2>0. D * (u - p) = c * (u - w) /\ D * (p - w) = b * (u - w)
    BY <1>1, SMT
  <2>2. u - p >= 0 /\ p - w >= 0 /\ (c > 0 => u - p > 0) /\ (b > 0 => p - w > 0)
    BY <1>0, <2>1, <2>0, SMT
  <2>3. (c = 0 => D * (u - p) = 0) /\ (b = 0 => D * (p - w) = 0)
    BY <1>0, <2>0
  <2>4. (c = 0 => u - p = 0) /\ (b = 0 => p - w = 0)
    BY <1>0, <2>3, SMT
  <2> QED
    BY <2>2, <2>4
<1>4. CASE u = w
  <2>1. D * (p - u) = 0
    BY <1>1, <1>4
  <2>2. p = u
    BY <1>0, <2>1, SMT
  <2> QED
    BY <2>2, <1>4
<1> QED
  BY <1>2, <1>3, <1>4

\* Barycentric coordinates.
LEMMA Barycentric ==
  ASSUME NEW a, NEW b, NEW c, NEW p, IsPlace(a), IsPlace(b), IsPlace(c), IsPlace(p), NEW k \in 1 .. 2
  PROVE  /\ Counterclockwise(a, b, c) =
              Counterclockwise(a, b, p) + Counterclockwise(b, c, p) + Counterclockwise(c, a, p)
         /\ Counterclockwise(a, b, c) * p[k] =
              Counterclockwise(a, b, p) * c[k] + Counterclockwise(b, c, p) * a[k]
                + Counterclockwise(c, a, p) * b[k]
<1>1. PICK x1 \in Int, y1 \in Int : a[1] = x1 /\ a[2] = y1
  BY DEF IsPlace
<1>2. PICK x2 \in Int, y2 \in Int : b[1] = x2 /\ b[2] = y2
  BY DEF IsPlace
<1>3. PICK x3 \in Int, y3 \in Int : c[1] = x3 /\ c[2] = y3
  BY DEF IsPlace
<1>4. PICK x \in Int, y \in Int : p[1] = x /\ p[2] = y
  BY DEF IsPlace
<1> DEFINE D == (x1 - x3) * (y2 - y3) - (y1 - y3) * (x2 - x3)
           C == (x1 - x) * (y2 - y) - (y1 - y) * (x2 - x)
           A == (x2 - x) * (y3 - y) - (y2 - y) * (x3 - x)
           B == (x3 - x) * (y1 - y) - (y3 - y) * (x1 - x)
<1>5. /\ Counterclockwise(a, b, c) = D
      /\ Counterclockwise(a, b, p) = C
      /\ Counterclockwise(b, c, p) = A
      /\ Counterclockwise(c, a, p) = B
  BY <1>1, <1>2, <1>3, <1>4, Zenon DEF Counterclockwise
<1>6. D = C + A + B /\ D * x = C * x3 + A * x1 + B * x2 /\ D * y = C * y3 + A * y1 + B * y2
  BY SMT
<1> HIDE DEF A, B, C, D
<1>7. k = 1 \/ k = 2
  OBVIOUS
<1> QED
  BY <1>1, <1>2, <1>3, <1>4, <1>5, <1>6, <1>7, Zenon

\* If d is in the circle, it is across from b and c sees both sides of it.
CircleFits(l1, l2, n1, n2, r1, r2, A, B, C, S) ==
  /\ A = n1 * r2 - n2 * r1 /\ B = l1 * n2 - l2 * n1 /\ C = l1 * r2 - l2 * r1 /\ S = A + B - C
  /\ C > 0 /\ S > 0
  /\ (l1 * l1 + l2 * l2) * A - (n1 * n1 + n2 * n2) * C + (r1 * r1 + r2 * r2) * B > 0

\* In the vectors to l, n and r from a point inside of their circle, as the terms
\* of InCircle have them: n is on the left of r and the right of l.
LEMMA InCircleTurns ==
  ASSUME NEW l1 \in Int, NEW l2 \in Int, NEW n1 \in Int, NEW n2 \in Int, NEW r1 \in Int, NEW r2 \in Int,
         NEW A \in Int, NEW B \in Int, NEW C \in Int, NEW S \in Int,
         CircleFits(l1, l2, n1, n2, r1, r2, A, B, C, S)
  PROVE  A > 0 /\ B > 0
<1> USE DEF CircleFits
<1> DEFINE I == (l1 * l1 + l2 * l2) * A - (n1 * n1 + n2 * n2) * C + (r1 * r1 + r2 * r2) * B
           q(x, y) == x * x + y * y
<1>1. ASSUME NEW x \in Int, NEW y \in Int PROVE x * x + y * y >= 0 /\ x * x + y * y \in Int
  BY SMT
<1>2. C * n1 = A * l1 + B * r1 /\ C * n2 = A * l2 + B * r2
  BY SMT
<1>3. C * I = C * A * q(l1, l2) + C * B * q(r1, r2) - q(A * l1 + B * r1, A * l2 + B * r2)
  <2>1. q(A * l1 + B * r1, A * l2 + B * r2) = q(C * n1, C * n2)
    BY <1>2
  <2>2. q(C * n1, C * n2) = C * C * q(n1, n2)
    BY SMT
  <2> QED
    BY <2>1, <2>2, SMT
<1>4. I \in Int /\ I > 0
  OBVIOUS
<1>5. B = S + C - A
  OBVIOUS
<1>6. ASSUME A <= 0 PROVE FALSE
  <2> DEFINE u == A * (l1 - r1) + S * r1
             v == A * (l2 - r2) + S * r2
             d == q(l1 - r1, l2 - r2)
             e == q(r1, r2)
  <2>1. C * I = C * (A * d) - C * (S * e) - q(u, v)
    <3> DEFINE J == C * A * q(l1, l2) + C * B * q(r1, r2) - q(A * l1 + B * r1, A * l2 + B * r2)
    <3>1. J = C * (A * d) - C * (S * e) - q(u, v)
      <4>1. ASSUME NEW W \in Int, W = S + C - A
            PROVE  C * A * q(l1, l2) + C * W * q(r1, r2) - q(A * l1 + W * r1, A * l2 + W * r2)
                     = C * (A * d) - C * (S * e) - q(u, v)
        BY <4>1, SMT
      <4>2. B \in Int /\ B = S + C - A
        BY <1>5
      <4> QED
        BY <4>1, <4>2
    <3> QED
      BY <1>3, <3>1
  <2>2. d >= 0 /\ d \in Int /\ e >= 0 /\ e \in Int /\ q(u, v) >= 0 /\ q(u, v) \in Int
    <3>1. u \in Int /\ v \in Int
      OBVIOUS
    <3> HIDE DEF u, v
    <3> QED
      BY <1>1, <3>1
  <2> HIDE DEF I, d, e, q
  <2>3. C * (A * d) <= 0 /\ C * (S * e) >= 0
    <3>1. A * d <= 0 /\ S * e >= 0 /\ A * d \in Int /\ S * e \in Int
      BY <1>6, <2>2, SMT
    <3> DEFINE f == A * d
               g == S * e
    <3> HIDE DEF f, g
    <3>2. f \in Int /\ g \in Int /\ f <= 0 /\ g >= 0
      BY <3>1 DEF f, g
    <3>3. C * f <= 0 /\ C * g >= 0
      BY <3>2, SignOfProduct
    <3> QED
      BY <3>3 DEF f, g
  <2>4. C * I > 0
    BY <1>4, SMT
  <2>5. C * (A * d) \in Int /\ C * (S * e) \in Int
    BY <2>2
  <2>6. ~(C * I > 0)
    <3> DEFINE x == C * (A * d)
               y == C * (S * e)
               z == q(u, v)
               t == C * I
    <3>1. x \in Int /\ y \in Int /\ z \in Int /\ t = x - y - z /\ x <= 0 /\ y >= 0 /\ z >= 0
      BY <2>1, <2>2, <2>3, <2>5, Zenon
    <3> HIDE DEF x, y, z, t
    <3>2. ~(t > 0)
      BY <3>1, NotPositive
    <3> QED
      BY <3>2 DEF t
  <2> QED
    BY <2>4, <2>6
<1>7. ASSUME B <= 0 PROVE FALSE
  <2> DEFINE u == B * (l1 - r1) - S * l1
             v == B * (l2 - r2) - S * l2
             d == q(l1 - r1, l2 - r2)
             e == q(l1, l2)
  <2>1. C * I = C * (B * d) - C * (S * e) - q(u, v)
    <3> DEFINE J == C * A * q(l1, l2) + C * B * q(r1, r2) - q(A * l1 + B * r1, A * l2 + B * r2)
    <3>1. J = C * (B * d) - C * (S * e) - q(u, v)
      <4>1. ASSUME NEW W \in Int, W = S + C - B
            PROVE  C * W * q(l1, l2) + C * B * q(r1, r2) - q(W * l1 + B * r1, W * l2 + B * r2)
                     = C * (B * d) - C * (S * e) - q(u, v)
        BY <4>1, SMT
      <4>2. A \in Int /\ A = S + C - B
        BY <1>5
      <4> QED
        BY <4>1, <4>2
    <3> QED
      BY <1>3, <3>1
  <2>2. d >= 0 /\ d \in Int /\ e >= 0 /\ e \in Int /\ q(u, v) >= 0 /\ q(u, v) \in Int
    <3>1. u \in Int /\ v \in Int
      OBVIOUS
    <3> HIDE DEF u, v
    <3> QED
      BY <1>1, <3>1
  <2> HIDE DEF I, d, e, q
  <2>3. C * (B * d) <= 0 /\ C * (S * e) >= 0
    <3>1. B * d <= 0 /\ S * e >= 0 /\ B * d \in Int /\ S * e \in Int
      BY <1>7, <2>2, SMT
    <3> DEFINE f == B * d
               g == S * e
    <3> HIDE DEF f, g
    <3>2. f \in Int /\ g \in Int /\ f <= 0 /\ g >= 0
      BY <3>1 DEF f, g
    <3>3. C * f <= 0 /\ C * g >= 0
      BY <3>2, SignOfProduct
    <3> QED
      BY <3>3 DEF f, g
  <2>4. C * I > 0
    BY <1>4, SMT
  <2>5. C * (B * d) \in Int /\ C * (S * e) \in Int
    BY <2>2
  <2>6. ~(C * I > 0)
    <3> DEFINE x == C * (B * d)
               y == C * (S * e)
               z == q(u, v)
               t == C * I
    <3>1. x \in Int /\ y \in Int /\ z \in Int /\ t = x - y - z /\ x <= 0 /\ y >= 0 /\ z >= 0
      BY <2>1, <2>2, <2>3, <2>5, Zenon
    <3> HIDE DEF x, y, z, t
    <3>2. ~(t > 0)
      BY <3>1, NotPositive
    <3> QED
      BY <3>2 DEF t
  <2> QED
    BY <2>4, <2>6
<1> QED
  BY <1>6, <1>7

----------------------------------------------------------------------------
\* Of the two products that make up a turn at a corner of the box the one with
\* both long sides outweighs the other.
LEMMA FarAway ==
  ASSUME NEW w \in Int, NEW a \in Int, NEW b \in Int, NEW c \in Int, NEW d \in Int,
         w > 0, a >= 50 * w, b >= 60 * w, c <= w, c >= -w, d >= 0, d <= 41 * w
  PROVE  a * b - d * c > 0 /\ a * b + d * c > 0
<1>1. (a - 50 * w) * b >= 0 /\ w * (b - 60 * w) >= 0 /\ w * w > 0
  BY SignOfProduct, SMT
<1>2. a * b >= 3000 * (w * w)
  BY <1>1, SMT
<1>3. d * (w - c) >= 0 /\ d * (w + c) >= 0 /\ w * (41 * w - d) >= 0
  BY SMT
<1>4. d * c <= 41 * (w * w) /\ d * c >= -41 * (w * w)
  BY <1>3, SMT
<1> QED
  BY <1>1, <1>2, <1>4, SMT

\* Corners a, b, c around the point p, computed as those of the box.
BoxFits(x0, x1, y0, y1, w, m, x, y, a1, a2, b1, c2, a, b, c, p) ==
  /\ x0 \in Int /\ x1 \in Int /\ y0 \in Int /\ y1 \in Int /\ w \in Int /\ m \in Int
  /\ x \in Int /\ y \in Int /\ a1 \in Int /\ a2 \in Int /\ b1 \in Int /\ c2 \in Int
  /\ x0 <= x /\ x <= x1 /\ y0 <= y /\ y <= y1 /\ x1 - x0 <= w /\ y1 - y0 <= w /\ w > 0
  /\ x0 <= m /\ m <= x1
  /\ a1 = x0 - 50 * w /\ a2 = y0 - 40 * w /\ b1 = x1 + 50 * w /\ c2 = y1 + 60 * w
  /\ a[1] = a1 /\ a[2] = a2 /\ b[1] = b1 /\ b[2] = a2 /\ c[1] = m /\ c[2] = c2
  /\ p[1] = x /\ p[2] = y

\* Seen from each side of the box all points are on its left.
LEMMA BoxNumbers ==
  ASSUME NEW x0, NEW x1, NEW y0, NEW y1, NEW w, NEW m, NEW x, NEW y,
         NEW a1, NEW a2, NEW b1, NEW c2, NEW a, NEW b, NEW c, NEW p,
         BoxFits(x0, x1, y0, y1, w, m, x, y, a1, a2, b1, c2, a, b, c, p)
  PROVE  /\ Counterclockwise(a, b, p) > 0
         /\ Counterclockwise(b, c, p) > 0
         /\ Counterclockwise(c, a, p) > 0
         /\ Counterclockwise(a, b, c) > 0
<1> USE DEF BoxFits
<1>1. /\ Counterclockwise(a, b, p) = (y + 40 * w - y0) * (x1 - x0 + 100 * w)
      /\ Counterclockwise(a, b, c) = (y1 + 100 * w - y0) * (x1 - x0 + 100 * w)
  <2>1. /\ Counterclockwise(a, b, p) =
             (a1 - x) * (a2 - y) - (a2 - y) * (b1 - x)
        /\ Counterclockwise(a, b, c) =
             (a1 - m) * (a2 - c2) - (a2 - c2) * (b1 - m)
    BY Zenon DEF Counterclockwise
  <2> QED
    BY <2>1, SMT
<1>2. y + 40 * w - y0 > 0 /\ y1 + 100 * w - y0 > 0 /\ x1 - x0 + 100 * w > 0
  OBVIOUS
<1>3. Counterclockwise(a, b, p) > 0 /\ Counterclockwise(a, b, c) > 0
  <2>1. /\ y + 40 * w - y0 \in Int /\ y1 + 100 * w - y0 \in Int /\ x1 - x0 + 100 * w \in Int
    OBVIOUS
  <2> QED
    BY <1>1, <1>2, <2>1, SignOfProduct
<1>4. Counterclockwise(b, c, p) =
        (x1 + 50 * w - x) * (y1 + 60 * w - y) - (y - y0 + 40 * w) * (x - m)
  <2>1. Counterclockwise(b, c, p) =
          (b1 - x) * (c2 - y) - (a2 - y) * (m - x)
    BY Zenon DEF Counterclockwise
  <2> QED
    BY <2>1, SMT
<1>5. Counterclockwise(c, a, p) =
        (x + 50 * w - x0) * (y1 + 60 * w - y) - (y - y0 + 40 * w) * (m - x)
  <2>1. Counterclockwise(c, a, p) =
          (m - x) * (a2 - y) - (c2 - y) * (a1 - x)
    BY Zenon DEF Counterclockwise
  <2> QED
    BY <2>1, SMT
<1>6. ASSUME NEW u \in Int, NEW v \in Int, NEW r \in Int, NEW s \in Int,
             u >= 50 * w, v >= 60 * w, s <= w, s >= -w, r >= 0, r <= 41 * w
      PROVE  u * v - r * s > 0
  BY <1>6, FarAway
<1>7. (x1 + 50 * w - x) * (y1 + 60 * w - y) - (y - y0 + 40 * w) * (x - m) > 0
  <2> DEFINE u == x1 + 50 * w - x
             v == y1 + 60 * w - y
             r == y - y0 + 40 * w
             s == x - m
  <2>1. /\ u \in Int /\ v \in Int /\ r \in Int /\ s \in Int
        /\ u >= 50 * w /\ v >= 60 * w /\ s <= w /\ s >= -w /\ r >= 0 /\ r <= 41 * w
    OBVIOUS
  <2> HIDE DEF u, v, r, s
  <2>2. u * v - r * s > 0
    BY <2>1, <1>6
  <2> QED
    BY <2>2 DEF u, v, r, s
<1>8. (x + 50 * w - x0) * (y1 + 60 * w - y) - (y - y0 + 40 * w) * (m - x) > 0
  <2> DEFINE u == x + 50 * w - x0
             v == y1 + 60 * w - y
             r == y - y0 + 40 * w
             s == m - x
  <2>1. /\ u \in Int /\ v \in Int /\ r \in Int /\ s \in Int
        /\ u >= 50 * w /\ v >= 60 * w /\ s <= w /\ s >= -w /\ r >= 0 /\ r <= 41 * w
    OBVIOUS
  <2> HIDE DEF u, v, r, s
  <2>2. u * v - r * s > 0
    BY <2>1, <1>6
  <2> QED
    BY <2>2 DEF u, v, r, s
<1> QED
  BY <1>3, <1>4, <1>5, <1>7, <1>8

----------------------------------------------------------------------------
\* Min and Max of a finite set of integers are its least and greatest element.
LEMMA LeastAndGreatest ==
  ASSUME NEW S \in SUBSET Int, S # {}, IsFiniteSet(S)
  PROVE  /\ Min(S) \in S /\ \A y \in S : Min(S) <= y
         /\ Max(S) \in S /\ \A y \in S : y <= Max(S)
<1> DEFINE below == {{y \in S : y < x} : x \in S}
           above == {{y \in S : y > x} : x \in S}
<1>1. below \subseteq FiniteSubsetsOf(S) /\ above \subseteq FiniteSubsetsOf(S)
  BY FS_Subset DEF FiniteSubsetsOf
<1>2. PICK U \in below : \A Vt \in below : <<Vt, U>> \notin StrictSubsetOrdering(S)
  <2>0. PICK x \in S : TRUE
    OBVIOUS
  <2>1. {y \in S : y < x} \in below
    OBVIOUS
  <2> HIDE DEF below
  <2> QED
    BY <1>1, <2>1, FS_StrictSubsetOrderingWellFounded, WFMin
<1>3. PICK u \in S : U = {y \in S : y < u}
  OBVIOUS
<1>4. ASSUME NEW x \in S, x < u PROVE FALSE
  <2> DEFINE Vt == {y \in S : y < x}
  <2>0. \A y \in S : y < x => y < u
    BY <1>4
  <2>1. Vt \in below /\ Vt \subseteq U /\ x \in U /\ x \notin Vt
    <3>1. Vt \in below
      OBVIOUS
    <3>2. Vt \subseteq U
      BY <1>3, <2>0
    <3> QED
      BY <3>1, <3>2, <1>3, <1>4
  <2>2. <<Vt, U>> \in StrictSubsetOrdering(S)
    BY <2>1, <1>3 DEF StrictSubsetOrdering
  <2> QED
    BY <1>2, <2>1, <2>2
<1>5. \E x \in S : \A y \in S : x <= y
  BY <1>4
<1>6. PICK W \in above : \A Vt \in above : <<Vt, W>> \notin StrictSubsetOrdering(S)
  <2>0. PICK x \in S : TRUE
    OBVIOUS
  <2>1. {y \in S : y > x} \in above
    OBVIOUS
  <2> HIDE DEF above
  <2> QED
    BY <1>1, <2>1, FS_StrictSubsetOrderingWellFounded, WFMin
<1>7. PICK w \in S : W = {y \in S : y > w}
  OBVIOUS
<1>8. ASSUME NEW x \in S, x > w PROVE FALSE
  <2> DEFINE Vt == {y \in S : y > x}
  <2>0. \A y \in S : y > x => y > w
    BY <1>8
  <2>1. Vt \in above /\ Vt \subseteq W /\ x \in W /\ x \notin Vt
    <3>1. Vt \in above
      OBVIOUS
    <3>2. Vt \subseteq W
      BY <1>7, <2>0
    <3> QED
      BY <3>1, <3>2, <1>7, <1>8
  <2>2. <<Vt, W>> \in StrictSubsetOrdering(S)
    BY <2>1, <1>7 DEF StrictSubsetOrdering
  <2> QED
    BY <1>6, <2>1, <2>2
<1>9. \E x \in S : \A y \in S : x >= y
  BY <1>8
<1>10. Min(S) \in S /\ \A y \in S : Min(S) <= y
  BY <1>5 DEF Min
<1>11. Max(S) \in S /\ \A y \in S : Max(S) >= y
  BY <1>9 DEF Max
<1> QED
  BY <1>10, <1>11

----------------------------------------------------------------------------
\* The vertices that are given, and with the corners of the box all there are.
Points == {Vertex(i) : i \in DOMAIN input.points}
Corners == {Box[1], Box[2], Box[3]} \cup Points

\* Where the input comes from, and that nothing is added to it.
Given == input \in Inputs /\ added = <<>>

\* There are three points or more, and each is a vertex with its number.
LEMMA PointPlaces ==
  ASSUME Given
  PROVE  /\ Len(input.points) \in Nat /\ Len(input.points) >= 3
         /\ DOMAIN input.points = 1 .. Len(input.points)
         /\ \A i \in DOMAIN input.points :
              /\ Vertex(i) \in Points /\ IsPlace(Vertex(i))
              /\ Vertex(i)[3] = i /\ Len(Vertex(i)) = 3 /\ i > 0
         /\ Vertices = Points
<1>1. input.points \in Seq(Int \X Int) /\ Len(input.points) >= 3
  BY InputsAssumption DEF Given
<1>2. DOMAIN input.points = 1 .. Len(input.points) /\ Len(input.points) \in Nat
  BY <1>1
<1>3. \A i \in DOMAIN input.points : input.points[i][1] \in Int /\ input.points[i][2] \in Int
  <2>1. \A i \in DOMAIN input.points : input.points[i] \in Int \X Int
    BY <1>1
  <2> QED
    BY <2>1
<1>4. ASSUME NEW i \in DOMAIN input.points
      PROVE  /\ Vertex(i) \in Points /\ IsPlace(Vertex(i))
             /\ Vertex(i)[3] = i /\ Len(Vertex(i)) = 3 /\ i > 0
  BY <1>2, <1>3 DEF Points, Vertex, IsPlace
<1>5. ToSet(added) = {}
  BY DEF Given, ToSet
<1> QED
  BY <1>1, <1>2, <1>4, <1>5 DEF Vertices, Points

\* The points are within the lowest and the highest coordinates.
LEMMA Bounds ==
  ASSUME Given, NEW k \in 1 .. 2
  PROVE  /\ MinCoordinate(k) \in Int /\ MaxCoordinate(k) \in Int
         /\ MinCoordinate(k) <= MaxCoordinate(k)
         /\ \A p \in Points : MinCoordinate(k) <= p[k] /\ p[k] <= MaxCoordinate(k)
<1> DEFINE S == {v[k] : v \in Points}
<1>1. IsFiniteSet(Points)
  <2> DEFINE f == [i \in DOMAIN input.points |-> Vertex(i)]
  <2>1. IsFiniteSet(DOMAIN input.points)
    BY PointPlaces, FS_Interval
  <2>2. f \in Surjection(DOMAIN input.points, Points)
    BY DEF Surjection, Points
  <2> QED
    BY <2>1, <2>2, FS_Surjection
<1>2. IsFiniteSet(S)
  <2> DEFINE f == [v \in Points |-> v[k]]
  <2>2. f \in Surjection(Points, S)
    BY DEF Surjection
  <2> QED
    BY <1>1, <2>2, FS_Surjection
<1>3. S \subseteq Int
  BY PointPlaces DEF Points, IsPlace
<1>4. Vertex(1) \in Points
  BY PointPlaces
<1>5. S # {} /\ \A p \in Points : p[k] \in S
  BY <1>4
<1>6. Vertices = Points
  BY PointPlaces
<1>7. MinCoordinate(k) = Min(S) /\ MaxCoordinate(k) = Max(S)
  BY <1>6 DEF MinCoordinate, MaxCoordinate
<1> HIDE DEF S
<1>8. /\ Min(S) \in S /\ \A y \in S : Min(S) <= y
      /\ Max(S) \in S /\ \A y \in S : y <= Max(S)
  BY <1>2, <1>3, <1>5, LeastAndGreatest
<1> QED
  BY <1>3, <1>5, <1>7, <1>8

\* The coordinates of the box.
LEMMA BoxCoordinates ==
  /\ Box[1][1] = MinCoordinate(1) - 50 * Width /\ Box[1][2] = MinCoordinate(2) - 40 * Width
  /\ Box[2][1] = MaxCoordinate(1) + 50 * Width /\ Box[2][2] = MinCoordinate(2) - 40 * Width
  /\ Box[3][1] = (MinCoordinate(1) + MaxCoordinate(1)) \div 2
  /\ Box[3][2] = MaxCoordinate(2) + 60 * Width
  /\ Box[1][3] = -1 /\ Box[2][3] = -2 /\ Box[3][3] = -3
  /\ Len(Box[1]) = 3 /\ Len(Box[2]) = 3 /\ Len(Box[3]) = 3
BY DEF Box

\* The width is positive and no less than either difference, even where all points
\* are in one place.
LEMMA WidthBounds ==
  ASSUME Given
  PROVE  /\ Width \in Int /\ Width > 0
         /\ \A k \in 1 .. 2 : MaxCoordinate(k) - MinCoordinate(k) <= Width
<1> DEFINE S == {MaxCoordinate(k) - MinCoordinate(k) : k \in 1 .. 2}
           f == [k \in 1 .. 2 |-> MaxCoordinate(k) - MinCoordinate(k)]
<1>1. \A k \in 1 .. 2 : MaxCoordinate(k) - MinCoordinate(k) \in Int /\ MaxCoordinate(k) - MinCoordinate(k) >= 0
  BY Bounds
<1>2. IsFiniteSet(S)
  <2>1. f \in Surjection(1 .. 2, S)
    BY DEF Surjection
  <2>2. \A n \in Int : IsFiniteSet(1 .. n)
    BY FS_Interval
  <2>3. IsFiniteSet(1 .. 2)
    <3>1. PICK n \in Int : n = 2
      OBVIOUS
    <3>2. IsFiniteSet(1 .. n)
      BY <2>2
    <3> QED
      BY <3>1, <3>2, Zenon
  <2> HIDE DEF S, f
  <2> QED
    BY <2>1, <2>3, FS_Surjection
<1>3. S \subseteq Int /\ S # {} /\ \A y \in S : y >= 0
  BY <1>1
<1>4. \A k \in 1 .. 2 : MaxCoordinate(k) - MinCoordinate(k) \in S
  OBVIOUS
<1>5. Width = IF Max(S) = 0 THEN 2 ELSE Max(S)
  BY DEF Width
<1> HIDE DEF S
<1>6. Max(S) \in S /\ \A y \in S : y <= Max(S)
  BY <1>2, <1>3, LeastAndGreatest
<1> QED
  BY <1>1, <1>3, <1>4, <1>5, <1>6

\* A corner of the box is farthest in its direction.
Direction(b) ==
  CASE b = Box[1] -> <<-1, -1>>
    [] b = Box[2] -> <<1, -1>>
    [] OTHER -> <<0, 1>>

\* A side of the box, counterclockwise.
IsBoxEdge(u, w) == <<u, w>> \in {<<Box[1], Box[2]>>, <<Box[2], Box[3]>>, <<Box[3], Box[1]>>}

\* boundingbox's triangle runs counterclockwise around all points, and each of its
\* corners is farther in its direction than every point and the two others
\* (triangle.c:10033-10052).
LEMMA BoxAround ==
  ASSUME Given
  PROVE  /\ IsPlace(Box[1]) /\ IsPlace(Box[2]) /\ IsPlace(Box[3])
         /\ Box[1] # Box[2] /\ Box[2] # Box[3] /\ Box[1] # Box[3]
         /\ Counterclockwise(Box[1], Box[2], Box[3]) > 0
         /\ \A p \in Points : /\ Counterclockwise(Box[1], Box[2], p) > 0
                              /\ Counterclockwise(Box[2], Box[3], p) > 0
                              /\ Counterclockwise(Box[3], Box[1], p) > 0
         /\ \A b \in {Box[1], Box[2], Box[3]} : \A p \in Corners \ {b} :
              /\ Direction(b)[1] \in Int /\ Direction(b)[2] \in Int
              /\ Direction(b)[1] * (p[1] - b[1]) + Direction(b)[2] * (p[2] - b[2]) < 0
<1> DEFINE x0 == MinCoordinate(1)
           x1 == MaxCoordinate(1)
           y0 == MinCoordinate(2)
           y1 == MaxCoordinate(2)
           w == Width
           m == (x0 + x1) \div 2
           a1 == x0 - 50 * w
           a2 == y0 - 40 * w
           b1 == x1 + 50 * w
           c2 == y1 + 60 * w
<1>1. /\ x0 \in Int /\ x1 \in Int /\ y0 \in Int /\ y1 \in Int /\ x0 <= x1 /\ y0 <= y1
      /\ \A p \in Points : x0 <= p[1] /\ p[1] <= x1 /\ y0 <= p[2] /\ p[2] <= y1
  BY Bounds
<1>2. w \in Int /\ w > 0 /\ x1 - x0 <= w /\ y1 - y0 <= w
  BY WidthBounds
<1>3. \A p \in Points : p[1] \in Int /\ p[2] \in Int
  BY PointPlaces DEF Points, IsPlace
<1>4. m \in Int /\ x0 <= m /\ m <= x1
  <2> HIDE DEF x0, x1
  <2> QED
    BY <1>1
<1>5. /\ Box[1][1] = a1 /\ Box[1][2] = a2 /\ Box[2][1] = b1 /\ Box[2][2] = a2 
      /\ Box[3][1] = m /\ Box[3][2] = c2
  BY BoxCoordinates
<1> HIDE DEF x0, x1, y0, y1, w, m
<1>6. a1 \in Int /\ a2 \in Int /\ b1 \in Int /\ c2 \in Int
  BY <1>1, <1>2
<1>7. IsPlace(Box[1]) /\ IsPlace(Box[2]) /\ IsPlace(Box[3])
  BY <1>4, <1>5, <1>6 DEF IsPlace
<1>8. ASSUME NEW p \in Points
      PROVE  /\ Counterclockwise(Box[1], Box[2], p) > 0
             /\ Counterclockwise(Box[2], Box[3], p) > 0
             /\ Counterclockwise(Box[3], Box[1], p) > 0
             /\ Counterclockwise(Box[1], Box[2], Box[3]) > 0
  <2>1. PICK x \in Int, y \in Int : p[1] = x /\ p[2] = y
    BY <1>3
  <2>2. x0 <= x /\ x <= x1 /\ y0 <= y /\ y <= y1
    BY <1>1, <2>1
  <2>3. PICK A1 \in Int, A2 \in Int, B1 \in Int, C2 \in Int :
          A1 = a1 /\ A2 = a2 /\ B1 = b1 /\ C2 = c2
    BY <1>6
  <2>4. PICK A, B, C : A = Box[1] /\ B = Box[2] /\ C = Box[3]
    OBVIOUS
  <2>5. A[1] = A1 /\ A[2] = A2 /\ B[1] = B1 /\ B[2] = A2 /\ C[1] = m /\ C[2] = C2
    BY <1>5, <2>3, <2>4
  <2>6. /\ Counterclockwise(A, B, p) > 0
        /\ Counterclockwise(B, C, p) > 0
        /\ Counterclockwise(C, A, p) > 0
        /\ Counterclockwise(A, B, C) > 0
    <3>1. BoxFits(x0, x1, y0, y1, w, m, x, y, A1, A2, B1, C2, A, B, C, p)
      BY <1>1, <1>2, <1>4, <2>1, <2>2, <2>3, <2>5 DEF BoxFits
    <3> QED
      BY <3>1, BoxNumbers
  <2> QED
    BY <2>4, <2>6
<1>9. Counterclockwise(Box[1], Box[2], Box[3]) > 0
  <2>1. Vertex(1) \in Points
    BY PointPlaces
  <2> QED
    BY <1>8, <2>1
<1>10. Box[1] # Box[2] /\ Box[2] # Box[3] /\ Box[1] # Box[3]
  BY BoxCoordinates
<1>11. ASSUME NEW p \in Corners \ {Box[1]}
       PROVE  (-1) * (p[1] - Box[1][1]) + (-1) * (p[2] - Box[1][2]) < 0
  BY <1>1, <1>2, <1>3, <1>4, <1>5 DEF Corners
<1>12. ASSUME NEW p \in Corners \ {Box[2]}
       PROVE  1 * (p[1] - Box[2][1]) + (-1) * (p[2] - Box[2][2]) < 0
  BY <1>1, <1>2, <1>3, <1>4, <1>5 DEF Corners
<1>13. ASSUME NEW p \in Corners \ {Box[3]}
       PROVE  0 * (p[1] - Box[3][1]) + 1 * (p[2] - Box[3][2]) < 0
  BY <1>1, <1>2, <1>3, <1>4, <1>5 DEF Corners
<1>14. Direction(Box[1]) = <<-1, -1>> /\ Direction(Box[2]) = <<1, -1>> /\ Direction(Box[3]) = <<0, 1>>
  BY <1>10 DEF Direction
<1>15. ASSUME NEW b \in {Box[1], Box[2], Box[3]}, NEW p \in Corners \ {b}
       PROVE  /\ Direction(b)[1] \in Int /\ Direction(b)[2] \in Int
              /\ Direction(b)[1] * (p[1] - b[1]) + Direction(b)[2] * (p[2] - b[2]) < 0
  <2>1. CASE b = Box[1]
    BY <1>14, <1>11, <2>1
  <2>2. CASE b = Box[2]
    BY <1>14, <1>12, <2>2
  <2>3. CASE b = Box[3]
    BY <1>14, <1>13, <2>3
  <2> QED
    BY <2>1, <2>2, <2>3
<1> QED
  BY <1>7, <1>8, <1>9, <1>10, <1>15

----------------------------------------------------------------------------
\* infvertex1, infvertex2 and infvertex3.
BoxCorners == {Box[1], Box[2], Box[3]}

\* A corner is either one of the box, and infinite, or a point, and from the input.
LEMMA CornerKinds ==
  ASSUME Given
  PROVE  /\ \A v \in Corners : IsPlace(v) /\ Len(v) = 3 /\ v[3] \in Int
         /\ \A v \in Corners : IsInfinite(v) <=> v \in BoxCorners
         /\ \A v \in Points : v \in Corners /\ IsInput(v) /\ ~IsInfinite(v) /\ v \notin BoxCorners
         /\ \A v \in BoxCorners : v \in Corners /\ ~IsInput(v) /\ IsInfinite(v)
         /\ \A v \in Corners : v \in BoxCorners \/ v \in Points
<1>1. \A v \in Points : IsPlace(v) /\ Len(v) = 3 /\ v[3] \in Int /\ v[3] > 0
  BY PointPlaces DEF Points
<1>2. \A v \in BoxCorners : IsPlace(v) /\ Len(v) = 3 /\ v[3] \in Int /\ v[3] < 0
  BY BoxAround, BoxCoordinates DEF BoxCorners
<1> QED
  BY <1>1, <1>2 DEF Corners, BoxCorners, IsInfinite, IsInput

\* A side of the box has every other corner on its left.
LEMMA BoxEdgeLeft ==
  ASSUME Given, NEW u, NEW w, IsBoxEdge(u, w), NEW p \in Corners, p # u, p # w
  PROVE  Counterclockwise(u, w, p) > 0
<1>1. /\ Counterclockwise(Box[2], Box[3], Box[1]) = Counterclockwise(Box[1], Box[2], Box[3])
      /\ Counterclockwise(Box[3], Box[1], Box[2]) = Counterclockwise(Box[1], Box[2], Box[3])
  BY Turning, BoxAround
<1> QED
  BY <1>1, BoxAround DEF IsBoxEdge, Corners

\* An edge between two corners of the box that has a corner on its left is a side
\* of the box.
LEMMA BoxBound ==
  ASSUME Given, NEW u \in BoxCorners, NEW w \in BoxCorners, NEW z \in Corners,
         Counterclockwise(u, w, z) > 0
  PROVE  IsBoxEdge(u, w)
<1> SUFFICES ASSUME ~IsBoxEdge(u, w) PROVE FALSE
  OBVIOUS
<1>1. IsPlace(u) /\ IsPlace(w) /\ IsPlace(z)
  BY CornerKinds
<1>2. /\ Counterclockwise(w, u, z) = -Counterclockwise(u, w, z) /\ Counterclockwise(u, w, z) \in Int
      /\ u # w /\ z # u /\ z # w
  BY <1>1, Turning DEF SamePlace
<1>3. IsBoxEdge(w, u)
  BY <1>2 DEF IsBoxEdge, BoxCorners
<1>4. Counterclockwise(w, u, z) > 0
  BY <1>2, <1>3, BoxEdgeLeft
<1> QED
  BY <1>2, <1>4

\* There is a triangle on one side of an edge between corners of the box at most.
LEMMA OneSide ==
  ASSUME Given, NEW u \in BoxCorners, NEW w \in BoxCorners, NEW z \in Corners, NEW y \in Corners,
         Counterclockwise(u, w, z) > 0
  PROVE  ~(Counterclockwise(w, u, y) > 0)
<1> SUFFICES ASSUME Counterclockwise(w, u, y) > 0 PROVE FALSE
  OBVIOUS
<1>1. IsBoxEdge(u, w) /\ IsBoxEdge(w, u)
  BY BoxBound
<1> QED
  BY <1>1, BoxAround DEF IsBoxEdge

----------------------------------------------------------------------------
\* lnext and lprev go around the three handles of a triangle.
LEMMA Turns ==
  ASSUME NEW T, NEW o \in T \X (0 .. 2)
  PROVE  /\ Lnext(o) \in T \X (0 .. 2) /\ Lprev(o) \in T \X (0 .. 2)
         /\ Lnext(o)[1] = o[1] /\ Lprev(o)[1] = o[1] /\ o[1] \in T /\ o[2] \in 0 .. 2 /\ o = <<o[1], o[2]>>
         /\ Lnext(Lprev(o)) = o /\ Lprev(Lnext(o)) = o
         /\ Lnext(Lnext(o)) = Lprev(o) /\ Lprev(Lprev(o)) = Lnext(o)
         /\ Lnext(o) # o /\ Lprev(o) # o /\ Lnext(o) # Lprev(o)
         /\ \A q \in T \X (0 .. 2) : q[1] = o[1] => q \in {o, Lnext(o), Lprev(o)}
<1>1. PICK t \in T, k \in 0 .. 2 : o = <<t, k>>
  OBVIOUS
<1>2. \A q \in T \X (0 .. 2) : \E d \in 0 .. 2 : q = <<q[1], d>>
  OBVIOUS
<1>3. CASE k = 0
  <2>1. Lnext(o) = <<t, 1>> /\ Lprev(o) = <<t, 2>>
    BY <1>1, <1>3 DEF Lnext, Lprev, Turn
  <2>2. Lnext(<<t, 1>>) = <<t, 2>> /\ Lprev(<<t, 1>>) = <<t, 0>>
        /\ Lnext(<<t, 2>>) = <<t, 0>> /\ Lprev(<<t, 2>>) = <<t, 1>>
    BY DEF Lnext, Lprev, Turn
  <2> QED
    BY <1>1, <1>2, <1>3, <2>1, <2>2
<1>4. CASE k = 1
  <2>1. Lnext(o) = <<t, 2>> /\ Lprev(o) = <<t, 0>>
    BY <1>1, <1>4 DEF Lnext, Lprev, Turn
  <2>2. Lnext(<<t, 2>>) = <<t, 0>> /\ Lprev(<<t, 2>>) = <<t, 1>>
        /\ Lnext(<<t, 0>>) = <<t, 1>> /\ Lprev(<<t, 0>>) = <<t, 2>>
    BY DEF Lnext, Lprev, Turn
  <2> QED
    BY <1>1, <1>2, <1>4, <2>1, <2>2
<1>5. CASE k = 2
  <2>1. Lnext(o) = <<t, 0>> /\ Lprev(o) = <<t, 1>>
    BY <1>1, <1>5 DEF Lnext, Lprev, Turn
  <2>2. Lnext(<<t, 0>>) = <<t, 1>> /\ Lprev(<<t, 0>>) = <<t, 2>>
        /\ Lnext(<<t, 1>>) = <<t, 2>> /\ Lprev(<<t, 1>>) = <<t, 0>>
    BY DEF Lnext, Lprev, Turn
  <2> QED
    BY <1>1, <1>2, <1>5, <2>1, <2>2
<1> QED
  BY <1>1, <1>3, <1>4, <1>5

\* The handles of the triangles T, and of a mesh without outer space.
IsMesh(m) ==
  /\ m = [adj |-> m.adj, vert |-> m.vert, seg |-> m.seg, made |-> m.made]
  /\ m.seg = {} /\ m.made \in Nat
  /\ \E T \in SUBSET (0 .. m.made) :
       /\ DummyTri \in T
       /\ DOMAIN m.adj = T \X (0 .. 2)
  /\ m.vert = [o \in Handles(m) |-> m.vert[o]]
  /\ m.adj = [o \in Handles(m) |-> m.adj[o]]

\* The handles of triangles that are there, outer space left out.
Alive(m) == {o \in Handles(m) : o[1] # DummyTri}

\* In a mesh lnext and lprev stay in the triangle, and its corners go around.
LEMMA AliveTurns ==
  ASSUME NEW m, IsMesh(m), NEW o \in Alive(m)
  PROVE  /\ Lnext(o) \in Alive(m) /\ Lprev(o) \in Alive(m) /\ o \in Handles(m)
         /\ Lnext(o)[1] = o[1] /\ Lprev(o)[1] = o[1] /\ o[1] # DummyTri
         /\ Lnext(Lprev(o)) = o /\ Lprev(Lnext(o)) = o
         /\ Lnext(Lnext(o)) = Lprev(o) /\ Lprev(Lprev(o)) = Lnext(o)
         /\ Lnext(o) # o /\ Lprev(o) # o /\ Lnext(o) # Lprev(o)
         /\ \A q \in Alive(m) : q[1] = o[1] => q \in {o, Lnext(o), Lprev(o)}
         /\ Org(m, Lnext(o)) = Dest(m, o) /\ Dest(m, Lnext(o)) = Apex(m, o) /\ Apex(m, Lnext(o)) = Org(m, o)
         /\ Org(m, Lprev(o)) = Apex(m, o) /\ Dest(m, Lprev(o)) = Org(m, o) /\ Apex(m, Lprev(o)) = Dest(m, o)
<1>1. PICK T : Handles(m) = T \X (0 .. 2)
  BY DEF IsMesh, Handles
<1>2. o \in T \X (0 .. 2) /\ o[1] # DummyTri
  BY <1>1 DEF Alive
<1>3. /\ Lnext(o) \in T \X (0 .. 2) /\ Lprev(o) \in T \X (0 .. 2)
      /\ Lnext(o)[1] = o[1] /\ Lprev(o)[1] = o[1]
      /\ Lnext(Lprev(o)) = o /\ Lprev(Lnext(o)) = o
      /\ Lnext(Lnext(o)) = Lprev(o) /\ Lprev(Lprev(o)) = Lnext(o)
      /\ Lnext(o) # o /\ Lprev(o) # o /\ Lnext(o) # Lprev(o)
      /\ \A q \in T \X (0 .. 2) : q[1] = o[1] => q \in {o, Lnext(o), Lprev(o)}
  BY <1>2, Turns
<1> QED
  BY <1>1, <1>2, <1>3 DEF Alive, Org, Dest, Apex

----------------------------------------------------------------------------
\* A function on handles after the bond of a and b.
Paired(f, a, b) == [f EXCEPT ![a] = b, ![b] = a]

\* Where a bond is looked up.
LEMMA PairedAt ==
  ASSUME NEW H, NEW f, f = [o \in H |-> f[o]], NEW a, NEW b
  PROVE  /\ Paired(f, a, b) = [o \in H |-> Paired(f, a, b)[o]]
         /\ \A o \in H : Paired(f, a, b)[o] = IF o = b THEN a ELSE IF o = a THEN b ELSE f[o]
<1> DEFINE g == [f EXCEPT ![a] = b]
<1>1. g = [o \in H |-> g[o]] /\ \A o \in H : g[o] = IF o = a THEN b ELSE f[o]
  OBVIOUS
<1>2. Paired(f, a, b) = [g EXCEPT ![b] = a]
  BY DEF Paired
<1> HIDE DEF g
<1> QED
  BY <1>1, <1>2

\* m has the four fields of a mesh and no others.
IsRecord(m) == m = [adj |-> m.adj, vert |-> m.vert, seg |-> m.seg, made |-> m.made]

\* A change of one pointer leaves the other fields alone.
LEMMA PutFields ==
  ASSUME NEW A, NEW Vt, NEW S, NEW N, NEW m, m = [adj |-> A, vert |-> Vt, seg |-> S, made |-> N],
         NEW a, NEW b
  PROVE  [m EXCEPT !.adj[a] = b] = [adj |-> [A EXCEPT ![a] = b], vert |-> Vt, seg |-> S, made |-> N]
OBVIOUS

\* A bond changes two pointers and nothing else.
LEMMA BondFields ==
  ASSUME NEW m, IsRecord(m), NEW a, NEW b
  PROVE  /\ IsRecord(Bond(m, a, b))
         /\ Bond(m, a, b).adj = Paired(m.adj, a, b)
         /\ Bond(m, a, b).vert = m.vert /\ Bond(m, a, b).seg = m.seg /\ Bond(m, a, b).made = m.made
<1> DEFINE m1 == [m EXCEPT !.adj[a] = b]
           A == [m.adj EXCEPT ![a] = b]
<1>1. m1 = [adj |-> A, vert |-> m.vert, seg |-> m.seg, made |-> m.made]
  BY PutFields DEF IsRecord
<1>2. Bond(m, a, b) = [m1 EXCEPT !.adj[b] = a]
  BY DEF Bond
<1>3. Paired(m.adj, a, b) = [A EXCEPT ![b] = a]
  BY DEF Paired
<1> HIDE DEF m1, A
<1>4. Bond(m, a, b) = [adj |-> Paired(m.adj, a, b), vert |-> m.vert, seg |-> m.seg, made |-> m.made]
  BY <1>1, <1>2, <1>3, PutFields
<1> QED
  BY <1>4 DEF IsRecord

\* BondEach of four bonds makes them one after the other.
LEMMA FourBonds ==
  ASSUME NEW m, NEW a1, NEW b1, NEW a2, NEW b2, NEW a3, NEW b3, NEW a4, NEW b4
  PROVE  BondEach(m, << <<a1, b1>>, <<a2, b2>>, <<a3, b3>>, <<a4, b4>> >>) =
           Bond(Bond(Bond(Bond(m, a1, b1), a2, b2), a3, b3), a4, b4)
<1> DEFINE bonds == << <<a1, b1>>, <<a2, b2>>, <<a3, b3>>, <<a4, b4>> >>
           Step(f, k) == IF k = 0 THEN m ELSE Bond(f[k - 1], bonds[k][1], bonds[k][2])
           m1 == Bond(m, a1, b1)
           m2 == Bond(m1, a2, b2)
           m3 == Bond(m2, a3, b3)
           m4 == Bond(m3, a4, b4)
           g == [k \in 0 .. 4 |-> IF k = 0 THEN m ELSE IF k = 1 THEN m1 ELSE IF k = 2 THEN m2
                                   ELSE IF k = 3 THEN m3 ELSE m4]
           bonded == CHOOSE f : f = [k \in 0 .. Len(bonds) |-> Step(f, k)]
<1>1. Len(bonds) = 4 /\ bonds[1] = <<a1, b1>> /\ bonds[2] = <<a2, b2>> /\ bonds[3] = <<a3, b3>> /\ bonds[4] = <<a4, b4>>
  OBVIOUS
<1>2. BondEach(m, bonds) = bonded[Len(bonds)]
  BY DEF BondEach
<1> HIDE DEF bonds
<1>3. \A k \in 0 .. 4 : g[k] = Step(g, k)
  <2> SUFFICES ASSUME NEW k \in 0 .. 4 PROVE g[k] = Step(g, k)
    OBVIOUS
  <2>1. g[0] = m /\ g[1] = m1 /\ g[2] = m2 /\ g[3] = m3 /\ g[4] = m4
    OBVIOUS
  <2> HIDE DEF g, m1, m2, m3, m4
  <2>2. k = 0 \/ k = 1 \/ k = 2 \/ k = 3 \/ k = 4
    OBVIOUS
  <2> QED
    BY <1>1, <2>1, <2>2 DEF m1, m2, m3, m4
<1>4. g = [k \in 0 .. Len(bonds) |-> Step(g, k)]
  <2> HIDE DEF Step, m1, m2, m3, m4
  <2> QED
    BY <1>1, <1>3, ZenonT(60)
<1>5. bonded = [k \in 0 .. Len(bonds) |-> Step(bonded, k)]
  <2> HIDE DEF g, Step
  <2> QED
    BY <1>4
<1> HIDE DEF bonded
<1>6. \A k \in 0 .. 4 : bonded[k] = Step(bonded, k)
  <2> HIDE DEF Step
  <2> QED
    BY <1>1, <1>5
<1>7. bonded[0] = m
  BY <1>6
<1>8. bonded[1] = m1
  <2>1. bonded[1] = Bond(bonded[0], bonds[1][1], bonds[1][2])
    BY <1>6
  <2> QED
    BY <2>1, <1>1, <1>7
<1>9. bonded[2] = m2
  <2>1. bonded[2] = Bond(bonded[1], bonds[2][1], bonds[2][2])
    BY <1>6
  <2> HIDE DEF m1
  <2> QED
    BY <2>1, <1>1, <1>8
<1>10. bonded[3] = m3
  <2>1. bonded[3] = Bond(bonded[2], bonds[3][1], bonds[3][2])
    BY <1>6
  <2> HIDE DEF m2
  <2> QED
    BY <2>1, <1>1, <1>9
<1>11. bonded[4] = m4
  <2>1. bonded[4] = Bond(bonded[3], bonds[4][1], bonds[4][2])
    BY <1>6
  <2> HIDE DEF m3
  <2> QED
    BY <2>1, <1>1, <1>10
<1> QED
  BY <1>1, <1>2, <1>11 DEF bonds

----------------------------------------------------------------------------
\* Beyond an edge of a triangle there is outer space, if it is a side of the
\* box, or a triangle that agrees.
Faces(m, o) ==
  \/ Sym(m, o) = Outer /\ IsBoxEdge(Org(m, o), Dest(m, o))
  \/ /\ Sym(m, o) \in Alive(m) /\ Sym(m, Sym(m, o)) = o
     /\ Org(m, Sym(m, o)) = Dest(m, o) /\ Dest(m, Sym(m, o)) = Org(m, o)

\* The triangle of o is neither flat nor inverted.
TurnsLeft(m, o) == Counterclockwise(Org(m, o), Dest(m, o), Apex(m, o)) > 0

\* Outer space knows an edge beyond which it is.
HasBoundary(m) == Sym(m, Outer) \in Alive(m) /\ Sym(m, Sym(m, Outer)) = Outer

\* A mesh as the insertion leaves it after every split and turn: all bonds mutual,
\* all triangles counterclockwise, and outer space only beyond the box.
Sound(m) ==
  /\ IsMesh(m) /\ HasBoundary(m)
  /\ \A o \in Alive(m) : Faces(m, o) /\ TurnsLeft(m, o) /\ m.vert[o] \in Corners

\* Outer space is no triangle.
LEMMA OuterNotAlive == \A m : Outer \notin Alive(m)
BY DEF Alive, Outer, DummyTri

\* The triangle of o has v as a corner.
Meets(m, o, v) == v = Org(m, o) \/ v = Dest(m, o) \/ v = Apex(m, o)

\* The triangle of o is in m2 as it was in m.
SameTriangle(m, m2, o) ==
  o \in Alive(m) /\ Org(m2, o) = Org(m, o) /\ Dest(m2, o) = Dest(m, o) /\ Apex(m2, o) = Apex(m, o)

\* The triangles with the handles K of m give way to others with the handles
\* K2; those of R have the edges of handles of K and their partners.
Regroups(m, m2, K, K2, R, old) ==
  /\ K \subseteq Alive(m) /\ K2 \subseteq Alive(m2) /\ Alive(m) \ K = Alive(m2) \ K2
  /\ R \subseteq K2 /\ \A x \in R : old[x] \in K
  /\ \A o \in Alive(m) \ K : Org(m2, o) = Org(m, o) /\ Dest(m2, o) = Dest(m, o)
  /\ \A x \in R : /\ Org(m2, x) = Org(m, old[x]) /\ Dest(m2, x) = Dest(m, old[x])
                  /\ Sym(m2, x) = Sym(m, old[x]) /\ Sym(m, old[x]) \notin K
                  /\ Sym(m, old[x]) # Outer => Sym(m2, Sym(m, old[x])) = x
  /\ \A x \in K2 \ R : /\ Sym(m2, x) \in K2 /\ Sym(m2, Sym(m2, x)) = x
                       /\ Org(m2, Sym(m2, x)) = Dest(m2, x) /\ Dest(m2, Sym(m2, x)) = Org(m2, x)
  /\ \A o \in Alive(m) \ K : IF Sym(m, o) \in K THEN \E x \in R : old[x] = Sym(m, o)
                                               ELSE Sym(m2, o) = Sym(m, o)
  /\ \/ \E x \in R : Sym(m, old[x]) = Outer /\ Sym(m2, Outer) = x
     \/ Sym(m, Outer) \notin K /\ Sym(m2, Outer) = Sym(m, Outer)

\* Where handles give way to others that take over their neighbours and are bonded
\* among themselves, every edge is faced as it has to be.
LEMMA Regrouped ==
  ASSUME NEW m, NEW m2, HasBoundary(m), \A o \in Alive(m) : Faces(m, o),
         NEW K, NEW K2, NEW R, NEW old, Regroups(m, m2, K, K2, R, old)
  PROVE  HasBoundary(m2) /\ \A o \in Alive(m2) : Faces(m2, o)
<1> USE DEF Regroups
<1>1. ASSUME NEW o \in R PROVE Faces(m2, o)
  <2>1. Faces(m, old[o])
    OBVIOUS
  <2>2. CASE Sym(m, old[o]) = Outer
    BY <2>1, <2>2, OuterNotAlive DEF Faces
  <2>3. CASE Sym(m, old[o]) # Outer
    <3> DEFINE p == Sym(m, old[o])
    <3>1. p \in Alive(m) /\ p \notin K /\ Org(m, p) = Dest(m, old[o]) /\ Dest(m, p) = Org(m, old[o])
      BY <2>1, <2>3 DEF Faces
    <3>2. p \in Alive(m2) /\ Org(m2, p) = Org(m, p) /\ Dest(m2, p) = Dest(m, p)
      BY <3>1
    <3>3. Sym(m2, o) = p /\ Sym(m2, p) = o
      BY <2>3
    <3> QED
      BY <3>1, <3>2, <3>3 DEF Faces
  <2> QED
    BY <2>2, <2>3
<1>2. ASSUME NEW o \in K2 \ R PROVE Faces(m2, o)
  BY DEF Faces
<1>3. ASSUME NEW o \in Alive(m) \ K PROVE Faces(m2, o)
  <2>1. Faces(m, o)
    OBVIOUS
  <2>2. CASE Sym(m, o) = Outer
    <3>1. Sym(m2, o) = Outer
      BY <2>2, OuterNotAlive
    <3> QED
      BY <2>1, <2>2, <3>1, OuterNotAlive DEF Faces
  <2>3. CASE Sym(m, o) # Outer /\ Sym(m, o) \notin K
    <3> DEFINE p == Sym(m, o)
    <3>1. p \in Alive(m) /\ p \notin K /\ Sym(m, p) = o /\ Org(m, p) = Dest(m, o) /\ Dest(m, p) = Org(m, o)
      BY <2>1, <2>3 DEF Faces
    <3>2. p \in Alive(m2) /\ Org(m2, p) = Org(m, p) /\ Dest(m2, p) = Dest(m, p)
      BY <3>1
    <3>3. Sym(m2, o) = p /\ Sym(m2, p) = o
      BY <2>3, <3>1
    <3> QED
      BY <3>1, <3>2, <3>3 DEF Faces
  <2>4. CASE Sym(m, o) \in K
    <3>1. PICK x \in R : old[x] = Sym(m, o)
      BY <2>4
    <3>2. Sym(m, Sym(m, o)) = o /\ Org(m, Sym(m, o)) = Dest(m, o) /\ Dest(m, Sym(m, o)) = Org(m, o)
      BY <2>1, <2>4, OuterNotAlive DEF Faces
    <3>3. Sym(m2, x) = o /\ Sym(m2, o) = x
      <4>1. Sym(m, old[x]) = o /\ o # Outer
        BY <3>1, <3>2, OuterNotAlive
      <4> QED
        BY <4>1
    <3> QED
      BY <3>1, <3>2, <3>3 DEF Faces
  <2> QED
    BY <2>2, <2>3, <2>4
<1>4. HasBoundary(m2)
  <2>1. CASE \E x \in R : Sym(m, old[x]) = Outer /\ Sym(m2, Outer) = x
    BY <2>1 DEF HasBoundary
  <2>2. CASE Sym(m, Outer) \notin K /\ Sym(m2, Outer) = Sym(m, Outer)
    <3>1. Sym(m2, Outer) = Sym(m, Outer) /\ Sym(m, Outer) \in Alive(m) \ K
          /\ Sym(m, Sym(m, Outer)) = Outer
      BY <2>2 DEF HasBoundary
    <3>2. Sym(m2, Sym(m, Outer)) = Outer
      BY <3>1, OuterNotAlive
    <3> QED
      BY <3>1, <3>2 DEF HasBoundary
  <2> QED
    BY <2>1, <2>2
<1> QED
  BY <1>1, <1>2, <1>3, <1>4

\* What two neighbours in a sound mesh look like.
LEMMA SoundHandle ==
  ASSUME Given, NEW m, Sound(m), NEW o \in Alive(m)
  PROVE  /\ Org(m, o) \in Corners /\ Dest(m, o) \in Corners /\ Apex(m, o) \in Corners
         /\ IsPlace(Org(m, o)) /\ IsPlace(Dest(m, o)) /\ IsPlace(Apex(m, o))
         /\ Counterclockwise(Org(m, o), Dest(m, o), Apex(m, o)) > 0
         /\ Org(m, o) # Dest(m, o) /\ Dest(m, o) # Apex(m, o) /\ Org(m, o) # Apex(m, o)
<1>1. Org(m, o) \in Corners /\ Dest(m, o) \in Corners /\ Apex(m, o) \in Corners
  BY AliveTurns DEF Sound, Org, Dest, Apex
<1>2. IsPlace(Org(m, o)) /\ IsPlace(Dest(m, o)) /\ IsPlace(Apex(m, o))
  BY <1>1, CornerKinds
<1>3. Counterclockwise(Org(m, o), Dest(m, o), Apex(m, o)) > 0
  BY DEF Sound, TurnsLeft
<1> QED
  BY <1>1, <1>2, <1>3, Turning DEF SamePlace

----------------------------------------------------------------------------
\* A change of one corner leaves the other fields alone.
LEMMA PutVertFields ==
  ASSUME NEW A, NEW Vt, NEW S, NEW N, NEW m, m = [adj |-> A, vert |-> Vt, seg |-> S, made |-> N],
         NEW a, NEW b
  PROVE  [m EXCEPT !.vert[a] = b] = [adj |-> A, vert |-> [Vt EXCEPT ![a] = b], seg |-> S, made |-> N]
OBVIOUS

\* SetCorners changes the corners of one triangle and nothing else.
LEMMA SetCornersFields ==
  ASSUME NEW m, IsRecord(m), NEW o, NEW x, NEW y, NEW z
  PROVE  /\ IsRecord(SetCorners(m, o, x, y, z))
         /\ SetCorners(m, o, x, y, z).adj = m.adj
         /\ SetCorners(m, o, x, y, z).vert = [m.vert EXCEPT ![Lnext(o)] = x, ![Lprev(o)] = y, ![o] = z]
         /\ SetCorners(m, o, x, y, z).seg = m.seg /\ SetCorners(m, o, x, y, z).made = m.made
<1> DEFINE V1 == [m.vert EXCEPT ![Lnext(o)] = x]
           V2 == [V1 EXCEPT ![Lprev(o)] = y]
           V3 == [V2 EXCEPT ![o] = z]
           m1 == [m EXCEPT !.vert[Lnext(o)] = x]
           m2 == [m1 EXCEPT !.vert[Lprev(o)] = y]
           m3 == [m2 EXCEPT !.vert[o] = z]
<1>1. SetCorners(m, o, x, y, z) = m3
  BY DEF SetCorners
<1>2. V3 = [m.vert EXCEPT ![Lnext(o)] = x, ![Lprev(o)] = y, ![o] = z]
  OBVIOUS
<1>3. m1 = [adj |-> m.adj, vert |-> V1, seg |-> m.seg, made |-> m.made]
  BY PutVertFields DEF IsRecord
<1> HIDE DEF V1, m1
<1>4. m2 = [adj |-> m.adj, vert |-> V2, seg |-> m.seg, made |-> m.made]
  BY <1>3, PutVertFields
<1> HIDE DEF V2, m2
<1>5. m3 = [adj |-> m.adj, vert |-> V3, seg |-> m.seg, made |-> m.made]
  BY <1>4, PutVertFields
<1> HIDE DEF V3, m3
<1> QED
  BY <1>1, <1>2, <1>5 DEF IsRecord

\* Where one of three changes of a function is looked up.
LEMMA ThreePut ==
  ASSUME NEW H, NEW f, f = [o \in H |-> f[o]], NEW a, NEW b, NEW c, NEW x, NEW y, NEW z, NEW g,
         g = [f EXCEPT ![a] = x, ![b] = y, ![c] = z]
  PROVE  /\ g = [o \in H |-> g[o]]
         /\ \A o \in H : g[o] = IF o = c THEN z ELSE IF o = b THEN y ELSE IF o = a THEN x ELSE f[o]
<1> DEFINE f1 == [f EXCEPT ![a] = x]
           f2 == [f1 EXCEPT ![b] = y]
           f3 == [f2 EXCEPT ![c] = z]
<1>1. g = f3
  OBVIOUS
<1>2. f1 = [o \in H |-> f1[o]] /\ \A o \in H : f1[o] = IF o = a THEN x ELSE f[o]
  OBVIOUS
<1> HIDE DEF f1
<1>3. f2 = [o \in H |-> f2[o]] /\ \A o \in H : f2[o] = IF o = b THEN y ELSE f1[o]
  BY <1>2
<1> HIDE DEF f2
<1>4. f3 = [o \in H |-> f3[o]] /\ \A o \in H : f3[o] = IF o = c THEN z ELSE f2[o]
  BY <1>3
<1> HIDE DEF f3
<1> QED
  BY <1>1, <1>2, <1>3, <1>4

\* The two triangles at an edge, and their neighbours.
LEMMA Quadrilateral ==
  ASSUME Given, NEW m, Sound(m), NEW e \in Alive(m), NEW top, top = Sym(m, e), top[1] # DummyTri
  PROVE  /\ top \in Alive(m) /\ Sym(m, top) = e /\ Org(m, top) = Dest(m, e) /\ Dest(m, top) = Org(m, e)
         /\ top[1] # e[1]
         /\ Apex(m, e) # Apex(m, top)
         /\ LET K == {e, Lnext(e), Lprev(e), top, Lnext(top), Lprev(top)} IN
              /\ K \subseteq Alive(m)
              /\ Sym(m, Lnext(e)) \notin K /\ Sym(m, Lprev(e)) \notin K
              /\ Sym(m, Lnext(top)) \notin K /\ Sym(m, Lprev(top)) \notin K
<1> DEFINE le == Lnext(e)
           pe == Lprev(e)
           lt == Lnext(top)
           pt == Lprev(top)
           R == Org(m, e)
           L == Dest(m, e)
           N == Apex(m, e)
           F == Apex(m, top)
           K == {e, le, pe, top, lt, pt}
<1>0. IsMesh(m) /\ \A o \in Alive(m) : Faces(m, o)
  BY DEF Sound
<1>1. top \in Alive(m) /\ Sym(m, top) = e /\ Org(m, top) = L /\ Dest(m, top) = R
  BY <1>0 DEF Faces, Outer
<1>2. /\ le \in Alive(m) /\ pe \in Alive(m) /\ lt \in Alive(m) /\ pt \in Alive(m)
      /\ le[1] = e[1] /\ pe[1] = e[1] /\ lt[1] = top[1] /\ pt[1] = top[1]
      /\ Org(m, le) = L /\ Dest(m, le) = N /\ Org(m, pe) = N /\ Dest(m, pe) = R
      /\ Org(m, lt) = R /\ Dest(m, lt) = F /\ Org(m, pt) = F /\ Dest(m, pt) = L
      /\ \A q \in Alive(m) : q[1] = e[1] => q \in {e, le, pe}
  BY <1>0, <1>1, AliveTurns
<1>3. /\ R # L /\ L # N /\ N # R /\ F # R /\ F # L
      /\ IsPlace(R) /\ IsPlace(L) /\ IsPlace(N) /\ IsPlace(F)
      /\ Counterclockwise(R, L, N) > 0 /\ Counterclockwise(L, R, F) > 0
  BY <1>1, SoundHandle
<1>4. N # F
  <2>1. Counterclockwise(L, R, N) = -Counterclockwise(R, L, N) /\ Counterclockwise(R, L, N) \in Int
    BY <1>3, Turning
  <2> QED
    BY <2>1, <1>3
<1> HIDE DEF le, pe, lt, pt, R, L, N, F
<1>5. top[1] # e[1]
  BY <1>1, <1>2, <1>3 DEF R, L
<1>6. ASSUME NEW x \in {le, pe, lt, pt} PROVE Sym(m, x) \notin K
  <2> SUFFICES ASSUME Sym(m, x) \in K PROVE FALSE
    OBVIOUS
  <2>1. /\ Sym(m, Sym(m, x)) = x /\ Org(m, Sym(m, x)) = Dest(m, x) /\ Dest(m, Sym(m, x)) = Org(m, x)
    BY <1>0, <1>1, <1>2, OuterNotAlive DEF Faces
  <2>2. Sym(m, x) # e /\ Sym(m, x) # top
    BY <2>1, <1>1, <1>2, <1>5, <1>3 DEF R, L
  <2> QED
    BY <2>1, <2>2, <1>2, <1>3, <1>4
<1> QED
  BY <1>1, <1>2, <1>4, <1>5, <1>6 DEF le, pe, lt, pt, R, L, N, F

\* What Flip does to the six handles and their partners.
LEMMA FlipFields ==
  ASSUME Given, NEW m, Sound(m), NEW e \in Alive(m), NEW top, top = Sym(m, e), top[1] # DummyTri,
         NEW m2, m2 = Flip(m, e),
         NEW le, le = Lnext(e), NEW pe, pe = Lprev(e), NEW lt, lt = Lnext(top), NEW pt, pt = Lprev(top)
  PROVE  /\ IsMesh(m2) /\ Handles(m2) = Handles(m) /\ m2.made = m.made
         /\ m2.adj = Paired(Paired(Paired(Paired(m.adj, pt, Sym(m, le)), le, Sym(m, pe)),
                                   pe, Sym(m, lt)), lt, Sym(m, pt))
         /\ \A o \in Handles(m) :
              m2.vert[o] = IF o = top THEN Dest(m, e) ELSE IF o = pt THEN Apex(m, top)
                           ELSE IF o = lt THEN Apex(m, e) ELSE IF o = e THEN Org(m, e)
                           ELSE IF o = pe THEN Apex(m, e) ELSE IF o = le THEN Apex(m, top)
                           ELSE m.vert[o]
<1> DEFINE bonded == Bond(Bond(Bond(Bond(m, pt, Sym(m, le)), le, Sym(m, pe)),
                                   pe, Sym(m, lt)), lt, Sym(m, pt))
           adj2 == Paired(Paired(Paired(Paired(m.adj, pt, Sym(m, le)), le, Sym(m, pe)),
                                   pe, Sym(m, lt)), lt, Sym(m, pt))
           kept == [bonded EXCEPT !.seg = TurnSegments(m, e)]
           turned == SetCorners(kept, e, Apex(m, top), Apex(m, e), Org(m, e))
<1>1. m2 = SetCorners(turned, top, Apex(m, e), Apex(m, top), Dest(m, e))
  BY FourBonds DEF Flip
<1>2. TurnSegments(m, e) = {}
  BY DEF TurnSegments, Sound, IsMesh
<1>3. IsRecord(m) /\ IsMesh(m)
  BY DEF Sound, IsMesh, IsRecord
<1>4. IsRecord(bonded) /\ bonded.adj = adj2 /\ bonded.vert = m.vert /\ bonded.seg = m.seg /\ bonded.made = m.made
  <2> DEFINE b1 == Bond(m, pt, Sym(m, le))
             b2 == Bond(b1, le, Sym(m, pe))
             b3 == Bond(b2, pe, Sym(m, lt))
             f1 == Paired(m.adj, pt, Sym(m, le))
             f2 == Paired(f1, le, Sym(m, pe))
             f3 == Paired(f2, pe, Sym(m, lt))
  <2>1. IsRecord(b1) /\ b1.adj = f1 /\ b1.vert = m.vert /\ b1.seg = m.seg /\ b1.made = m.made
    BY <1>3, BondFields
  <2> HIDE DEF b1, f1
  <2>2. IsRecord(b2) /\ b2.adj = f2 /\ b2.vert = m.vert /\ b2.seg = m.seg /\ b2.made = m.made
    BY <2>1, BondFields
  <2> HIDE DEF b2, f2
  <2>3. IsRecord(b3) /\ b3.adj = f3 /\ b3.vert = m.vert /\ b3.seg = m.seg /\ b3.made = m.made
    BY <2>2, BondFields
  <2> HIDE DEF b3, f3
  <2>4. /\ bonded = Bond(b3, lt, Sym(m, pt))
        /\ adj2 = Paired(f3, lt, Sym(m, pt))
    BY DEF b1, b2, b3, f1, f2, f3
  <2> HIDE DEF bonded, adj2
  <2> QED
    BY <2>3, <2>4, BondFields
<1> HIDE DEF bonded
<1>5. /\ IsRecord(kept) /\ kept.adj = adj2 /\ kept.vert = m.vert /\ kept.seg = {} /\ kept.made = m.made
  BY <1>2, <1>4 DEF IsRecord
<1> HIDE DEF kept, adj2
<1>6. /\ IsRecord(turned) /\ turned.adj = adj2 /\ turned.seg = {} /\ turned.made = m.made
      /\ turned.vert = [m.vert EXCEPT ![le] = Apex(m, top), ![pe] = Apex(m, e), ![e] = Org(m, e)]
  BY <1>5, SetCornersFields
<1> HIDE DEF turned
<1>7. /\ IsRecord(m2) /\ m2.adj = adj2 /\ m2.seg = {} /\ m2.made = m.made
      /\ m2.vert = [turned.vert EXCEPT ![lt] = Apex(m, e), ![pt] = Apex(m, top), ![top] = Dest(m, e)]
  <2> DEFINE x == Apex(m, e)
             y == Apex(m, top)
             z == Dest(m, e)
  <2> HIDE DEF x, y, z
  <2>1. LET s == SetCorners(turned, top, x, y, z) IN
          /\ IsRecord(s) /\ s.adj = turned.adj /\ s.seg = turned.seg /\ s.made = turned.made
          /\ s.vert = [turned.vert EXCEPT ![Lnext(top)] = x, ![Lprev(top)] = y, ![top] = z]
    BY <1>6, SetCornersFields
  <2>2. m2 = SetCorners(turned, top, x, y, z)
    BY <1>1 DEF x, y, z
  <2> QED
    BY <2>1, <2>2, <1>6 DEF x, y, z
<1>8. m.vert = [o \in Handles(m) |-> m.vert[o]] /\ m.adj = [o \in Handles(m) |-> m.adj[o]]
  BY <1>3 DEF IsMesh
<1>9. /\ turned.vert = [o \in Handles(m) |-> turned.vert[o]]
      /\ \A o \in Handles(m) :
           turned.vert[o] = IF o = e THEN Org(m, e) ELSE IF o = pe THEN Apex(m, e)
                            ELSE IF o = le THEN Apex(m, top) ELSE m.vert[o]
  BY <1>6, <1>8, ThreePut
<1>10. /\ m2.vert = [o \in Handles(m) |-> m2.vert[o]]
       /\ \A o \in Handles(m) :
            m2.vert[o] = IF o = top THEN Dest(m, e) ELSE IF o = pt THEN Apex(m, top)
                         ELSE IF o = lt THEN Apex(m, e) ELSE turned.vert[o]
  BY <1>7, <1>9, ThreePut
<1>11. adj2 = [o \in Handles(m) |-> adj2[o]]
  <2> DEFINE f1 == Paired(m.adj, pt, Sym(m, le))
             f2 == Paired(f1, le, Sym(m, pe))
             f3 == Paired(f2, pe, Sym(m, lt))
             f4 == Paired(f3, lt, Sym(m, pt))
  <2>1. f1 = [o \in Handles(m) |-> f1[o]]
    BY <1>8, PairedAt
  <2> HIDE DEF f1
  <2>2. f2 = [o \in Handles(m) |-> f2[o]]
    BY <2>1, PairedAt
  <2> HIDE DEF f2
  <2>3. f3 = [o \in Handles(m) |-> f3[o]]
    BY <2>2, PairedAt
  <2> HIDE DEF f3
  <2>4. f4 = [o \in Handles(m) |-> f4[o]]
    BY <2>3, PairedAt
  <2>5. adj2 = f4
    BY DEF adj2, f1, f2, f3
  <2> HIDE DEF f4
  <2> QED
    BY <2>4, <2>5
<1>12. Handles(m2) = Handles(m)
  BY <1>7, <1>11 DEF Handles
<1>13. IsMesh(m2)
  <2>1. PICK T \in SUBSET (0 .. m.made) : DummyTri \in T /\ DOMAIN m.adj = T \X (0 .. 2)
    BY <1>3 DEF IsMesh
  <2>2. DOMAIN m2.adj = T \X (0 .. 2) /\ T \in SUBSET (0 .. m2.made) /\ m2.made \in Nat
    BY <1>3, <1>7, <1>12, <2>1 DEF Handles, IsMesh
  <2>3. m2.vert = [o \in Handles(m2) |-> m2.vert[o]] /\ m2.adj = [o \in Handles(m2) |-> m2.adj[o]]
    BY <1>7, <1>10, <1>11, <1>12
  <2> QED
    BY <1>7, <2>1, <2>2, <2>3 DEF IsMesh, IsRecord
<1> QED
  BY <1>7, <1>9, <1>10, <1>12, <1>13 DEF adj2

----------------------------------------------------------------------------
\* Where one of four bonds is looked up; the last one counts.
LEMMA FourPairsAt ==
  ASSUME NEW H, NEW f, f = [o \in H |-> f[o]], NEW a1, NEW b1, NEW a2, NEW b2, NEW a3, NEW b3,
         NEW a4, NEW b4, NEW g, g = Paired(Paired(Paired(Paired(f, a1, b1), a2, b2), a3, b3), a4, b4),
         NEW o \in H
  PROVE  g[o] = IF o = b4 THEN a4 ELSE IF o = a4 THEN b4
                ELSE IF o = b3 THEN a3 ELSE IF o = a3 THEN b3
                ELSE IF o = b2 THEN a2 ELSE IF o = a2 THEN b2
                ELSE IF o = b1 THEN a1 ELSE IF o = a1 THEN b1 ELSE f[o]
<1> DEFINE f1 == Paired(f, a1, b1)
           f2 == Paired(f1, a2, b2)
           f3 == Paired(f2, a3, b3)
           f4 == Paired(f3, a4, b4)
<1>1. f1 = [p \in H |-> f1[p]] /\ f1[o] = IF o = b1 THEN a1 ELSE IF o = a1 THEN b1 ELSE f[o]
  BY PairedAt
<1> HIDE DEF f1
<1>2. f2 = [p \in H |-> f2[p]] /\ f2[o] = IF o = b2 THEN a2 ELSE IF o = a2 THEN b2 ELSE f1[o]
  BY <1>1, PairedAt
<1> HIDE DEF f2
<1>3. f3 = [p \in H |-> f3[p]] /\ f3[o] = IF o = b3 THEN a3 ELSE IF o = a3 THEN b3 ELSE f2[o]
  BY <1>2, PairedAt
<1> HIDE DEF f3
<1>4. f4 = [p \in H |-> f4[p]] /\ f4[o] = IF o = b4 THEN a4 ELSE IF o = a4 THEN b4 ELSE f3[o]
  BY <1>3, PairedAt
<1>5. g = f4
  BY DEF f1, f2, f3
<1> HIDE DEF f4
<1> QED
  BY <1>1, <1>2, <1>3, <1>4, <1>5

\* Turning an edge keeps the mesh sound if its four corners are a convex
\* quadrilateral, whichever bonds the turn meets; every triangle then has the apex
\* for a corner or is as it was (triangle.c:7871-7957).
LEMMA FlipKeepsSound ==
  ASSUME Given, NEW m, Sound(m), NEW e \in Alive(m), Sym(m, e)[1] # DummyTri,
         Counterclockwise(Apex(m, Sym(m, e)), Apex(m, e), Org(m, e)) > 0,
         Counterclockwise(Apex(m, e), Apex(m, Sym(m, e)), Dest(m, e)) > 0
  PROVE  /\ Sound(Flip(m, e)) /\ Alive(Flip(m, e)) = Alive(m)
         /\ Handles(Flip(m, e)) = Handles(m) /\ Flip(m, e).made = m.made
         /\ Apex(Flip(m, e), Lprev(e)) = Apex(m, e)
         /\ \A o \in Alive(m) : Meets(Flip(m, e), o, Apex(m, e)) \/ SameTriangle(m, Flip(m, e), o)
<1>1. PICK top, m2 : top = Sym(m, e) /\ m2 = Flip(m, e)
  OBVIOUS
<1>2. PICK le, pe, lt, pt : le = Lnext(e) /\ pe = Lprev(e) /\ lt = Lnext(top) /\ pt = Lprev(top)
  OBVIOUS
<1>3. PICK R, L, N, F : R = Org(m, e) /\ L = Dest(m, e) /\ N = Apex(m, e) /\ F = Apex(m, top)
  OBVIOUS
<1>4. PICK a, b, c, d : a = Sym(m, le) /\ b = Sym(m, pe) /\ c = Sym(m, lt) /\ d = Sym(m, pt)
  OBVIOUS
<1> DEFINE K == {e, le, pe, top, lt, pt}
<1>5. /\ top \in Alive(m) /\ Sym(m, top) = e /\ Org(m, top) = L /\ Dest(m, top) = R
      /\ top[1] # e[1] /\ N # F
      /\ K \subseteq Alive(m) /\ a \notin K /\ b \notin K /\ c \notin K /\ d \notin K
  BY <1>1, <1>2, <1>3, <1>4, Quadrilateral
<1>6. IsMesh(m) /\ HasBoundary(m) /\ \A o \in Alive(m) : Faces(m, o)
  BY DEF Sound
<1>7. /\ le[1] = e[1] /\ pe[1] = e[1] /\ lt[1] = top[1] /\ pt[1] = top[1]
      /\ Lnext(e) = le /\ Lprev(e) = pe /\ Lnext(le) = pe /\ Lprev(le) = e /\ Lnext(pe) = e /\ Lprev(pe) = le
      /\ Lnext(top) = lt /\ Lprev(top) = pt /\ Lnext(lt) = pt /\ Lprev(lt) = top
      /\ Lnext(pt) = top /\ Lprev(pt) = lt
      /\ e # le /\ e # pe /\ le # pe /\ top # lt /\ top # pt /\ lt # pt
      /\ \A q \in Alive(m) : q[1] = e[1] => q \in {e, le, pe}
      /\ \A q \in Alive(m) : q[1] = top[1] => q \in {top, lt, pt}
  BY <1>2, <1>5, <1>6, AliveTurns
<1>8. /\ Org(m, le) = L /\ Dest(m, le) = N /\ Org(m, pe) = N /\ Dest(m, pe) = R
      /\ Org(m, lt) = R /\ Dest(m, lt) = F /\ Org(m, pt) = F /\ Dest(m, pt) = L
  BY <1>2, <1>3, <1>5, <1>6, AliveTurns
<1>9. /\ IsMesh(m2) /\ Handles(m2) = Handles(m) /\ m2.made = m.made
      /\ m2.adj = Paired(Paired(Paired(Paired(m.adj, pt, a), le, b), pe, c), lt, d)
      /\ \A o \in Handles(m) :
           m2.vert[o] = IF o = top THEN L ELSE IF o = pt THEN F ELSE IF o = lt THEN N
                        ELSE IF o = e THEN R ELSE IF o = pe THEN N ELSE IF o = le THEN F ELSE m.vert[o]
  BY <1>1, <1>2, <1>3, <1>4, FlipFields
<1>10. Alive(m2) = Alive(m) /\ \A o \in Alive(m) : o \in Handles(m)
  BY <1>9 DEF Alive
<1>11. /\ Org(m2, e) = F /\ Dest(m2, e) = N /\ Apex(m2, e) = R
       /\ Org(m2, le) = N /\ Dest(m2, le) = R /\ Apex(m2, le) = F
       /\ Org(m2, pe) = R /\ Dest(m2, pe) = F /\ Apex(m2, pe) = N
       /\ Org(m2, top) = N /\ Dest(m2, top) = F /\ Apex(m2, top) = L
       /\ Org(m2, lt) = F /\ Dest(m2, lt) = L /\ Apex(m2, lt) = N
       /\ Org(m2, pt) = L /\ Dest(m2, pt) = N /\ Apex(m2, pt) = F
  BY <1>5, <1>7, <1>9, <1>10 DEF Org, Dest, Apex
<1>12. ASSUME NEW o \in Alive(m) \ K
       PROVE  /\ Lnext(o) \in Alive(m) \ K /\ Lprev(o) \in Alive(m) \ K
              /\ Org(m2, o) = Org(m, o) /\ Dest(m2, o) = Dest(m, o) /\ Apex(m2, o) = Apex(m, o)
  <2>1. o[1] # e[1] /\ o[1] # top[1]
    BY <1>7
  <2>2. Lnext(o) \in Alive(m) \ K /\ Lprev(o) \in Alive(m) \ K
    BY <2>1, <1>6, <1>7, AliveTurns
  <2> QED
    BY <2>2, <1>9, <1>10 DEF Org, Dest, Apex
<1>13. \A o \in Handles(m) :
         Sym(m2, o) = IF o = d THEN lt ELSE IF o = lt THEN d
                ELSE IF o = c THEN pe ELSE IF o = pe THEN c
                ELSE IF o = b THEN le ELSE IF o = le THEN b
                ELSE IF o = a THEN pt ELSE IF o = pt THEN a ELSE Sym(m, o)
  BY <1>6, <1>9, FourPairsAt DEF IsMesh, Sym
<1>14. /\ a # Outer => a \in Alive(m) /\ Sym(m, a) = le
       /\ b # Outer => b \in Alive(m) /\ Sym(m, b) = pe
       /\ c # Outer => c \in Alive(m) /\ Sym(m, c) = lt
       /\ d # Outer => d \in Alive(m) /\ Sym(m, d) = pt
  BY <1>4, <1>5, <1>6 DEF Faces
<1>15. /\ Sym(m2, pt) = a /\ Sym(m2, le) = b /\ Sym(m2, pe) = c /\ Sym(m2, lt) = d
       /\ Sym(m2, e) = top /\ Sym(m2, top) = e
       /\ a # Outer => Sym(m2, a) = pt
       /\ b # Outer => Sym(m2, b) = le
       /\ c # Outer => Sym(m2, c) = pe
       /\ d # Outer => Sym(m2, d) = lt
  BY <1>1, <1>5, <1>7, <1>10, <1>13, <1>14
<1>16. ASSUME NEW o \in Alive(m) \ K
       PROVE  IF Sym(m, o) \in K THEN Sym(m, o) \in {le, pe, lt, pt} ELSE Sym(m2, o) = Sym(m, o)
  <2>1. CASE Sym(m, o) \in K
    <3>1. Sym(m, Sym(m, o)) = o
      BY <2>1, <1>5, <1>6, OuterNotAlive DEF Faces
    <3> QED
      BY <2>1, <3>1, <1>1, <1>5
  <2>2. CASE Sym(m, o) \notin K
    <3>1. o # a /\ o # b /\ o # c /\ o # d
      BY <2>2, <1>14, OuterNotAlive
    <3> QED
      BY <3>1, <2>2, <1>10, <1>13
  <2> QED
    BY <2>1, <2>2
<1> DEFINE old == [x \in {le, pe, lt, pt} |-> IF x = pt THEN le ELSE IF x = le THEN pe
                                               ELSE IF x = pe THEN lt ELSE pt]
<1>17. old[pt] = le /\ old[le] = pe /\ old[pe] = lt /\ old[lt] = pt
  BY <1>5, <1>7
<1>18. \/ \E x \in {le, pe, lt, pt} : Sym(m, old[x]) = Outer /\ Sym(m2, Outer) = x
       \/ Sym(m, Outer) \notin K /\ Sym(m2, Outer) = Sym(m, Outer)
  <2>1. Outer \in Handles(m)
    BY <1>6 DEF IsMesh, Handles, Outer, DummyTri
  <2>2. Sym(m, Sym(m, Outer)) = Outer
    BY <1>6 DEF HasBoundary
  <2>3. CASE a = Outer \/ b = Outer \/ c = Outer \/ d = Outer
    BY <2>1, <2>3, <1>4, <1>5, <1>13, <1>17, OuterNotAlive
  <2>4. CASE a # Outer /\ b # Outer /\ c # Outer /\ d # Outer
    <3>1. Sym(m, Outer) \notin {le, pe, lt, pt}
      BY <2>2, <2>4, <1>4
    <3>2. Sym(m, Outer) \notin K
      BY <2>2, <3>1, <1>1, <1>5, OuterNotAlive
    <3> QED
      BY <3>2, <2>1, <2>4, <1>5, <1>13, OuterNotAlive
  <2> QED
    BY <2>3, <2>4
<1>19. HasBoundary(m2) /\ \A o \in Alive(m2) : Faces(m2, o)
  <2> DEFINE Q == {le, pe, lt, pt}
  <2>1. /\ K \in SUBSET Alive(m) /\ K \in SUBSET Alive(m2) /\ Alive(m) \ K = Alive(m2) \ K
        /\ Q \in SUBSET K /\ \A x \in Q : old[x] \in K
    BY <1>5, <1>10, <1>17
  <2>2. \A o \in Alive(m) \ K : Org(m2, o) = Org(m, o) /\ Dest(m2, o) = Dest(m, o)
    BY <1>12
  <2>3. \A x \in Q : /\ Org(m2, x) = Org(m, old[x]) /\ Dest(m2, x) = Dest(m, old[x])
                     /\ Sym(m2, x) = Sym(m, old[x]) /\ Sym(m, old[x]) \notin K
                     /\ Sym(m, old[x]) # Outer => Sym(m2, Sym(m, old[x])) = x
    BY <1>4, <1>5, <1>8, <1>11, <1>15, <1>17
  <2>4. \A x \in K \ Q : /\ Sym(m2, x) \in K /\ Sym(m2, Sym(m2, x)) = x
                         /\ Org(m2, Sym(m2, x)) = Dest(m2, x) /\ Dest(m2, Sym(m2, x)) = Org(m2, x)
    BY <1>11, <1>15
  <2>5. \A o \in Alive(m) \ K : IF Sym(m, o) \in K THEN \E x \in Q : old[x] = Sym(m, o)
                                                   ELSE Sym(m2, o) = Sym(m, o)
    BY <1>16, <1>17
  <2>6. \/ \E x \in Q : Sym(m, old[x]) = Outer /\ Sym(m2, Outer) = x
        \/ Sym(m, Outer) \notin K /\ Sym(m2, Outer) = Sym(m, Outer)
    BY <1>18
  <2> HIDE DEF K, Q, old
  <2>7. Regroups(m, m2, K, K, Q, old)
    BY <2>1, <2>2, <2>3, <2>4, <2>5, <2>6 DEF Regroups
  <2> QED
    BY <1>6, <2>7, Regrouped
<1>20. ASSUME NEW o \in Alive(m2)
       PROVE  TurnsLeft(m2, o) /\ m2.vert[o] \in Corners
  <2>1. CASE o \notin K
    <3>1. TurnsLeft(m, o) /\ m.vert[o] \in Corners
      BY <1>10 DEF Sound
    <3> QED
      BY <3>1, <2>1, <1>10, <1>12 DEF TurnsLeft, Apex
  <2>2. CASE o \in K
    <3>1. /\ R \in Corners /\ L \in Corners /\ N \in Corners /\ F \in Corners
          /\ IsPlace(R) /\ IsPlace(L) /\ IsPlace(N) /\ IsPlace(F)
      BY <1>1, <1>3, <1>5, SoundHandle
    <3>2. Counterclockwise(F, N, R) > 0 /\ Counterclockwise(N, F, L) > 0
      BY <1>1, <1>3
    <3>3. /\ Counterclockwise(N, R, F) > 0 /\ Counterclockwise(R, F, N) > 0
          /\ Counterclockwise(F, L, N) > 0 /\ Counterclockwise(L, N, F) > 0
      BY <3>1, <3>2, Turning
    <3>4. m2.vert[o] \in Corners
      BY <3>1, <2>2, <1>11 DEF Apex
    <3> QED
      BY <3>2, <3>3, <3>4, <2>2, <1>11 DEF TurnsLeft
  <2> QED
    BY <2>1, <2>2
<1>21. Sound(m2)
  BY <1>9, <1>19, <1>20 DEF Sound
<1>22. ASSUME NEW o \in Alive(m)
       PROVE  Meets(m2, o, N) \/ SameTriangle(m, m2, o)
  <2>1. CASE o \notin K
    BY <2>1, <1>12 DEF SameTriangle
  <2>2. CASE o \in K
    BY <2>2, <1>11 DEF Meets
  <2> QED
    BY <2>1, <2>2
<1> QED
  BY <1>1, <1>2, <1>3, <1>7, <1>9, <1>10, <1>11, <1>21, <1>22

----------------------------------------------------------------------------
\* BondEach of five bonds makes them one after the other.
LEMMA FiveBonds ==
  ASSUME NEW m, NEW a1, NEW b1, NEW a2, NEW b2, NEW a3, NEW b3, NEW a4, NEW b4, NEW a5, NEW b5
  PROVE  BondEach(m, << <<a1, b1>>, <<a2, b2>>, <<a3, b3>>, <<a4, b4>>, <<a5, b5>> >>) =
           Bond(Bond(Bond(Bond(Bond(m, a1, b1), a2, b2), a3, b3), a4, b4), a5, b5)
<1> DEFINE bonds == << <<a1, b1>>, <<a2, b2>>, <<a3, b3>>, <<a4, b4>>, <<a5, b5>> >>
           Step(f, k) == IF k = 0 THEN m ELSE Bond(f[k - 1], bonds[k][1], bonds[k][2])
           m1 == Bond(m, a1, b1)
           m2 == Bond(m1, a2, b2)
           m3 == Bond(m2, a3, b3)
           m4 == Bond(m3, a4, b4)
           m5 == Bond(m4, a5, b5)
           g == [k \in 0 .. 5 |-> IF k = 0 THEN m ELSE IF k = 1 THEN m1 ELSE IF k = 2 THEN m2
                                   ELSE IF k = 3 THEN m3 ELSE IF k = 4 THEN m4 ELSE m5]
           bonded == CHOOSE f : f = [k \in 0 .. Len(bonds) |-> Step(f, k)]
<1>1. /\ Len(bonds) = 5 /\ bonds[1] = <<a1, b1>> /\ bonds[2] = <<a2, b2>>
      /\ bonds[3] = <<a3, b3>> /\ bonds[4] = <<a4, b4>> /\ bonds[5] = <<a5, b5>>
  OBVIOUS
<1>2. BondEach(m, bonds) = bonded[Len(bonds)]
  BY DEF BondEach
<1> HIDE DEF bonds
<1>3. \A k \in 0 .. 5 : g[k] = Step(g, k)
  <2> SUFFICES ASSUME NEW k \in 0 .. 5 PROVE g[k] = Step(g, k)
    OBVIOUS
  <2>1. g[0] = m /\ g[1] = m1 /\ g[2] = m2 /\ g[3] = m3 /\ g[4] = m4 /\ g[5] = m5
    OBVIOUS
  <2> HIDE DEF g, m1, m2, m3, m4, m5
  <2>2. k = 0 \/ k = 1 \/ k = 2 \/ k = 3 \/ k = 4 \/ k = 5
    OBVIOUS
  <2> QED
    BY <1>1, <2>1, <2>2 DEF m1, m2, m3, m4, m5
<1>4. g = [k \in 0 .. Len(bonds) |-> Step(g, k)]
  <2> HIDE DEF Step, m1, m2, m3, m4, m5
  <2> QED
    BY <1>1, <1>3, ZenonT(60)
<1>5. bonded = [k \in 0 .. Len(bonds) |-> Step(bonded, k)]
  <2> HIDE DEF g, Step
  <2> QED
    BY <1>4
<1> HIDE DEF bonded
<1>6. \A k \in 0 .. 5 : bonded[k] = Step(bonded, k)
  <2> HIDE DEF Step
  <2> QED
    BY <1>1, <1>5
<1>7. bonded[0] = m
  BY <1>6
<1>8. bonded[1] = m1
  <2>1. bonded[1] = Bond(bonded[0], bonds[1][1], bonds[1][2])
    BY <1>6
  <2> QED
    BY <2>1, <1>1, <1>7
<1>9. bonded[2] = m2
  <2>1. bonded[2] = Bond(bonded[1], bonds[2][1], bonds[2][2])
    BY <1>6
  <2> HIDE DEF m1
  <2> QED
    BY <2>1, <1>1, <1>8
<1>10. bonded[3] = m3
  <2>1. bonded[3] = Bond(bonded[2], bonds[3][1], bonds[3][2])
    BY <1>6
  <2> HIDE DEF m2
  <2> QED
    BY <2>1, <1>1, <1>9
<1>11. bonded[4] = m4
  <2>1. bonded[4] = Bond(bonded[3], bonds[4][1], bonds[4][2])
    BY <1>6
  <2> HIDE DEF m3
  <2> QED
    BY <2>1, <1>1, <1>10
<1>12. bonded[5] = m5
  <2>1. bonded[5] = Bond(bonded[4], bonds[5][1], bonds[5][2])
    BY <1>6
  <2> HIDE DEF m4
  <2> QED
    BY <2>1, <1>1, <1>11
<1> QED
  BY <1>1, <1>2, <1>12 DEF bonds

\* A function on handles, and a mesh, after five bonds.
FivePaired(f, a1, b1, a2, b2, a3, b3, a4, b4, a5, b5) ==
  Paired(Paired(Paired(Paired(Paired(f, a1, b1), a2, b2), a3, b3), a4, b4), a5, b5)

\* Where one of five bonds is looked up; the last one counts.
LEMMA FivePairsAt ==
  ASSUME NEW H, NEW f, f = [o \in H |-> f[o]], NEW a1, NEW b1, NEW a2, NEW b2, NEW a3, NEW b3,
         NEW a4, NEW b4, NEW a5, NEW b5, NEW g, g = FivePaired(f, a1, b1, a2, b2, a3, b3, a4, b4, a5, b5)
  PROVE  /\ g = [o \in H |-> g[o]]
         /\ \A o \in H :
              g[o] = IF o = b5 THEN a5 ELSE IF o = a5 THEN b5
                ELSE IF o = b4 THEN a4 ELSE IF o = a4 THEN b4
                ELSE IF o = b3 THEN a3 ELSE IF o = a3 THEN b3
                ELSE IF o = b2 THEN a2 ELSE IF o = a2 THEN b2
                ELSE IF o = b1 THEN a1 ELSE IF o = a1 THEN b1 ELSE f[o]
<1> DEFINE f1 == Paired(f, a1, b1)
           f2 == Paired(f1, a2, b2)
           f3 == Paired(f2, a3, b3)
           f4 == Paired(f3, a4, b4)
           f5 == Paired(f4, a5, b5)
<1>1. /\ f1 = [p \in H |-> f1[p]]
      /\ \A o \in H : f1[o] = IF o = b1 THEN a1 ELSE IF o = a1 THEN b1 ELSE f[o]
  BY PairedAt
<1> HIDE DEF f1
<1>2. /\ f2 = [p \in H |-> f2[p]]
      /\ \A o \in H : f2[o] = IF o = b2 THEN a2 ELSE IF o = a2 THEN b2 ELSE f1[o]
  BY <1>1, PairedAt
<1> HIDE DEF f2
<1>3. /\ f3 = [p \in H |-> f3[p]]
      /\ \A o \in H : f3[o] = IF o = b3 THEN a3 ELSE IF o = a3 THEN b3 ELSE f2[o]
  BY <1>2, PairedAt
<1> HIDE DEF f3
<1>4. /\ f4 = [p \in H |-> f4[p]]
      /\ \A o \in H : f4[o] = IF o = b4 THEN a4 ELSE IF o = a4 THEN b4 ELSE f3[o]
  BY <1>3, PairedAt
<1> HIDE DEF f4
<1>5. /\ f5 = [p \in H |-> f5[p]]
      /\ \A o \in H : f5[o] = IF o = b5 THEN a5 ELSE IF o = a5 THEN b5 ELSE f4[o]
  BY <1>4, PairedAt
<1>6. g = f5
  BY DEF f1, f2, f3, f4, FivePaired
<1> HIDE DEF f5
<1> QED
  BY <1>1, <1>2, <1>3, <1>4, <1>5, <1>6

FiveBonded(m, a1, b1, a2, b2, a3, b3, a4, b4, a5, b5) ==
  BondEach(m, << <<a1, b1>>, <<a2, b2>>, <<a3, b3>>, <<a4, b4>>, <<a5, b5>> >>)

\* Five bonds of handles in a mesh.
LEMMA FiveBondsFields ==
  ASSUME NEW m, IsRecord(m), NEW a1, NEW b1, NEW a2, NEW b2, NEW a3, NEW b3,
         NEW a4, NEW b4, NEW a5, NEW b5, NEW m2, m2 = FiveBonded(m, a1, b1, a2, b2, a3, b3, a4, b4, a5, b5)
  PROVE  /\ IsRecord(m2)
         /\ m2.adj = FivePaired(m.adj, a1, b1, a2, b2, a3, b3, a4, b4, a5, b5)
         /\ m2.vert = m.vert /\ m2.seg = m.seg /\ m2.made = m.made
<1> DEFINE m1 == Bond(m, a1, b1)
           m3 == Bond(m1, a2, b2)
           m4 == Bond(m3, a3, b3)
           m5 == Bond(m4, a4, b4)
           m6 == Bond(m5, a5, b5)
           f1 == Paired(m.adj, a1, b1)
           f2 == Paired(f1, a2, b2)
           f3 == Paired(f2, a3, b3)
           f4 == Paired(f3, a4, b4)
           f5 == Paired(f4, a5, b5)
<1>1. m2 = m6
  BY FiveBonds DEF FiveBonded
<1>0. FivePaired(m.adj, a1, b1, a2, b2, a3, b3, a4, b4, a5, b5) = f5
  BY DEF FivePaired
<1>2. IsRecord(m1) /\ m1.adj = f1 /\ m1.vert = m.vert /\ m1.seg = m.seg /\ m1.made = m.made
  BY BondFields
<1> HIDE DEF m1
<1>3. IsRecord(m3) /\ m3.adj = f2 /\ m3.vert = m.vert /\ m3.seg = m.seg /\ m3.made = m.made
  BY <1>2, BondFields
<1> HIDE DEF m3
<1>4. IsRecord(m4) /\ m4.adj = f3 /\ m4.vert = m.vert /\ m4.seg = m.seg /\ m4.made = m.made
  BY <1>3, BondFields
<1> HIDE DEF m4
<1>5. IsRecord(m5) /\ m5.adj = f4 /\ m5.vert = m.vert /\ m5.seg = m.seg /\ m5.made = m.made
  BY <1>4, BondFields
<1> HIDE DEF m5
<1>6. IsRecord(m6) /\ m6.adj = f5 /\ m6.vert = m.vert /\ m6.seg = m.seg /\ m6.made = m.made
  BY <1>5, BondFields
<1> HIDE DEF m6, f5
<1> QED
  BY <1>0, <1>1, <1>6

\* The handles of the next two triangles, and a function that is defined on H.
NewHandles(m) == {m.made + 1, m.made + 2} \X (0 .. 2)
MoreHandles(m) == Handles(m) \cup NewHandles(m)
IsOn(f, H) == f = [o \in H |-> f[o]]

TwoTriangles(m, x, y, z, u, v, w) == MakeTriangles(m, << <<x, y, z>>, <<u, v, w>> >>)

\* Two triangles more.
LEMMA MadeTwo ==
  ASSUME NEW m, IsMesh(m), NEW x, NEW y, NEW z, NEW u, NEW v, NEW w, NEW m2,
         m2 = TwoTriangles(m, x, y, z, u, v, w)
  PROVE  /\ IsRecord(m2) /\ m2.seg = {} /\ m2.made = m.made + 2
         /\ Handles(m) \cap NewHandles(m) = {}
         /\ IsOn(m2.adj, MoreHandles(m)) /\ IsOn(m2.vert, MoreHandles(m))
         /\ \A o \in Handles(m) : m2.adj[o] = m.adj[o] /\ m2.vert[o] = m.vert[o]
         /\ \A o \in NewHandles(m) : m2.adj[o] = Outer
         /\ \A t : t = m.made + 1 => m2.vert[<<t, 0>>] = z /\ m2.vert[<<t, 1>>] = x /\ m2.vert[<<t, 2>>] = y
         /\ \A t : t = m.made + 2 => m2.vert[<<t, 0>>] = w /\ m2.vert[<<t, 1>>] = u /\ m2.vert[<<t, 2>>] = v
<1> DEFINE cs == << <<x, y, z>>, <<u, v, w>> >>
           corner(o) == cs[o[1] - m.made][((o[2] + 2) % 3) + 1]
           new == NewHandles(m)
           all == Handles(m) \cup new
           A == [o \in all |-> IF o \in new THEN Outer ELSE m.adj[o]]
           Vt == [o \in all |-> IF o \in new THEN corner(o) ELSE m.vert[o]]
<1>1. m.made \in Nat /\ m.seg = {}
  BY DEF IsMesh
<1>2. PICK T \in SUBSET (0 .. m.made) : Handles(m) = T \X (0 .. 2)
  BY DEF IsMesh, Handles
<1>3. (m.made + 1 .. m.made + Len(cs)) \X (0 .. 2) = new /\ Len(cs) = 2
  <2>1. Len(cs) = 2
    OBVIOUS
  <2>2. m.made + 1 .. m.made + 2 = {m.made + 1, m.made + 2}
    BY <1>1
  <2> QED
    BY <2>1, <2>2 DEF NewHandles
<1>4. m2 = [adj |-> A, vert |-> Vt, seg |-> {}, made |-> m.made + 2]
  BY <1>1, <1>3 DEF MakeTriangles, TwoTriangles
<1>5. Handles(m) \cap new = {}
  BY <1>1, <1>2 DEF NewHandles
<1>6. \A k \in {1, 2}, d \in 0 .. 2 : <<m.made + k, d>> \in new /\ Vt[<<m.made + k, d>>] = cs[k][((d + 2) % 3) + 1]
  BY <1>1 DEF NewHandles
<1>7. /\ ((0 + 2) % 3) + 1 = 3 /\ ((1 + 2) % 3) + 1 = 1 /\ ((2 + 2) % 3) + 1 = 2
  OBVIOUS
<1>8. /\ Vt[<<m.made + 1, 0>>] = z /\ Vt[<<m.made + 1, 1>>] = x /\ Vt[<<m.made + 1, 2>>] = y
      /\ Vt[<<m.made + 2, 0>>] = w /\ Vt[<<m.made + 2, 1>>] = u /\ Vt[<<m.made + 2, 2>>] = v
  <2>1. \A k \in {1, 2} : /\ Vt[<<m.made + k, 0>>] = cs[k][3] /\ Vt[<<m.made + k, 1>>] = cs[k][1]
                          /\ Vt[<<m.made + k, 2>>] = cs[k][2]
    <3> HIDE DEF Vt, cs
    <3> QED
      BY <1>6, <1>7
  <2>2. /\ cs[1][1] = x /\ cs[1][2] = y /\ cs[1][3] = z /\ cs[2][1] = u /\ cs[2][2] = v /\ cs[2][3] = w
    OBVIOUS
  <2> HIDE DEF Vt, cs
  <2> QED
    BY <2>1, <2>2
<1>9. \A o \in Handles(m) : A[o] = m.adj[o] /\ Vt[o] = m.vert[o]
  BY <1>5
<1>14. \A o \in NewHandles(m) : A[o] = Outer
  OBVIOUS
<1>10. A = [o \in all |-> A[o]] /\ Vt = [o \in all |-> Vt[o]]
  OBVIOUS
<1>11. m2.adj = A /\ m2.vert = Vt /\ m2.seg = {} /\ m2.made = m.made + 2 /\ IsRecord(m2)
  <2> HIDE DEF A, Vt
  <2> QED
    BY <1>4 DEF IsRecord
<1> HIDE DEF A, Vt
<1>12. all = MoreHandles(m)
  BY DEF MoreHandles
<1> HIDE DEF all
<1>13. IsOn(A, all) /\ IsOn(Vt, all)
  BY <1>10 DEF IsOn
<1> QED
  BY <1>5, <1>8, <1>9, <1>11, <1>12, <1>13, <1>14

----------------------------------------------------------------------------
\* The neighbour at an edge is another triangle.
LEMMA OtherTriangle ==
  ASSUME Given, NEW m, Sound(m), NEW o \in Alive(m)
  PROVE  Sym(m, o)[1] # o[1]
<1> SUFFICES ASSUME Sym(m, o)[1] = o[1] PROVE FALSE
  OBVIOUS
<1>1. IsMesh(m) /\ Faces(m, o) /\ o[1] # DummyTri
  BY AliveTurns DEF Sound
<1>2. /\ Sym(m, o) \in Alive(m) /\ Org(m, Sym(m, o)) = Dest(m, o) /\ Dest(m, Sym(m, o)) = Org(m, o)
  BY <1>1 DEF Faces, Outer
<1>3. Sym(m, o) \in {o, Lnext(o), Lprev(o)}
  BY <1>1, <1>2, AliveTurns
<1>4. /\ Org(m, Lnext(o)) = Dest(m, o) /\ Dest(m, Lnext(o)) = Apex(m, o)
      /\ Org(m, Lprev(o)) = Apex(m, o) /\ Dest(m, Lprev(o)) = Org(m, o)
      /\ Org(m, o) # Dest(m, o) /\ Dest(m, o) # Apex(m, o) /\ Org(m, o) # Apex(m, o)
  BY <1>1, AliveTurns, SoundHandle
<1> QED
  BY <1>2, <1>3, <1>4

\* The new handles.
LEMMA NewTurns ==
  ASSUME NEW m, IsMesh(m), NEW t \in {m.made + 1, m.made + 2}
  PROVE  /\ <<t, 0>> \in NewHandles(m) /\ <<t, 1>> \in NewHandles(m) /\ <<t, 2>> \in NewHandles(m)
         /\ Lnext(<<t, 0>>) = <<t, 1>> /\ Lnext(<<t, 1>>) = <<t, 2>> /\ Lnext(<<t, 2>>) = <<t, 0>>
         /\ Lprev(<<t, 0>>) = <<t, 2>> /\ Lprev(<<t, 1>>) = <<t, 0>> /\ Lprev(<<t, 2>>) = <<t, 1>>
         /\ \A o \in NewHandles(m) : o[1] = t => o \in {<<t, 0>>, <<t, 1>>, <<t, 2>>}
         /\ \A o \in NewHandles(m) : o[1] # DummyTri /\ o[1] \in {m.made + 1, m.made + 2}
         /\ m.made + 1 # m.made + 2
<1>1. m.made \in Nat
  BY DEF IsMesh
<1>2. /\ Lnext(<<t, 0>>) = <<t, 1>> /\ Lnext(<<t, 1>>) = <<t, 2>> /\ Lnext(<<t, 2>>) = <<t, 0>>
      /\ Lprev(<<t, 0>>) = <<t, 2>> /\ Lprev(<<t, 1>>) = <<t, 0>> /\ Lprev(<<t, 2>>) = <<t, 1>>
  BY DEF Lnext, Lprev, Turn
<1> QED
  BY <1>1, <1>2 DEF NewHandles, DummyTri

\* A mesh with two triangles more is one.
LEMMA Larger ==
  ASSUME NEW m, IsMesh(m), NEW m2, IsRecord(m2), m2.seg = {}, m2.made = m.made + 2,
         m2.adj = [o \in MoreHandles(m) |-> m2.adj[o]],
         m2.vert = [o \in MoreHandles(m) |-> m2.vert[o]]
  PROVE  /\ IsMesh(m2) /\ Handles(m2) = Handles(m) \cup NewHandles(m)
         /\ Alive(m2) = Alive(m) \cup NewHandles(m) /\ Handles(m) \cap NewHandles(m) = {}
<1>1. PICK T \in SUBSET (0 .. m.made) : DummyTri \in T /\ Handles(m) = T \X (0 .. 2)
  BY DEF IsMesh, Handles
<1>2. m.made \in Nat
  BY DEF IsMesh
<1> DEFINE U == T \cup {m.made + 1, m.made + 2}
<1>3. Handles(m2) = Handles(m) \cup NewHandles(m)
  BY DEF Handles, MoreHandles
<1>4. U \in SUBSET (0 .. m2.made) /\ DummyTri \in U
  <2>1. \A k \in 0 .. m.made : k \in 0 .. m.made + 2
    BY <1>2
  <2>2. m.made + 1 \in 0 .. m.made + 2 /\ m.made + 2 \in 0 .. m.made + 2
    BY <1>2
  <2> QED
    BY <1>1, <2>1, <2>2
<1>5. Handles(m2) = U \X (0 .. 2)
  BY <1>1, <1>3 DEF NewHandles
<1>6. IsMesh(m2)
  <2>1. m2.vert = [o \in Handles(m2) |-> m2.vert[o]] /\ m2.adj = [o \in Handles(m2) |-> m2.adj[o]]
    BY <1>3 DEF MoreHandles
  <2>2. DOMAIN m2.adj = U \X (0 .. 2)
    BY <1>5 DEF Handles
  <2>3. m2.made \in Nat
    BY <1>2
  <2> HIDE DEF U
  <2> QED
    BY <1>4, <2>1, <2>2, <2>3 DEF IsMesh, IsRecord
<1>7. \A o \in NewHandles(m) : o[1] # DummyTri
  BY NewTurns
<1>8. Handles(m) \cap NewHandles(m) = {}
  BY <1>1, <1>2 DEF NewHandles
<1> QED
  BY <1>3, <1>6, <1>7, <1>8 DEF Alive


\* Six handles of two triangles more, by name.
AreNew(m, l0, l1, l2, r0, r1, r2) ==
  /\ l0 = <<m.made + 1, 0>> /\ l1 = <<m.made + 1, 1>> /\ l2 = <<m.made + 1, 2>>
  /\ r0 = <<m.made + 2, 0>> /\ r1 = <<m.made + 2, 1>> /\ r2 = <<m.made + 2, 2>>

\* The six are all the new handles, different from each other, in two rounds.
LEMMA SixNew ==
  ASSUME NEW m, IsMesh(m), NEW l0, NEW l1, NEW l2, NEW r0, NEW r1, NEW r2,
         AreNew(m, l0, l1, l2, r0, r1, r2)
  PROVE  /\ NewHandles(m) = {l0, l1, l2, r0, r1, r2}
         /\ l0 # l1 /\ l0 # l2 /\ l1 # l2 /\ r0 # r1 /\ r0 # r2 /\ r1 # r2
         /\ l0 # r0 /\ l0 # r1 /\ l0 # r2 /\ l1 # r0 /\ l1 # r1 /\ l1 # r2
         /\ l2 # r0 /\ l2 # r1 /\ l2 # r2
         /\ Lnext(l0) = l1 /\ Lnext(l1) = l2 /\ Lnext(l2) = l0
         /\ Lprev(l0) = l2 /\ Lprev(l1) = l0 /\ Lprev(l2) = l1
         /\ Lnext(r0) = r1 /\ Lnext(r1) = r2 /\ Lnext(r2) = r0
         /\ Lprev(r0) = r2 /\ Lprev(r1) = r0 /\ Lprev(r2) = r1
         /\ \A o \in Alive(m) : o \in Handles(m) /\ o \notin NewHandles(m)
         /\ Outer \in Handles(m) /\ Outer \notin NewHandles(m)
<1> USE DEF AreNew
<1>1. m.made + 1 # m.made + 2
  BY DEF IsMesh
<1>2. NewHandles(m) = {l0, l1, l2, r0, r1, r2}
  <2>1. {m.made + 1, m.made + 2} \X (0 .. 2) =
           {<<m.made + 1, 0>>, <<m.made + 1, 1>>, <<m.made + 1, 2>>,
            <<m.made + 2, 0>>, <<m.made + 2, 1>>, <<m.made + 2, 2>>}
    OBVIOUS
  <2> QED
    BY <2>1 DEF NewHandles
<1>3. /\ Lnext(l0) = l1 /\ Lnext(l1) = l2 /\ Lnext(l2) = l0
      /\ Lprev(l0) = l2 /\ Lprev(l1) = l0 /\ Lprev(l2) = l1
  <2>1. m.made + 1 \in {m.made + 1, m.made + 2}
    OBVIOUS
  <2> QED
    BY <2>1, NewTurns
<1>4. /\ Lnext(r0) = r1 /\ Lnext(r1) = r2 /\ Lnext(r2) = r0
      /\ Lprev(r0) = r2 /\ Lprev(r1) = r0 /\ Lprev(r2) = r1
  <2>1. m.made + 2 \in {m.made + 1, m.made + 2}
    OBVIOUS
  <2> QED
    BY <2>1, NewTurns
<1>5. Handles(m) \cap NewHandles(m) = {} /\ Outer \in Handles(m)
  <2>1. PICK T \in SUBSET (0 .. m.made) : DummyTri \in T /\ Handles(m) = T \X (0 .. 2)
    BY DEF IsMesh, Handles
  <2>2. m.made \in Nat
    BY DEF IsMesh
  <2> QED
    BY <2>1, <2>2 DEF NewHandles, Outer
<1> QED
  BY <1>1, <1>2, <1>3, <1>4, <1>5 DEF Alive

\* The mesh after two triangles more were made, some corners were changed, and
\* five bonds.
LEMMA TwoMore ==
  ASSUME NEW m, IsMesh(m), NEW x, NEW y, NEW z, NEW u, NEW v, NEW w,
         NEW made, made = TwoTriangles(m, x, y, z, u, v, w),
         NEW Vt, NEW cut, IsRecord(cut), cut.adj = made.adj, cut.vert = Vt, cut.seg = {}, cut.made = made.made,
         IsOn(Vt, MoreHandles(m)),
         NEW a1, NEW b1, NEW a2, NEW b2, NEW a3, NEW b3, NEW a4, NEW b4, NEW a5, NEW b5, NEW m2,
         m2 = FiveBonded(cut, a1, b1, a2, b2, a3, b3, a4, b4, a5, b5)
  PROVE  /\ IsMesh(m2) /\ m2.vert = Vt /\ m2.made = m.made + 2
         /\ Handles(m2) = MoreHandles(m)
         /\ \A o : o \in Alive(m2) <=> o \in Alive(m) \/ o \in NewHandles(m)
         /\ \A o \in Handles(m) :
              Sym(m2, o) = IF o = b5 THEN a5 ELSE IF o = a5 THEN b5
                ELSE IF o = b4 THEN a4 ELSE IF o = a4 THEN b4
                ELSE IF o = b3 THEN a3 ELSE IF o = a3 THEN b3
                ELSE IF o = b2 THEN a2 ELSE IF o = a2 THEN b2
                ELSE IF o = b1 THEN a1 ELSE IF o = a1 THEN b1 ELSE Sym(m, o)
         /\ \A o \in NewHandles(m) :
              Sym(m2, o) = IF o = b5 THEN a5 ELSE IF o = a5 THEN b5
                ELSE IF o = b4 THEN a4 ELSE IF o = a4 THEN b4
                ELSE IF o = b3 THEN a3 ELSE IF o = a3 THEN b3
                ELSE IF o = b2 THEN a2 ELSE IF o = a2 THEN b2
                ELSE IF o = b1 THEN a1 ELSE IF o = a1 THEN b1 ELSE Outer
<1>1. /\ made.made = m.made + 2 /\ made.adj = [o \in MoreHandles(m) |-> made.adj[o]]
      /\ \A o \in Handles(m) : made.adj[o] = m.adj[o]
      /\ \A o \in NewHandles(m) : made.adj[o] = Outer
  <2>1. /\ made.made = m.made + 2 /\ IsOn(made.adj, MoreHandles(m))
        /\ \A o \in Handles(m) : made.adj[o] = m.adj[o]
        /\ \A o \in NewHandles(m) : made.adj[o] = Outer
    BY MadeTwo
  <2> QED
    BY <2>1 DEF IsOn
<1>3. /\ IsRecord(m2) /\ m2.seg = {} /\ m2.made = made.made /\ m2.vert = Vt
      /\ m2.adj = FivePaired(made.adj, a1, b1, a2, b2, a3, b3, a4, b4, a5, b5)
  BY FiveBondsFields
<1>4. PICK f, g : f = made.adj /\ g = m2.adj
  OBVIOUS
<1>5. /\ g = [o \in MoreHandles(m) |-> g[o]]
      /\ \A o \in MoreHandles(m) :
              g[o] = IF o = b5 THEN a5 ELSE IF o = a5 THEN b5
                ELSE IF o = b4 THEN a4 ELSE IF o = a4 THEN b4
                ELSE IF o = b3 THEN a3 ELSE IF o = a3 THEN b3
                ELSE IF o = b2 THEN a2 ELSE IF o = a2 THEN b2
                ELSE IF o = b1 THEN a1 ELSE IF o = a1 THEN b1 ELSE f[o]
  BY <1>1, <1>3, <1>4, FivePairsAt
<1>6. /\ m2.adj = [o \in MoreHandles(m) |-> m2.adj[o]]
      /\ m2.vert = [o \in MoreHandles(m) |-> m2.vert[o]]
  BY <1>3, <1>4, <1>5 DEF IsOn
<1>7. /\ IsMesh(m2)
      /\ Handles(m2) = Handles(m) \cup NewHandles(m) /\ Alive(m2) = Alive(m) \cup NewHandles(m)
  BY <1>1, <1>3, <1>6, Larger
<1>8. \A o \in MoreHandles(m) : Sym(m2, o) = g[o]
  BY <1>4 DEF Sym
<1>9. \A o \in Handles(m) : f[o] = Sym(m, o)
  BY <1>1, <1>4 DEF Sym
<1>10. \A o \in Handles(m) : o \in MoreHandles(m)
  BY DEF MoreHandles
<1>11. \A o \in NewHandles(m) : o \in MoreHandles(m)
  BY DEF MoreHandles
<1>12. \A o \in Handles(m) :
         Sym(m2, o) = IF o = b5 THEN a5 ELSE IF o = a5 THEN b5
                ELSE IF o = b4 THEN a4 ELSE IF o = a4 THEN b4
                ELSE IF o = b3 THEN a3 ELSE IF o = a3 THEN b3
                ELSE IF o = b2 THEN a2 ELSE IF o = a2 THEN b2
                ELSE IF o = b1 THEN a1 ELSE IF o = a1 THEN b1 ELSE Sym(m, o)
  BY <1>5, <1>8, <1>9, <1>10
<1>13. \A o \in NewHandles(m) :
         Sym(m2, o) = IF o = b5 THEN a5 ELSE IF o = a5 THEN b5
                ELSE IF o = b4 THEN a4 ELSE IF o = a4 THEN b4
                ELSE IF o = b3 THEN a3 ELSE IF o = a3 THEN b3
                ELSE IF o = b2 THEN a2 ELSE IF o = a2 THEN b2
                ELSE IF o = b1 THEN a1 ELSE IF o = a1 THEN b1 ELSE Outer
  <2>1. \A o \in NewHandles(m) : f[o] = Outer
    BY <1>1, <1>4, Zenon
  <2> QED
    BY <2>1, <1>5, <1>8, <1>11
<1>14. Handles(m2) = MoreHandles(m)
  BY <1>7 DEF MoreHandles
<1> QED
  BY <1>1, <1>3, <1>7, <1>14, <1>12, <1>13

----------------------------------------------------------------------------
\* What splitting does to the handles of the triangle and the new ones.
SplitsIn(m, h, v, m2, l0, l1, l2, r0, r1, r2) ==
  m = mesh /\ m2 = SplitIn(h, v) /\ AreNew(m, l0, l1, l2, r0, r1, r2)

\* The pointers and corners after a triangle was split into three.
LEMMA SplitInFields ==
  ASSUME NEW m, IsMesh(m), NEW h \in Alive(m), NEW v, NEW m2,
         NEW lh, lh = Lnext(h), NEW ph, ph = Lprev(h), NEW a, a = Sym(m, lh), NEW b, b = Sym(m, ph),
         NEW l0, NEW l1, NEW l2, NEW r0, NEW r1, NEW r2,
         SplitsIn(m, h, v, m2, l0, l1, l2, r0, r1, r2)
  PROVE  /\ IsMesh(m2) /\ m2.made = m.made + 2
         /\ \A o : o \in Alive(m2) <=> o \in Alive(m) \/ o \in NewHandles(m)
         /\ \A o \in Handles(m) : m2.vert[o] = IF o = h THEN v ELSE m.vert[o]
         /\ m2.vert[l0] = v /\ m2.vert[l1] = Dest(m, h) /\ m2.vert[l2] = Apex(m, h)
         /\ m2.vert[r0] = v /\ m2.vert[r1] = Apex(m, h) /\ m2.vert[r2] = Org(m, h)
         /\ \A o \in Handles(m) :
              Sym(m2, o) = IF o = r1 THEN ph ELSE IF o = ph THEN r1
                ELSE IF o = l2 THEN lh ELSE IF o = lh THEN l2
                ELSE IF o = r2 THEN l1 ELSE IF o = l1 THEN r2
                ELSE IF o = b THEN r0 ELSE IF o = r0 THEN b
                ELSE IF o = a THEN l0 ELSE IF o = l0 THEN a ELSE Sym(m, o)
         /\ \A o \in NewHandles(m) :
              Sym(m2, o) = IF o = r1 THEN ph ELSE IF o = ph THEN r1
                ELSE IF o = l2 THEN lh ELSE IF o = lh THEN l2
                ELSE IF o = r2 THEN l1 ELSE IF o = l1 THEN r2
                ELSE IF o = b THEN r0 ELSE IF o = r0 THEN b
                ELSE IF o = a THEN l0 ELSE IF o = l0 THEN a ELSE Outer
<1> USE DEF SplitsIn
<1>1. PICK R, L, N : R = Org(m, h) /\ L = Dest(m, h) /\ N = Apex(m, h)
  OBVIOUS
<1>2. PICK made, Vt, cut : /\ made = TwoTriangles(m, L, N, v, N, R, v)
                           /\ Vt = [made.vert EXCEPT ![h] = v]
                           /\ cut = [made EXCEPT !.vert[h] = v]
  OBVIOUS
<1>3. m2 = FiveBonded(cut, l0, a, r0, b, l1, r2, lh, l2, ph, r1)
  <2>1. m.made \in Nat
    BY DEF IsMesh
  <2>2. NextTri(m) = m.made + 1 /\ NextTri(m) + 1 = m.made + 2
    BY <2>1 DEF NextTri
  <2>3. made = MakeTriangles(m, << <<Dest(m, h), Apex(m, h), v>>, <<Apex(m, h), Org(m, h), v>> >>)
    BY <1>1, <1>2 DEF TwoTriangles
  <2>4. m2 = BondEach(cut, << << <<NextTri(m), 0>>, a >>, << <<NextTri(m) + 1, 0>>, b >>,
                              << <<NextTri(m), 1>>, <<NextTri(m) + 1, 2>> >>,
                              << lh, <<NextTri(m), 2>> >>, << ph, <<NextTri(m) + 1, 1>> >> >>)
    BY <2>3, <1>2, Zenon DEF SplitIn
  <2> QED
    BY <2>2, <2>4, Zenon DEF FiveBonded, AreNew
<1>4. /\ IsRecord(made) /\ made.seg = {} /\ made.made = m.made + 2
      /\ IsOn(made.adj, MoreHandles(m)) /\ IsOn(made.vert, MoreHandles(m))
      /\ \A o \in Handles(m) : made.adj[o] = m.adj[o] /\ made.vert[o] = m.vert[o]
      /\ Handles(m) \cap NewHandles(m) = {}
  BY <1>2, MadeTwo
<1>5. /\ made.vert[l0] = v /\ made.vert[l1] = L /\ made.vert[l2] = N
      /\ made.vert[r0] = v /\ made.vert[r1] = N /\ made.vert[r2] = R
  <2>1. /\ \A t : t = m.made + 1 => made.vert[<<t, 0>>] = v /\ made.vert[<<t, 1>>] = L /\ made.vert[<<t, 2>>] = N
        /\ \A t : t = m.made + 2 => made.vert[<<t, 0>>] = v /\ made.vert[<<t, 1>>] = N /\ made.vert[<<t, 2>>] = R
    BY <1>2, MadeTwo
  <2> QED
    BY <2>1, Zenon DEF AreNew
<1>6. IsRecord(cut) /\ cut.adj = made.adj /\ cut.vert = Vt /\ cut.seg = {} /\ cut.made = made.made
  <2>1. cut = [adj |-> made.adj, vert |-> Vt, seg |-> made.seg, made |-> made.made]
    BY <1>2, <1>4, PutVertFields DEF IsRecord
  <2> QED
    BY <2>1, <1>4 DEF IsRecord
<1>7. IsOn(Vt, MoreHandles(m)) /\ \A o \in MoreHandles(m) : Vt[o] = IF o = h THEN v ELSE made.vert[o]
  BY <1>2, <1>4 DEF IsOn
<1>8. /\ NewHandles(m) = {l0, l1, l2, r0, r1, r2} /\ h \notin NewHandles(m) /\ h \in Handles(m)
  BY SixNew
<1>9. /\ IsMesh(m2) /\ m2.vert = Vt /\ m2.made = m.made + 2
      /\ Handles(m2) = MoreHandles(m)
      /\ \A o : o \in Alive(m2) <=> o \in Alive(m) \/ o \in NewHandles(m)
      /\ \A o \in Handles(m) :
              Sym(m2, o) = IF o = r1 THEN ph ELSE IF o = ph THEN r1
                ELSE IF o = l2 THEN lh ELSE IF o = lh THEN l2
                ELSE IF o = r2 THEN l1 ELSE IF o = l1 THEN r2
                ELSE IF o = b THEN r0 ELSE IF o = r0 THEN b
                ELSE IF o = a THEN l0 ELSE IF o = l0 THEN a ELSE Sym(m, o)
      /\ \A o \in NewHandles(m) :
              Sym(m2, o) = IF o = r1 THEN ph ELSE IF o = ph THEN r1
                ELSE IF o = l2 THEN lh ELSE IF o = lh THEN l2
                ELSE IF o = r2 THEN l1 ELSE IF o = l1 THEN r2
                ELSE IF o = b THEN r0 ELSE IF o = r0 THEN b
                ELSE IF o = a THEN l0 ELSE IF o = l0 THEN a ELSE Outer
  <2>1. IsMesh(m) /\ made = TwoTriangles(m, L, N, v, N, R, v)
    BY <1>2
  <2>2. IsOn(Vt, MoreHandles(m))
    BY <1>7
  <2> QED
    BY ONLY <2>1, <2>2, <1>3, <1>6, TwoMore
<1>10. \A o \in Handles(m) : m2.vert[o] = IF o = h THEN v ELSE m.vert[o]
  BY <1>4, <1>7, <1>9 DEF MoreHandles
<1>11. /\ m2.vert[l0] = v /\ m2.vert[l1] = L /\ m2.vert[l2] = N
       /\ m2.vert[r0] = v /\ m2.vert[r1] = N /\ m2.vert[r2] = R
  BY <1>5, <1>7, <1>8, <1>9 DEF MoreHandles
<1> QED
  BY <1>1, <1>9, <1>10, <1>11

----------------------------------------------------------------------------
\* Splitting a triangle at a vertex inside of it keeps the mesh sound; every
\* triangle then has the vertex for a corner or is as it was, and elsewhere
\* (triangle.c:8434-8490).
LEMMA SplitInKeepsSound ==
  ASSUME Given, NEW m, m = mesh, Sound(m), NEW h \in Alive(m), NEW v \in Corners, NEW m2, m2 = SplitIn(h, v),
         Counterclockwise(Org(m, h), Dest(m, h), v) > 0,
         Counterclockwise(Dest(m, h), Apex(m, h), v) > 0,
         Counterclockwise(Apex(m, h), Org(m, h), v) > 0
  PROVE  /\ Sound(m2) /\ Apex(m2, h) = v /\ h \in Alive(m2) /\ Alive(m) \subseteq Alive(m2)
         /\ \A o \in Alive(m2) : Meets(m2, o, v) \/ (SameTriangle(m, m2, o) /\ o[1] # h[1])
<1>1. PICK lh, ph : lh = Lnext(h) /\ ph = Lprev(h)
  OBVIOUS
<1>2. PICK l0, l1, l2, r0, r1, r2 :
        AreNew(m, l0, l1, l2, r0, r1, r2)
  BY DEF AreNew
<1>3. PICK R, L, N : R = Org(m, h) /\ L = Dest(m, h) /\ N = Apex(m, h)
  OBVIOUS
<1>4. PICK a, b, c : a = Sym(m, lh) /\ b = Sym(m, ph) /\ c = Sym(m, h)
  OBVIOUS
<1> DEFINE K == {h, lh, ph}
           K2 == K \cup NewHandles(m)
<1>7. IsMesh(m) /\ HasBoundary(m) /\ \A o \in Alive(m) : Faces(m, o)
  BY DEF Sound
<1>8. /\ K \subseteq Alive(m) /\ lh[1] = h[1] /\ ph[1] = h[1]
      /\ Lnext(h) = lh /\ Lprev(h) = ph /\ Lnext(lh) = ph /\ Lprev(lh) = h /\ Lnext(ph) = h /\ Lprev(ph) = lh
      /\ h # lh /\ h # ph /\ lh # ph
      /\ \A q \in Alive(m) : q[1] = h[1] => q \in K
      /\ Org(m, lh) = L /\ Dest(m, lh) = N /\ Org(m, ph) = N /\ Dest(m, ph) = R
  BY <1>1, <1>3, <1>7, AliveTurns
<1>9. /\ NewHandles(m) = {l0, l1, l2, r0, r1, r2}
      /\ l0 # l1 /\ l0 # l2 /\ l1 # l2 /\ r0 # r1 /\ r0 # r2 /\ r1 # r2
      /\ l0 # r0 /\ l0 # r1 /\ l0 # r2 /\ l1 # r0 /\ l1 # r1 /\ l1 # r2
      /\ l2 # r0 /\ l2 # r1 /\ l2 # r2
      /\ Lnext(l0) = l1 /\ Lnext(l1) = l2 /\ Lnext(l2) = l0
      /\ Lprev(l0) = l2 /\ Lprev(l1) = l0 /\ Lprev(l2) = l1
      /\ Lnext(r0) = r1 /\ Lnext(r1) = r2 /\ Lnext(r2) = r0
      /\ Lprev(r0) = r2 /\ Lprev(r1) = r0 /\ Lprev(r2) = r1
      /\ \A o \in Alive(m) : o \in Handles(m) /\ o \notin NewHandles(m)
      /\ Outer \in Handles(m) /\ Outer \notin NewHandles(m)
  BY <1>2, <1>7, SixNew
<1>14. /\ IsMesh(m2) /\ \A o : o \in Alive(m2) <=> o \in Alive(m) \/ o \in NewHandles(m)
       /\ \A o \in Handles(m) : m2.vert[o] = IF o = h THEN v ELSE m.vert[o]
       /\ m2.vert[l0] = v /\ m2.vert[l1] = L /\ m2.vert[l2] = N
       /\ m2.vert[r0] = v /\ m2.vert[r1] = N /\ m2.vert[r2] = R
       /\ \A o \in Handles(m) :
            Sym(m2, o) = IF o = r1 THEN ph ELSE IF o = ph THEN r1
              ELSE IF o = l2 THEN lh ELSE IF o = lh THEN l2
              ELSE IF o = r2 THEN l1 ELSE IF o = l1 THEN r2
              ELSE IF o = b THEN r0 ELSE IF o = r0 THEN b
              ELSE IF o = a THEN l0 ELSE IF o = l0 THEN a ELSE Sym(m, o)
       /\ \A o \in NewHandles(m) :
            Sym(m2, o) = IF o = r1 THEN ph ELSE IF o = ph THEN r1
              ELSE IF o = l2 THEN lh ELSE IF o = lh THEN l2
              ELSE IF o = r2 THEN l1 ELSE IF o = l1 THEN r2
              ELSE IF o = b THEN r0 ELSE IF o = r0 THEN b
              ELSE IF o = a THEN l0 ELSE IF o = l0 THEN a ELSE Outer
  <2>1. h \in Alive(m) /\ SplitsIn(m, h, v, m2, l0, l1, l2, r0, r1, r2)
    BY <1>2 DEF SplitsIn
  <2> HIDE DEF K, K2
  <2> QED
    BY ONLY <2>1, <1>1, <1>3, <1>4, <1>7, SplitInFields
<1>15. /\ a \notin K /\ b \notin K /\ c \notin K
       /\ a \notin NewHandles(m) /\ b \notin NewHandles(m) /\ c \notin NewHandles(m)
       /\ a # Outer => a \in Alive(m) /\ Sym(m, a) = lh
       /\ b # Outer => b \in Alive(m) /\ Sym(m, b) = ph
       /\ c # Outer => c \in Alive(m) /\ Sym(m, c) = h
  <2>1. a[1] # h[1] /\ b[1] # h[1] /\ c[1] # h[1]
    BY <1>4, <1>8, OtherTriangle
  <2>2. /\ a # Outer => a \in Alive(m) /\ Sym(m, a) = lh
        /\ b # Outer => b \in Alive(m) /\ Sym(m, b) = ph
        /\ c # Outer => c \in Alive(m) /\ Sym(m, c) = h
    BY <1>4, <1>7, <1>8 DEF Faces
  <2> QED
    BY <2>1, <2>2, <1>8, <1>9
<1>16. /\ Sym(m2, l0) = a /\ Sym(m2, r0) = b /\ Sym(m2, h) = c
       /\ Sym(m2, l1) = r2 /\ Sym(m2, r2) = l1 /\ Sym(m2, lh) = l2 /\ Sym(m2, l2) = lh
       /\ Sym(m2, ph) = r1 /\ Sym(m2, r1) = ph
       /\ a # Outer => Sym(m2, a) = l0
       /\ b # Outer => Sym(m2, b) = r0
       /\ c # Outer => Sym(m2, c) = h
  <2>1. a # Outer => a # b /\ a # c
    BY <1>4, <1>8, <1>15
  <2>2. b # Outer => b # a /\ b # c
    BY <1>4, <1>8, <1>15
  <2>3. c # Outer => c # a /\ c # b
    BY <1>4, <1>8, <1>15
  <2>4. h \in Handles(m) /\ lh \in Handles(m) /\ ph \in Handles(m)
        /\ h \notin NewHandles(m) /\ lh \notin NewHandles(m) /\ ph \notin NewHandles(m)
    BY <1>8, <1>9
  <2>5. /\ Sym(m2, l0) = a /\ Sym(m2, r0) = b /\ Sym(m2, l1) = r2 /\ Sym(m2, r2) = l1
        /\ Sym(m2, l2) = lh /\ Sym(m2, r1) = ph
    BY <1>8, <1>9, <1>14, <1>15, <2>4
  <2>6. Sym(m2, h) = c /\ Sym(m2, lh) = l2 /\ Sym(m2, ph) = r1
    BY <1>4, <1>8, <1>9, <1>14, <1>15, <2>4
  <2>7. /\ a # Outer => Sym(m2, a) = l0
        /\ b # Outer => Sym(m2, b) = r0
        /\ c # Outer => Sym(m2, c) = h
    BY <1>8, <1>9, <1>14, <1>15, <2>1, <2>2, <2>3, <2>4
  <2> QED
    BY <2>5, <2>6, <2>7
<1>17. /\ Org(m2, h) = R /\ Dest(m2, h) = L /\ Apex(m2, h) = v
       /\ Org(m2, lh) = L /\ Dest(m2, lh) = v /\ Apex(m2, lh) = R
       /\ Org(m2, ph) = v /\ Dest(m2, ph) = R /\ Apex(m2, ph) = L
       /\ Org(m2, l0) = L /\ Dest(m2, l0) = N /\ Apex(m2, l0) = v
       /\ Org(m2, l1) = N /\ Dest(m2, l1) = v /\ Apex(m2, l1) = L
       /\ Org(m2, l2) = v /\ Dest(m2, l2) = L /\ Apex(m2, l2) = N
       /\ Org(m2, r0) = N /\ Dest(m2, r0) = R /\ Apex(m2, r0) = v
       /\ Org(m2, r1) = R /\ Dest(m2, r1) = v /\ Apex(m2, r1) = N
       /\ Org(m2, r2) = v /\ Dest(m2, r2) = N /\ Apex(m2, r2) = R
  <2>1. m.vert[lh] = R /\ m.vert[ph] = L
    BY <1>3, <1>8 DEF Org, Dest
  <2>2. m2.vert[h] = v /\ m2.vert[lh] = R /\ m2.vert[ph] = L
    BY <2>1, <1>8, <1>9, <1>14
  <2>3. /\ Org(m2, h) = R /\ Dest(m2, h) = L /\ Apex(m2, h) = v
        /\ Org(m2, lh) = L /\ Dest(m2, lh) = v /\ Apex(m2, lh) = R
        /\ Org(m2, ph) = v /\ Dest(m2, ph) = R /\ Apex(m2, ph) = L
    BY <2>2, <1>8 DEF Org, Dest, Apex
  <2>4. /\ Org(m2, l0) = L /\ Dest(m2, l0) = N /\ Apex(m2, l0) = v
        /\ Org(m2, l1) = N /\ Dest(m2, l1) = v /\ Apex(m2, l1) = L
        /\ Org(m2, l2) = v /\ Dest(m2, l2) = L /\ Apex(m2, l2) = N
    BY <1>9, <1>14 DEF Org, Dest, Apex
  <2>5. /\ Org(m2, r0) = N /\ Dest(m2, r0) = R /\ Apex(m2, r0) = v
        /\ Org(m2, r1) = R /\ Dest(m2, r1) = v /\ Apex(m2, r1) = N
        /\ Org(m2, r2) = v /\ Dest(m2, r2) = N /\ Apex(m2, r2) = R
    BY <1>9, <1>14 DEF Org, Dest, Apex
  <2> QED
    BY <2>3, <2>4, <2>5
<1>18. ASSUME NEW o \in Alive(m) \ K
       PROVE  /\ Org(m2, o) = Org(m, o) /\ Dest(m2, o) = Dest(m, o) /\ Apex(m2, o) = Apex(m, o)
  <2>1. Lnext(o) \in Alive(m) /\ Lprev(o) \in Alive(m) /\ Lnext(o)[1] = o[1] /\ Lprev(o)[1] = o[1]
    BY <1>7, AliveTurns
  <2>2. Lnext(o) # h /\ Lprev(o) # h /\ o # h
    BY <2>1, <1>8
  <2> QED
    BY <2>1, <2>2, <1>9, <1>14 DEF Org, Dest, Apex
<1>19. ASSUME NEW o \in Alive(m) \ K
       PROVE  IF Sym(m, o) \in K THEN TRUE ELSE Sym(m2, o) = Sym(m, o)
  <2>1. CASE Sym(m, o) \notin K
    <3>1. o # a /\ o # b
      BY <2>1, <1>15, <1>8, OuterNotAlive
    <3> QED
      BY <3>1, <2>1, <1>8, <1>9, <1>14
  <2> QED
    BY <2>1
<1> DEFINE Q == {h, l0, r0}
           old == [x \in Q |-> IF x = h THEN h ELSE IF x = l0 THEN lh ELSE ph]
<1>20. old[h] = h /\ old[l0] = lh /\ old[r0] = ph
  BY <1>8, <1>9
<1>21. \/ \E x \in Q : Sym(m, old[x]) = Outer /\ Sym(m2, Outer) = x
       \/ Sym(m, Outer) \notin K /\ Sym(m2, Outer) = Sym(m, Outer)
  <2>1. Sym(m, Sym(m, Outer)) = Outer /\ Outer \notin K
    BY <1>7, <1>8, OuterNotAlive DEF HasBoundary
  <2>2. CASE a = Outer \/ b = Outer
    <3>1. Sym(m2, Outer) = IF Outer = b THEN r0 ELSE l0
      BY <2>1, <2>2, <1>9, <1>14
    <3> QED
      BY <2>2, <3>1, <1>4, <1>20
  <2>3. CASE a # Outer /\ b # Outer
    <3>1. Sym(m2, Outer) = Sym(m, Outer)
      BY <2>1, <2>3, <1>9, <1>14
    <3>2. Sym(m, Outer) \notin {lh, ph}
      BY <2>1, <2>3, <1>4
    <3> QED
      BY <2>1, <3>1, <3>2, <1>20
  <2> QED
    BY <2>2, <2>3
<1>22. HasBoundary(m2) /\ \A o \in Alive(m2) : Faces(m2, o)
  <2>1. /\ K \in SUBSET Alive(m) /\ K2 \in SUBSET Alive(m2) /\ Alive(m) \ K = Alive(m2) \ K2
        /\ Q \in SUBSET K2 /\ \A x \in Q : old[x] \in K
    BY <1>8, <1>9, <1>14, <1>20
  <2>2. \A o \in Alive(m) \ K : Org(m2, o) = Org(m, o) /\ Dest(m2, o) = Dest(m, o)
    BY <1>18
  <2>3. \A x \in Q : /\ Org(m2, x) = Org(m, old[x]) /\ Dest(m2, x) = Dest(m, old[x])
                     /\ Sym(m2, x) = Sym(m, old[x]) /\ Sym(m, old[x]) \notin K
                     /\ Sym(m, old[x]) # Outer => Sym(m2, Sym(m, old[x])) = x
    BY <1>3, <1>4, <1>8, <1>15, <1>16, <1>17, <1>20
  <2>4. \A x \in K2 \ Q : /\ Sym(m2, x) \in K2 /\ Sym(m2, Sym(m2, x)) = x
                          /\ Org(m2, Sym(m2, x)) = Dest(m2, x) /\ Dest(m2, Sym(m2, x)) = Org(m2, x)
    BY <1>9, <1>16, <1>17
  <2>5. \A o \in Alive(m) \ K : IF Sym(m, o) \in K THEN \E x \in Q : old[x] = Sym(m, o)
                                                   ELSE Sym(m2, o) = Sym(m, o)
    BY <1>19, <1>20
  <2>6. \/ \E x \in Q : Sym(m, old[x]) = Outer /\ Sym(m2, Outer) = x
        \/ Sym(m, Outer) \notin K /\ Sym(m2, Outer) = Sym(m, Outer)
    BY <1>21
  <2> HIDE DEF K, K2, Q, old
  <2>7. Regroups(m, m2, K, K2, Q, old)
    BY <2>1, <2>2, <2>3, <2>4, <2>5, <2>6 DEF Regroups
  <2> QED
    BY <1>7, <2>7, Regrouped
<1>23. /\ R \in Corners /\ L \in Corners /\ N \in Corners
       /\ IsPlace(R) /\ IsPlace(L) /\ IsPlace(N) /\ IsPlace(v)
  BY <1>3, SoundHandle, CornerKinds
<1>24. ASSUME NEW o \in Alive(m2)
       PROVE  TurnsLeft(m2, o) /\ m2.vert[o] \in Corners
  <2>1. CASE o \notin K2
    <3>1. o \in Alive(m) \ K
      BY <2>1, <1>14
    <3>2. TurnsLeft(m, o) /\ m.vert[o] \in Corners
      BY <3>1 DEF Sound
    <3> QED
      BY <3>1, <3>2, <1>18 DEF TurnsLeft, Apex
  <2>2. CASE o \in K2
    <3>2. Counterclockwise(R, L, v) > 0 /\ Counterclockwise(L, N, v) > 0 /\ Counterclockwise(N, R, v) > 0
      BY <1>3
    <3>3. /\ Counterclockwise(L, v, R) > 0 /\ Counterclockwise(v, R, L) > 0
          /\ Counterclockwise(N, v, L) > 0 /\ Counterclockwise(v, L, N) > 0
          /\ Counterclockwise(R, v, N) > 0 /\ Counterclockwise(v, N, R) > 0
      BY <1>23, <3>2, Turning
    <3>4. m2.vert[o] \in Corners
      BY <1>23, <2>2, <1>9, <1>17 DEF Apex
    <3>5. o \in {h, lh, ph, l0, l1, l2, r0, r1, r2}
      BY <2>2, <1>9
    <3> QED
      BY <3>2, <3>3, <3>4, <3>5, <1>17 DEF TurnsLeft
  <2> QED
    BY <2>1, <2>2
<1>25. Sound(m2)
  BY <1>14, <1>22, <1>24 DEF Sound
<1>26. ASSUME NEW o \in Alive(m2)
       PROVE  Meets(m2, o, v) \/ (SameTriangle(m, m2, o) /\ o[1] # h[1])
  <2>1. CASE o \notin K2
    <3>1. o \in Alive(m) \ K
      BY <2>1, <1>14
    <3> QED
      BY <3>1, <1>8, <1>18 DEF SameTriangle
  <2>2. CASE o \in K2
    <3>5. o \in {h, lh, ph, l0, l1, l2, r0, r1, r2}
      BY <2>2, <1>9
    <3> QED
      BY <3>5, <1>17 DEF Meets
  <2> QED
    BY <2>1, <2>2
<1> QED
  BY <1>8, <1>14, <1>17, <1>25, <1>26

----------------------------------------------------------------------------
\* A number between two others, and how far it is from the first of them.
LEMMA SameWay ==
  ASSUME NEW r \in Int, NEW l \in Int, NEW v \in Int, (r <= v /\ v <= l) \/ (l <= v /\ v <= r)
  PROVE  /\ (v - r) * (l - r) \in Int /\ (v - r) * (l - r) >= 0
         /\ v # r => (v - r) * (l - r) > 0
<1>1. CASE r <= v /\ v <= l
  <2>1. v - r \in Int /\ l - r \in Int /\ v - r >= 0 /\ l - r >= 0 /\ (v # r => v - r > 0 /\ l - r > 0)
    BY <1>1, SMT
  <2>2. PICK x, y : x = v - r /\ y = l - r
    OBVIOUS
  <2>3. x \in Int /\ y \in Int /\ x >= 0 /\ y >= 0 /\ (v # r => x > 0 /\ y > 0)
    BY <2>1, <2>2, Zenon
  <2>4. x * y \in Int /\ x * y >= 0 /\ (v # r => x * y > 0)
    <3>1. CASE x = 0
      BY <3>1, <2>3, SMT
    <3>2. CASE x > 0
      BY <3>2, <2>3, SignOfProduct
    <3> QED
      BY <3>1, <3>2, <2>3, SMT
  <2> QED
    BY <2>2, <2>4, Zenon
<1>2. CASE l <= v /\ v <= r
  <2>1. r - v \in Int /\ r - l \in Int /\ r - v >= 0 /\ r - l >= 0 /\ (v # r => r - v > 0 /\ r - l > 0)
    BY <1>2, SMT
  <2>2. PICK x, y : x = r - v /\ y = r - l
    OBVIOUS
  <2>3. x \in Int /\ y \in Int /\ x >= 0 /\ y >= 0 /\ (v # r => x > 0 /\ y > 0)
    BY <2>1, <2>2, Zenon
  <2>4. x * y \in Int /\ x * y >= 0 /\ (v # r => x * y > 0)
    <3>1. CASE x = 0
      BY <3>1, <2>3, SMT
    <3>2. CASE x > 0
      BY <3>2, <2>3, SignOfProduct
    <3> QED
      BY <3>1, <3>2, <2>3, SMT
  <2>5. v - r = -x /\ l - r = -y
    BY <2>2, SMT
  <2>6. (-x) * (-y) = x * y
    BY <2>3, SMT
  <2> QED
    BY <2>4, <2>5, <2>6, Zenon
<1> QED
  BY <1>1, <1>2

\* The vector v is along l, which n is to the left of.
LEMMA PartOfTurn ==
  ASSUME NEW l1 \in Int, NEW l2 \in Int, NEW v1 \in Int, NEW v2 \in Int, NEW n1 \in Int, NEW n2 \in Int,
         l1 * v2 - l2 * v1 = 0, v1 * l1 + v2 * l2 > 0, l1 * n2 - l2 * n1 > 0
  PROVE  v1 * n2 - v2 * n1 > 0
<1> DEFINE E == l1 * l1 + l2 * l2
           D == v1 * l1 + v2 * l2
           c == l1 * v2 - l2 * v1
           t == l1 * n2 - l2 * n1
           s == v1 * n2 - v2 * n1
           q == l1 * n1 + l2 * n2
<1>1. E * s = D * t - c * q
  BY SMT
<1>2. E \in Int /\ D \in Int /\ c \in Int /\ t \in Int /\ s \in Int /\ q \in Int
  BY SignOfProduct, SMT
<1>3. E >= 0
  <2>1. \A x \in Int : x * x >= 0
    BY SMT
  <2>2. l1 * l1 \in Int /\ l2 * l2 \in Int /\ l1 * l1 >= 0 /\ l2 * l2 >= 0
    BY <2>1, SignOfProduct
  <2> QED
    BY <2>2, SMT
<1>4. c = 0 /\ D > 0 /\ t > 0
  OBVIOUS
<1> HIDE DEF E, D, c, t, s, q
<1>5. D * t > 0
  BY <1>2, <1>4, SignOfProduct
<1>6. E * s > 0
  BY <1>1, <1>2, <1>4, <1>5, SMT
<1>7. E # 0
  BY <1>6, <1>2, SMT
<1>8. s > 0
  BY <1>2, <1>3, <1>6, <1>7, SignOfProduct, SMT
<1> QED
  BY <1>8 DEF s

\* v is on the edge from r to l, and at neither end.
OnEdge(r, l, v) ==
  /\ Counterclockwise(r, l, v) = 0 /\ ~SamePlace(v, r) /\ ~SamePlace(v, l)
  /\ \A k \in 1 .. 2 : (r[k] <= v[k] /\ v[k] <= l[k]) \/ (l[k] <= v[k] /\ v[k] <= r[k])

\* A vertex on an edge has the triangle's apex on the left as the edge has.
LEMMA FirstHalf ==
  ASSUME NEW r, NEW l, NEW n, NEW v, IsPlace(r), IsPlace(l), IsPlace(n), IsPlace(v),
         OnEdge(r, l, v), Counterclockwise(r, l, n) > 0
  PROVE  Counterclockwise(r, v, n) > 0
<1>1. PICK r1 \in Int, r2 \in Int : r1 = r[1] /\ r2 = r[2]
  BY DEF IsPlace
<1>2. PICK l1 \in Int, l2 \in Int : l1 = l[1] /\ l2 = l[2]
  BY DEF IsPlace
<1>3. PICK n1 \in Int, n2 \in Int : n1 = n[1] /\ n2 = n[2]
  BY DEF IsPlace
<1>4. PICK v1 \in Int, v2 \in Int : v1 = v[1] /\ v2 = v[2]
  BY DEF IsPlace
<1>5. /\ Counterclockwise(r, l, v) = (r1 - v1) * (l2 - v2) - (r2 - v2) * (l1 - v1)
      /\ Counterclockwise(r, l, n) = (r1 - n1) * (l2 - n2) - (r2 - n2) * (l1 - n1)
      /\ Counterclockwise(r, v, n) = (r1 - n1) * (v2 - n2) - (r2 - n2) * (v1 - n1)
  BY <1>1, <1>2, <1>3, <1>4, Zenon DEF Counterclockwise
<1>6. /\ (r1 - v1) * (l2 - v2) - (r2 - v2) * (l1 - v1) = (l1 - r1) * (v2 - r2) - (l2 - r2) * (v1 - r1)
      /\ (r1 - n1) * (l2 - n2) - (r2 - n2) * (l1 - n1) = (l1 - r1) * (n2 - r2) - (l2 - r2) * (n1 - r1)
      /\ (r1 - n1) * (v2 - n2) - (r2 - n2) * (v1 - n1) = (v1 - r1) * (n2 - r2) - (v2 - r2) * (n1 - r1)
  BY SMT
<1>7. (v1 - r1) * (l1 - r1) + (v2 - r2) * (l2 - r2) > 0
  <2>1. /\ (r1 <= v1 /\ v1 <= l1) \/ (l1 <= v1 /\ v1 <= r1)
        /\ (r2 <= v2 /\ v2 <= l2) \/ (l2 <= v2 /\ v2 <= r2)
        /\ v1 # r1 \/ v2 # r2
    BY <1>1, <1>2, <1>4 DEF OnEdge, SamePlace
  <2>2. PICK x, y : x = (v1 - r1) * (l1 - r1) /\ y = (v2 - r2) * (l2 - r2)
    OBVIOUS
  <2>3. x \in Int /\ y \in Int /\ x >= 0 /\ y >= 0 /\ (v1 # r1 => x > 0) /\ (v2 # r2 => y > 0)
    BY <2>1, <2>2, SameWay, Zenon
  <2>4. x + y > 0
    BY <2>1, <2>3
  <2> QED
    BY <2>2, <2>4, Zenon
<1>8. PICK a1, a2, b1, b2, c1, c2 : /\ a1 = l1 - r1 /\ a2 = l2 - r2 /\ b1 = v1 - r1 /\ b2 = v2 - r2
                                    /\ c1 = n1 - r1 /\ c2 = n2 - r2
  OBVIOUS
<1>9. a1 \in Int /\ a2 \in Int /\ b1 \in Int /\ b2 \in Int /\ c1 \in Int /\ c2 \in Int
  BY <1>8
<1>10. a1 * b2 - a2 * b1 = 0 /\ b1 * a1 + b2 * a2 > 0 /\ a1 * c2 - a2 * c1 > 0
  BY <1>5, <1>6, <1>7, <1>8, Zenon DEF OnEdge
<1>11. b1 * c2 - b2 * c1 > 0
  BY <1>9, <1>10, PartOfTurn
<1> QED
  BY <1>5, <1>6, <1>8, <1>11, Zenon

\* The two triangles that v on the edge makes of one.
LEMMA Halves ==
  ASSUME NEW r, NEW l, NEW n, NEW v, IsPlace(r), IsPlace(l), IsPlace(n), IsPlace(v),
         OnEdge(r, l, v), Counterclockwise(r, l, n) > 0
  PROVE  Counterclockwise(r, v, n) > 0 /\ Counterclockwise(v, l, n) > 0
<1>1. Counterclockwise(r, v, n) > 0
  BY FirstHalf
<1>2. PICK x1 \in Int, y1 \in Int : x1 = l[1] /\ y1 = l[2]
  BY DEF IsPlace
<1>3. PICK x2 \in Int, y2 \in Int : x2 = r[1] /\ y2 = r[2]
  BY DEF IsPlace
<1>4. PICK x3 \in Int, y3 \in Int : x3 = n[1] /\ y3 = n[2]
  BY DEF IsPlace
<1>5. PICK x4 \in Int, y4 \in Int : x4 = v[1] /\ y4 = v[2]
  BY DEF IsPlace
<1> DEFINE mirror(p) == <<p[1], -p[2]>>
<1>6. PICK r2, l2, n2, v2 : r2 = mirror(r) /\ l2 = mirror(l) /\ n2 = mirror(n) /\ v2 = mirror(v)
  OBVIOUS
<1>7. /\ l2[1] = x1 /\ l2[2] = -y1 /\ r2[1] = x2 /\ r2[2] = -y2
      /\ n2[1] = x3 /\ n2[2] = -y3 /\ v2[1] = x4 /\ v2[2] = -y4
  BY <1>2, <1>3, <1>4, <1>5, <1>6
<1>8. IsPlace(r2) /\ IsPlace(l2) /\ IsPlace(n2) /\ IsPlace(v2)
  BY <1>7 DEF IsPlace
<1>9. /\ Counterclockwise(l2, r2, v2) = Counterclockwise(r, l, v)
      /\ Counterclockwise(l2, r2, n2) = Counterclockwise(r, l, n)
      /\ Counterclockwise(l2, v2, n2) = Counterclockwise(v, l, n)
  <2>1. /\ Counterclockwise(l2, r2, v2) = (x1 - x4) * ((-y2) - (-y4)) - ((-y1) - (-y4)) * (x2 - x4)
        /\ Counterclockwise(l2, r2, n2) = (x1 - x3) * ((-y2) - (-y3)) - ((-y1) - (-y3)) * (x2 - x3)
        /\ Counterclockwise(l2, v2, n2) = (x1 - x3) * ((-y4) - (-y3)) - ((-y1) - (-y3)) * (x4 - x3)
        /\ Counterclockwise(r, l, v) = (x2 - x4) * (y1 - y4) - (y2 - y4) * (x1 - x4)
        /\ Counterclockwise(r, l, n) = (x2 - x3) * (y1 - y3) - (y2 - y3) * (x1 - x3)
        /\ Counterclockwise(v, l, n) = (x4 - x3) * (y1 - y3) - (y4 - y3) * (x1 - x3)
    BY <1>2, <1>3, <1>4, <1>5, <1>7, Zenon DEF Counterclockwise
  <2>2. /\ (x1 - x4) * ((-y2) - (-y4)) - ((-y1) - (-y4)) * (x2 - x4)
             = (x2 - x4) * (y1 - y4) - (y2 - y4) * (x1 - x4)
        /\ (x1 - x3) * ((-y2) - (-y3)) - ((-y1) - (-y3)) * (x2 - x3)
             = (x2 - x3) * (y1 - y3) - (y2 - y3) * (x1 - x3)
        /\ (x1 - x3) * ((-y4) - (-y3)) - ((-y1) - (-y3)) * (x4 - x3)
             = (x4 - x3) * (y1 - y3) - (y4 - y3) * (x1 - x3)
    BY SMT
  <2> QED
    BY <2>1, <2>2, Zenon
<1>10. OnEdge(l2, r2, v2)
  <2>1. /\ (x2 <= x4 /\ x4 <= x1) \/ (x1 <= x4 /\ x4 <= x2)
        /\ (y2 <= y4 /\ y4 <= y1) \/ (y1 <= y4 /\ y4 <= y2)
        /\ ~(x4 = x2 /\ y4 = y2) /\ ~(x4 = x1 /\ y4 = y1)
    BY <1>2, <1>3, <1>5 DEF OnEdge, SamePlace
  <2>2. /\ ((-y2) <= (-y4) /\ (-y4) <= (-y1)) \/ ((-y1) <= (-y4) /\ (-y4) <= (-y2))
        /\ (-y4) = (-y2) <=> y4 = y2
        /\ (-y4) = (-y1) <=> y4 = y1
    BY <2>1
  <2>3. ~SamePlace(v2, r2) /\ ~SamePlace(v2, l2)
    BY <2>1, <2>2, <1>7 DEF SamePlace
  <2>4. \A k \in 1 .. 2 : (l2[k] <= v2[k] /\ v2[k] <= r2[k]) \/ (r2[k] <= v2[k] /\ v2[k] <= l2[k])
    <3>1. \A k \in 1 .. 2 : k = 1 \/ k = 2
      OBVIOUS
    <3> QED
      BY <3>1, <2>1, <2>2, <1>7
  <2> QED
    BY <2>3, <2>4, <1>9 DEF OnEdge
<1>11. Counterclockwise(l2, v2, n2) > 0
  BY <1>8, <1>9, <1>10, FirstHalf
<1> QED
  BY <1>1, <1>9, <1>11

----------------------------------------------------------------------------
\* What splitting does to the handles of the two triangles and the new ones.
SplitsAt(m, h, v, m2, t0, t1, t2, b0, b1, b2) ==
  m = mesh /\ m2 = SplitAt(h, v) /\ AreNew(m, t0, t1, t2, b0, b1, b2)

\* The pointers and corners after the two triangles at an edge were halved.
LEMMA SplitAtFields ==
  ASSUME NEW m, IsMesh(m), NEW h \in Alive(m), Sym(m, h) \in Alive(m), NEW v, NEW m2,
         NEW lh, lh = Lnext(h), NEW ph, ph = Lprev(h),
         NEW ls, ls = Lnext(Sym(m, h)), NEW ps, ps = Lprev(Sym(m, h)),
         NEW b, b = Sym(m, ph), NEW d, d = Sym(m, ls),
         NEW t0, NEW t1, NEW t2, NEW b0, NEW b1, NEW b2,
         SplitsAt(m, h, v, m2, t0, t1, t2, b0, b1, b2)
  PROVE  /\ IsMesh(m2) /\ m2.made = m.made + 2
         /\ \A o : o \in Alive(m2) <=> o \in Alive(m) \/ o \in NewHandles(m)
         /\ \A o \in Handles(m) : m2.vert[o] = IF o = lh \/ o = ps THEN v ELSE m.vert[o]
         /\ m2.vert[t0] = v /\ m2.vert[t1] = Org(m, h) /\ m2.vert[t2] = Dest(m, ls)
         /\ m2.vert[b0] = v /\ m2.vert[b1] = Apex(m, h) /\ m2.vert[b2] = Org(m, h)
         /\ \A o \in Handles(m) :
              Sym(m2, o) = IF o = b1 THEN t2 ELSE IF o = t2 THEN b1
                ELSE IF o = ls THEN t1 ELSE IF o = t1 THEN ls
                ELSE IF o = d THEN t0 ELSE IF o = t0 THEN d
                ELSE IF o = ph THEN b2 ELSE IF o = b2 THEN ph
                ELSE IF o = b THEN b0 ELSE IF o = b0 THEN b ELSE Sym(m, o)
         /\ \A o \in NewHandles(m) :
              Sym(m2, o) = IF o = b1 THEN t2 ELSE IF o = t2 THEN b1
                ELSE IF o = ls THEN t1 ELSE IF o = t1 THEN ls
                ELSE IF o = d THEN t0 ELSE IF o = t0 THEN d
                ELSE IF o = ph THEN b2 ELSE IF o = b2 THEN ph
                ELSE IF o = b THEN b0 ELSE IF o = b0 THEN b ELSE Outer
<1> USE DEF SplitsAt
<1>1. PICK R, N, F : R = Org(m, h) /\ N = Apex(m, h) /\ F = Dest(m, ls)
  OBVIOUS
<1>2. PICK made, Vt : /\ made = TwoTriangles(m, R, F, v, N, R, v)
                      /\ Vt = [made.vert EXCEPT ![lh] = v, ![ps] = v]
  OBVIOUS
<1>0. PICK cut : cut = [made EXCEPT !.vert[lh] = v, !.vert[ps] = v, !.seg = {}]
  OBVIOUS
<1>13. lh \in Alive(m) /\ ph \in Alive(m) /\ ls \in Alive(m) /\ ps \in Alive(m) /\ Lnext(ls) = ps
  BY AliveTurns
<1>3. m2 = FiveBonded(cut, b0, b, b2, ph, t0, d, t1, ls, t2, b1)
  <2>1. m.made \in Nat /\ m.seg = {}
    BY DEF IsMesh
  <2>2. NextTri(m) = m.made + 1 /\ NextTri(m) + 1 = m.made + 2
    BY <2>1 DEF NextTri
  <2>3. made = MakeTriangles(m, << <<Org(m, h), Dest(m, ls), v>>, <<Apex(m, h), Org(m, h), v>> >>)
    BY <1>1, <1>2 DEF TwoTriangles
  <2> DEFINE moved == {p \in {<<ph, <<NextTri(m) + 1, 0>> >>, <<ls, <<NextTri(m), 0>> >>} : p[1] \in m.seg}
             seg == (m.seg \ {p[1] : p \in moved}) \cup {p[2] : p \in moved}
                      \cup IF h \in m.seg THEN { <<NextTri(m) + 1, 1>>, <<NextTri(m), 2>> } ELSE {}
  <2>4. m2 = BondEach([made EXCEPT !.vert[lh] = v, !.vert[Lnext(ls)] = v, !.seg = seg],
                << << <<NextTri(m) + 1, 0>>, b >>, << <<NextTri(m) + 1, 2>>, ph >>,
                   << <<NextTri(m), 0>>, d >>, << <<NextTri(m), 1>>, ls >>,
                   << <<NextTri(m), 2>>, <<NextTri(m) + 1, 1>> >> >>)
    BY <2>3, Zenon DEF SplitAt
  <2>5. seg = {}
    BY <2>1
  <2> HIDE DEF seg
  <2>6. m2 = BondEach(cut, << <<b0, b>>, <<b2, ph>>, <<t0, d>>, <<t1, ls>>, <<t2, b1>> >>)
    BY <2>2, <2>4, <2>5, <1>0, <1>13, Zenon DEF AreNew
  <2> QED
    BY <2>6, Zenon DEF FiveBonded
<1>4. /\ IsRecord(made) /\ made.seg = {} /\ made.made = m.made + 2
      /\ IsOn(made.adj, MoreHandles(m)) /\ IsOn(made.vert, MoreHandles(m))
      /\ \A o \in Handles(m) : made.adj[o] = m.adj[o] /\ made.vert[o] = m.vert[o]
      /\ Handles(m) \cap NewHandles(m) = {}
  BY <1>2, MadeTwo
<1>5. /\ made.vert[t0] = v /\ made.vert[t1] = R /\ made.vert[t2] = F
      /\ made.vert[b0] = v /\ made.vert[b1] = N /\ made.vert[b2] = R
  <2>1. /\ \A t : t = m.made + 1 => made.vert[<<t, 0>>] = v /\ made.vert[<<t, 1>>] = R /\ made.vert[<<t, 2>>] = F
        /\ \A t : t = m.made + 2 => made.vert[<<t, 0>>] = v /\ made.vert[<<t, 1>>] = N /\ made.vert[<<t, 2>>] = R
    BY <1>2, MadeTwo
  <2> QED
    BY <2>1, Zenon DEF AreNew
<1>6. IsRecord(cut) /\ cut.adj = made.adj /\ cut.vert = Vt /\ cut.seg = {} /\ cut.made = made.made
  <2> DEFINE V1 == [made.vert EXCEPT ![lh] = v]
             c1 == [made EXCEPT !.vert[lh] = v]
             c2 == [c1 EXCEPT !.vert[ps] = v]
  <2>1. c1 = [adj |-> made.adj, vert |-> V1, seg |-> made.seg, made |-> made.made]
    BY <1>4, PutVertFields, SMTT(40) DEF IsRecord
  <2>2. Vt = [V1 EXCEPT ![ps] = v]
    BY <1>2
  <2>3. cut = [c2 EXCEPT !.seg = {}]
    BY <1>0
  <2> HIDE DEF V1, c1
  <2>4. c2 = [adj |-> made.adj, vert |-> Vt, seg |-> made.seg, made |-> made.made]
    BY <2>1, <2>2, PutVertFields
  <2> HIDE DEF c2
  <2>5. cut = [adj |-> made.adj, vert |-> Vt, seg |-> {}, made |-> made.made]
    BY <2>3, <2>4
  <2> QED
    BY <2>5 DEF IsRecord
<1>7. /\ IsOn(Vt, MoreHandles(m))
      /\ \A o \in MoreHandles(m) : Vt[o] = IF o = lh \/ o = ps THEN v ELSE made.vert[o]
  <2> DEFINE V1 == [made.vert EXCEPT ![lh] = v]
  <2>1. Vt = [V1 EXCEPT ![ps] = v]
    BY <1>2
  <2>2. /\ V1 = [o \in MoreHandles(m) |-> V1[o]]
        /\ \A o \in MoreHandles(m) : V1[o] = IF o = lh THEN v ELSE made.vert[o]
    BY <1>4 DEF IsOn
  <2> HIDE DEF V1
  <2> QED
    BY <2>1, <2>2 DEF IsOn
<1>8. NewHandles(m) = {t0, t1, t2, b0, b1, b2} /\ \A o \in Alive(m) : o \in Handles(m) /\ o \notin NewHandles(m)
  BY SixNew
<1>9. /\ IsMesh(m2) /\ m2.vert = Vt /\ m2.made = m.made + 2
      /\ Handles(m2) = MoreHandles(m)
      /\ \A o : o \in Alive(m2) <=> o \in Alive(m) \/ o \in NewHandles(m)
      /\ \A o \in Handles(m) :
              Sym(m2, o) = IF o = b1 THEN t2 ELSE IF o = t2 THEN b1
                ELSE IF o = ls THEN t1 ELSE IF o = t1 THEN ls
                ELSE IF o = d THEN t0 ELSE IF o = t0 THEN d
                ELSE IF o = ph THEN b2 ELSE IF o = b2 THEN ph
                ELSE IF o = b THEN b0 ELSE IF o = b0 THEN b ELSE Sym(m, o)
      /\ \A o \in NewHandles(m) :
              Sym(m2, o) = IF o = b1 THEN t2 ELSE IF o = t2 THEN b1
                ELSE IF o = ls THEN t1 ELSE IF o = t1 THEN ls
                ELSE IF o = d THEN t0 ELSE IF o = t0 THEN d
                ELSE IF o = ph THEN b2 ELSE IF o = b2 THEN ph
                ELSE IF o = b THEN b0 ELSE IF o = b0 THEN b ELSE Outer
  <2>1. IsMesh(m) /\ made = TwoTriangles(m, R, F, v, N, R, v)
    BY <1>2
  <2>2. IsOn(Vt, MoreHandles(m))
    BY <1>7
  <2> QED
    BY ONLY <2>1, <2>2, <1>3, <1>6, TwoMore
<1>10. \A o \in Handles(m) : m2.vert[o] = IF o = lh \/ o = ps THEN v ELSE m.vert[o]
  BY <1>4, <1>7, <1>9 DEF MoreHandles
<1>11. /\ m2.vert[t0] = v /\ m2.vert[t1] = R /\ m2.vert[t2] = F
       /\ m2.vert[b0] = v /\ m2.vert[b1] = N /\ m2.vert[b2] = R
  BY <1>5, <1>7, <1>8, <1>9, <1>13 DEF MoreHandles
<1> QED
  BY <1>1, <1>9, <1>10, <1>11

----------------------------------------------------------------------------
\* Splitting an edge at a vertex on it keeps the mesh sound; every triangle then
\* has the vertex for a corner or is as it was (triangle.c:8280-8432).
LEMMA SplitAtKeepsSound ==
  ASSUME Given, NEW m, m = mesh, Sound(m), NEW h \in Alive(m), Sym(m, h)[1] # DummyTri,
         NEW v \in Corners, NEW m2, m2 = SplitAt(h, v), OnEdge(Org(m, h), Dest(m, h), v)
  PROVE  /\ Sound(m2) /\ Apex(m2, Lnext(h)) = v /\ Lnext(h) \in Alive(m2) /\ Alive(m) \subseteq Alive(m2)
         /\ \A o \in Alive(m2) : Meets(m2, o, v) \/ SameTriangle(m, m2, o)
<1>1. PICK s, lh, ph, ls, ps : /\ s = Sym(m, h) /\ lh = Lnext(h) /\ ph = Lprev(h)
                               /\ ls = Lnext(s) /\ ps = Lprev(s)
  OBVIOUS
<1>2. PICK t0, t1, t2, b0, b1, b2 : AreNew(m, t0, t1, t2, b0, b1, b2)
  BY DEF AreNew
<1>3. PICK R, L, N, F : R = Org(m, h) /\ L = Dest(m, h) /\ N = Apex(m, h) /\ F = Apex(m, s)
  OBVIOUS
<1>4. PICK a, b, c, d : a = Sym(m, lh) /\ b = Sym(m, ph) /\ c = Sym(m, ps) /\ d = Sym(m, ls)
  OBVIOUS
<1> DEFINE K == {h, lh, ph, s, ls, ps}
           K2 == K \cup NewHandles(m)
<1>5. /\ s \in Alive(m) /\ Sym(m, s) = h /\ Org(m, s) = L /\ Dest(m, s) = R /\ s[1] # h[1]
      /\ K \subseteq Alive(m) /\ a \notin K /\ b \notin K /\ c \notin K /\ d \notin K
  BY <1>1, <1>3, <1>4, Quadrilateral
<1>7. IsMesh(m) /\ HasBoundary(m) /\ \A o \in Alive(m) : Faces(m, o)
  BY DEF Sound
<1>8. /\ lh[1] = h[1] /\ ph[1] = h[1] /\ ls[1] = s[1] /\ ps[1] = s[1]
      /\ Lnext(h) = lh /\ Lprev(h) = ph /\ Lnext(lh) = ph /\ Lprev(lh) = h /\ Lnext(ph) = h /\ Lprev(ph) = lh
      /\ Lnext(s) = ls /\ Lprev(s) = ps /\ Lnext(ls) = ps /\ Lprev(ls) = s /\ Lnext(ps) = s /\ Lprev(ps) = ls
      /\ h # lh /\ h # ph /\ lh # ph /\ s # ls /\ s # ps /\ ls # ps
      /\ \A q \in Alive(m) : q[1] = h[1] => q \in {h, lh, ph}
      /\ \A q \in Alive(m) : q[1] = s[1] => q \in {s, ls, ps}
      /\ Org(m, lh) = L /\ Dest(m, lh) = N /\ Org(m, ph) = N /\ Dest(m, ph) = R
      /\ Org(m, ls) = R /\ Dest(m, ls) = F /\ Org(m, ps) = F /\ Dest(m, ps) = L
  BY <1>1, <1>3, <1>5, <1>7, AliveTurns
<1>9. /\ NewHandles(m) = {t0, t1, t2, b0, b1, b2}
      /\ t0 # t1 /\ t0 # t2 /\ t1 # t2 /\ b0 # b1 /\ b0 # b2 /\ b1 # b2
      /\ t0 # b0 /\ t0 # b1 /\ t0 # b2 /\ t1 # b0 /\ t1 # b1 /\ t1 # b2
      /\ t2 # b0 /\ t2 # b1 /\ t2 # b2
      /\ Lnext(t0) = t1 /\ Lnext(t1) = t2 /\ Lnext(t2) = t0
      /\ Lprev(t0) = t2 /\ Lprev(t1) = t0 /\ Lprev(t2) = t1
      /\ Lnext(b0) = b1 /\ Lnext(b1) = b2 /\ Lnext(b2) = b0
      /\ Lprev(b0) = b2 /\ Lprev(b1) = b0 /\ Lprev(b2) = b1
      /\ \A o \in Alive(m) : o \in Handles(m) /\ o \notin NewHandles(m)
      /\ Outer \in Handles(m) /\ Outer \notin NewHandles(m)
  BY <1>2, <1>7, SixNew
<1>10. h # s /\ h # ls /\ h # ps /\ lh # s /\ lh # ls /\ lh # ps /\ ph # s /\ ph # ls /\ ph # ps
  BY <1>5, <1>8
<1>11. \A o \in K : o \in Handles(m) /\ o \notin NewHandles(m) /\ o # Outer
  BY <1>5, <1>9, OuterNotAlive
<1>14. /\ IsMesh(m2) /\ \A o : o \in Alive(m2) <=> o \in Alive(m) \/ o \in NewHandles(m)
       /\ \A o \in Handles(m) : m2.vert[o] = IF o = lh \/ o = ps THEN v ELSE m.vert[o]
       /\ m2.vert[t0] = v /\ m2.vert[t1] = R /\ m2.vert[t2] = F
       /\ m2.vert[b0] = v /\ m2.vert[b1] = N /\ m2.vert[b2] = R
       /\ \A o \in Handles(m) :
              Sym(m2, o) = IF o = b1 THEN t2 ELSE IF o = t2 THEN b1
                ELSE IF o = ls THEN t1 ELSE IF o = t1 THEN ls
                ELSE IF o = d THEN t0 ELSE IF o = t0 THEN d
                ELSE IF o = ph THEN b2 ELSE IF o = b2 THEN ph
                ELSE IF o = b THEN b0 ELSE IF o = b0 THEN b ELSE Sym(m, o)
       /\ \A o \in NewHandles(m) :
              Sym(m2, o) = IF o = b1 THEN t2 ELSE IF o = t2 THEN b1
                ELSE IF o = ls THEN t1 ELSE IF o = t1 THEN ls
                ELSE IF o = d THEN t0 ELSE IF o = t0 THEN d
                ELSE IF o = ph THEN b2 ELSE IF o = b2 THEN ph
                ELSE IF o = b THEN b0 ELSE IF o = b0 THEN b ELSE Outer
  <2>1. h \in Alive(m) /\ Sym(m, h) \in Alive(m) /\ SplitsAt(m, h, v, m2, t0, t1, t2, b0, b1, b2)
    BY <1>1, <1>2, <1>5 DEF SplitsAt
  <2>2. ls = Lnext(Sym(m, h)) /\ ps = Lprev(Sym(m, h)) /\ Dest(m, ls) = F /\ Org(m, h) = R /\ Apex(m, h) = N
    BY <1>1, <1>3, <1>8
  <2>3. lh = Lnext(h) /\ ph = Lprev(h) /\ b = Sym(m, ph) /\ d = Sym(m, ls)
    BY <1>1, <1>4
  <2> HIDE DEF K, K2
  <2> QED
    BY ONLY <2>1, <2>2, <2>3, <1>7, SplitAtFields
<1>15. /\ a \notin NewHandles(m) /\ b \notin NewHandles(m) /\ c \notin NewHandles(m) /\ d \notin NewHandles(m)
       /\ a # Outer => a \in Alive(m) /\ Sym(m, a) = lh
       /\ b # Outer => b \in Alive(m) /\ Sym(m, b) = ph
       /\ c # Outer => c \in Alive(m) /\ Sym(m, c) = ps
       /\ d # Outer => d \in Alive(m) /\ Sym(m, d) = ls
  <2>2. /\ a # Outer => a \in Alive(m) /\ Sym(m, a) = lh
        /\ b # Outer => b \in Alive(m) /\ Sym(m, b) = ph
        /\ c # Outer => c \in Alive(m) /\ Sym(m, c) = ps
        /\ d # Outer => d \in Alive(m) /\ Sym(m, d) = ls
    BY <1>4, <1>5, <1>7 DEF Faces
  <2> QED
    BY <2>2, <1>9
<1>16. /\ Sym(m2, b0) = b /\ Sym(m2, t0) = d /\ Sym(m2, lh) = a /\ Sym(m2, ps) = c
       /\ Sym(m2, h) = s /\ Sym(m2, s) = h /\ Sym(m2, b2) = ph /\ Sym(m2, ph) = b2
       /\ Sym(m2, t1) = ls /\ Sym(m2, ls) = t1 /\ Sym(m2, t2) = b1 /\ Sym(m2, b1) = t2
       /\ a # Outer => Sym(m2, a) = lh
       /\ b # Outer => Sym(m2, b) = b0
       /\ c # Outer => Sym(m2, c) = ps
       /\ d # Outer => Sym(m2, d) = t0
  <2>1. a # Outer => a # b /\ a # d
    BY <1>4, <1>8, <1>10, <1>15
  <2>2. b # Outer => b # d
    BY <1>4, <1>8, <1>10, <1>15
  <2>3. c # Outer => c # b /\ c # d
    BY <1>4, <1>8, <1>10, <1>15
  <2>5. /\ Sym(m2, b0) = b /\ Sym(m2, t0) = d /\ Sym(m2, b2) = ph /\ Sym(m2, b1) = t2
        /\ Sym(m2, t1) = ls /\ Sym(m2, t2) = b1
    BY <1>8, <1>9, <1>11, <1>14, <1>15
  <2>6. /\ Sym(m2, lh) = a /\ Sym(m2, ps) = c /\ Sym(m2, h) = s /\ Sym(m2, s) = h
        /\ Sym(m2, ph) = b2 /\ Sym(m2, ls) = t1
    BY <1>1, <1>4, <1>5, <1>8, <1>9, <1>10, <1>11, <1>14
  <2>7. /\ a # Outer => Sym(m2, a) = lh
        /\ b # Outer => Sym(m2, b) = b0
        /\ c # Outer => Sym(m2, c) = ps
        /\ d # Outer => Sym(m2, d) = t0
    BY <1>5, <1>9, <1>14, <1>15, <2>1, <2>2, <2>3
  <2> QED
    BY <2>5, <2>6, <2>7
<1>17. /\ Org(m2, h) = v /\ Dest(m2, h) = L /\ Apex(m2, h) = N
       /\ Org(m2, lh) = L /\ Dest(m2, lh) = N /\ Apex(m2, lh) = v
       /\ Org(m2, ph) = N /\ Dest(m2, ph) = v /\ Apex(m2, ph) = L
       /\ Org(m2, s) = L /\ Dest(m2, s) = v /\ Apex(m2, s) = F
       /\ Org(m2, ls) = v /\ Dest(m2, ls) = F /\ Apex(m2, ls) = L
       /\ Org(m2, ps) = F /\ Dest(m2, ps) = L /\ Apex(m2, ps) = v
       /\ Org(m2, t0) = R /\ Dest(m2, t0) = F /\ Apex(m2, t0) = v
       /\ Org(m2, t1) = F /\ Dest(m2, t1) = v /\ Apex(m2, t1) = R
       /\ Org(m2, t2) = v /\ Dest(m2, t2) = R /\ Apex(m2, t2) = F
       /\ Org(m2, b0) = N /\ Dest(m2, b0) = R /\ Apex(m2, b0) = v
       /\ Org(m2, b1) = R /\ Dest(m2, b1) = v /\ Apex(m2, b1) = N
       /\ Org(m2, b2) = v /\ Dest(m2, b2) = N /\ Apex(m2, b2) = R
  <2>1. m.vert[h] = N /\ m.vert[ph] = L /\ m.vert[s] = F /\ m.vert[ls] = L
    BY <1>3, <1>5, <1>8 DEF Org, Dest, Apex
  <2>2. /\ m2.vert[h] = N /\ m2.vert[lh] = v /\ m2.vert[ph] = L
        /\ m2.vert[s] = F /\ m2.vert[ls] = L /\ m2.vert[ps] = v
    BY <2>1, <1>8, <1>10, <1>11, <1>14
  <2>3. /\ Org(m2, h) = v /\ Dest(m2, h) = L /\ Apex(m2, h) = N
        /\ Org(m2, lh) = L /\ Dest(m2, lh) = N /\ Apex(m2, lh) = v
        /\ Org(m2, ph) = N /\ Dest(m2, ph) = v /\ Apex(m2, ph) = L
    BY <2>2, <1>8 DEF Org, Dest, Apex
  <2>4. /\ Org(m2, s) = L /\ Dest(m2, s) = v /\ Apex(m2, s) = F
        /\ Org(m2, ls) = v /\ Dest(m2, ls) = F /\ Apex(m2, ls) = L
        /\ Org(m2, ps) = F /\ Dest(m2, ps) = L /\ Apex(m2, ps) = v
    BY <2>2, <1>8 DEF Org, Dest, Apex
  <2>5. /\ Org(m2, t0) = R /\ Dest(m2, t0) = F /\ Apex(m2, t0) = v
        /\ Org(m2, t1) = F /\ Dest(m2, t1) = v /\ Apex(m2, t1) = R
        /\ Org(m2, t2) = v /\ Dest(m2, t2) = R /\ Apex(m2, t2) = F
    BY <1>9, <1>14 DEF Org, Dest, Apex
  <2>6. /\ Org(m2, b0) = N /\ Dest(m2, b0) = R /\ Apex(m2, b0) = v
        /\ Org(m2, b1) = R /\ Dest(m2, b1) = v /\ Apex(m2, b1) = N
        /\ Org(m2, b2) = v /\ Dest(m2, b2) = N /\ Apex(m2, b2) = R
    BY <1>9, <1>14 DEF Org, Dest, Apex
  <2> QED
    BY <2>3, <2>4, <2>5, <2>6
<1>18. ASSUME NEW o \in Alive(m) \ K
       PROVE  /\ Org(m2, o) = Org(m, o) /\ Dest(m2, o) = Dest(m, o) /\ Apex(m2, o) = Apex(m, o)
  <2>1. Lnext(o) \in Alive(m) /\ Lprev(o) \in Alive(m) /\ Lnext(o)[1] = o[1] /\ Lprev(o)[1] = o[1]
    BY <1>7, AliveTurns
  <2>2. Lnext(o) \notin {lh, ps} /\ Lprev(o) \notin {lh, ps} /\ o \notin {lh, ps}
    BY <2>1, <1>8
  <2> QED
    BY <2>1, <2>2, <1>9, <1>14 DEF Org, Dest, Apex
<1> DEFINE Q == {lh, ps, b0, t0}
           old == [x \in Q |-> IF x = lh THEN lh ELSE IF x = ps THEN ps ELSE IF x = b0 THEN ph ELSE ls]
<1>20. old[lh] = lh /\ old[ps] = ps /\ old[b0] = ph /\ old[t0] = ls
  BY <1>9, <1>10, <1>11
<1>19. ASSUME NEW o \in Alive(m) \ K
       PROVE  IF Sym(m, o) \in K THEN \E x \in Q : old[x] = Sym(m, o) ELSE Sym(m2, o) = Sym(m, o)
  <2>1. CASE Sym(m, o) \notin K
    <3>1. o # b /\ o # d
      BY <2>1, <1>15, OuterNotAlive
    <3> QED
      BY <3>1, <2>1, <1>9, <1>14
  <2>2. CASE Sym(m, o) \in K
    <3>1. Sym(m, Sym(m, o)) = o
      BY <2>2, <1>5, <1>7, OuterNotAlive DEF Faces
    <3>2. Sym(m, o) \in {lh, ph, ls, ps}
      BY <2>2, <3>1, <1>1, <1>5
    <3> QED
      BY <2>2, <3>2, <1>20
  <2> QED
    BY <2>1, <2>2
<1>21. \/ \E x \in Q : Sym(m, old[x]) = Outer /\ Sym(m2, Outer) = x
       \/ Sym(m, Outer) \notin K /\ Sym(m2, Outer) = Sym(m, Outer)
  <2>1. Sym(m, Sym(m, Outer)) = Outer /\ Outer \notin K
    BY <1>7, <1>11 DEF HasBoundary
  <2>2. CASE b = Outer \/ d = Outer
    <3>1. Sym(m2, Outer) = IF Outer = d THEN t0 ELSE b0
      BY <2>1, <2>2, <1>9, <1>14
    <3> QED
      BY <2>2, <3>1, <1>4, <1>20
  <2>3. CASE b # Outer /\ d # Outer
    <3>1. Sym(m2, Outer) = Sym(m, Outer)
      BY <2>1, <2>3, <1>9, <1>14
    <3>2. Sym(m, Outer) \notin {ls, ph, h, s}
      BY <2>1, <2>3, <1>1, <1>4, <1>5, OuterNotAlive
    <3> QED
      BY <2>1, <3>1, <3>2, <1>20
  <2> QED
    BY <2>2, <2>3
<1>22. HasBoundary(m2) /\ \A o \in Alive(m2) : Faces(m2, o)
  <2>1. /\ K \subseteq Alive(m) /\ K2 \subseteq Alive(m2) /\ Alive(m) \ K = Alive(m2) \ K2
        /\ Q \subseteq K2 /\ \A x \in Q : old[x] \in K
    BY <1>5, <1>9, <1>14, <1>20
  <2>2. \A o \in Alive(m) \ K : Org(m2, o) = Org(m, o) /\ Dest(m2, o) = Dest(m, o)
    BY <1>18
  <2>3. \A x \in Q : /\ Org(m2, x) = Org(m, old[x]) /\ Dest(m2, x) = Dest(m, old[x])
                     /\ Sym(m2, x) = Sym(m, old[x]) /\ Sym(m, old[x]) \notin K
                     /\ Sym(m, old[x]) # Outer => Sym(m2, Sym(m, old[x])) = x
    BY <1>4, <1>5, <1>8, <1>16, <1>17, <1>20
  <2>4. \A x \in K2 \ Q : /\ Sym(m2, x) \in K2 /\ Sym(m2, Sym(m2, x)) = x
                          /\ Org(m2, Sym(m2, x)) = Dest(m2, x) /\ Dest(m2, Sym(m2, x)) = Org(m2, x)
    BY <1>9, <1>16, <1>17
  <2>5. \A o \in Alive(m) \ K : IF Sym(m, o) \in K THEN \E x \in Q : old[x] = Sym(m, o)
                                                   ELSE Sym(m2, o) = Sym(m, o)
    BY <1>19
  <2>6. \/ \E x \in Q : Sym(m, old[x]) = Outer /\ Sym(m2, Outer) = x
        \/ Sym(m, Outer) \notin K /\ Sym(m2, Outer) = Sym(m, Outer)
    BY <1>21
  <2> HIDE DEF K, K2, Q, old
  <2>7. Regroups(m, m2, K, K2, Q, old)
    BY <2>1, <2>2, <2>3, <2>4, <2>5, <2>6 DEF Regroups
  <2> QED
    BY <1>7, <2>7, Regrouped
<1>23. /\ R \in Corners /\ L \in Corners /\ N \in Corners /\ F \in Corners
       /\ IsPlace(R) /\ IsPlace(L) /\ IsPlace(N) /\ IsPlace(F) /\ IsPlace(v)
       /\ Counterclockwise(R, L, N) > 0 /\ Counterclockwise(L, R, F) > 0
  BY <1>3, <1>5, SoundHandle, CornerKinds
<1>24. /\ Counterclockwise(R, v, N) > 0 /\ Counterclockwise(v, L, N) > 0
       /\ Counterclockwise(L, v, F) > 0 /\ Counterclockwise(v, R, F) > 0
  <2>1. OnEdge(R, L, v)
    BY <1>3
  <2>2. OnEdge(L, R, v)
    <3>1. Counterclockwise(L, R, v) = 0
      BY <2>1, <1>23, Turning DEF OnEdge
    <3> QED
      BY <2>1, <3>1 DEF OnEdge
  <2> QED
    BY <2>1, <2>2, <1>23, Halves
<1>25. /\ Counterclockwise(v, N, R) > 0 /\ Counterclockwise(N, R, v) > 0
       /\ Counterclockwise(L, N, v) > 0 /\ Counterclockwise(N, v, L) > 0
       /\ Counterclockwise(v, F, L) > 0 /\ Counterclockwise(F, L, v) > 0
       /\ Counterclockwise(R, F, v) > 0 /\ Counterclockwise(F, v, R) > 0
  BY <1>23, <1>24, Turning
<1>26. ASSUME NEW o \in Alive(m2)
       PROVE  TurnsLeft(m2, o) /\ m2.vert[o] \in Corners
  <2>1. CASE o \notin K2
    <3>1. o \in Alive(m) \ K
      BY <2>1, <1>14
    <3>2. TurnsLeft(m, o) /\ m.vert[o] \in Corners
      BY <3>1 DEF Sound
    <3> QED
      BY <3>1, <3>2, <1>18 DEF TurnsLeft, Apex
  <2>2. CASE o \in K2
    <3>5. o \in {h, lh, ph, s, ls, ps, t0, t1, t2, b0, b1, b2}
      BY <2>2, <1>9
    <3>4. m2.vert[o] \in Corners
      BY <1>23, <3>5, <1>17 DEF Apex
    <3> QED
      BY <1>24, <1>25, <3>4, <3>5, <1>17 DEF TurnsLeft
  <2> QED
    BY <2>1, <2>2
<1>27. Sound(m2)
  BY <1>14, <1>22, <1>26 DEF Sound
<1>28. ASSUME NEW o \in Alive(m2)
       PROVE  Meets(m2, o, v) \/ SameTriangle(m, m2, o)
  <2>1. CASE o \notin K2
    <3>1. o \in Alive(m) \ K
      BY <2>1, <1>14
    <3> QED
      BY <3>1, <1>18 DEF SameTriangle
  <2>2. CASE o \in K2
    <3>5. o \in {h, lh, ph, s, ls, ps, t0, t1, t2, b0, b1, b2}
      BY <2>2, <1>9
    <3> QED
      BY <3>5, <1>17 DEF Meets
  <2> QED
    BY <2>1, <2>2
<1> QED
  BY <1>1, <1>5, <1>14, <1>17, <1>27, <1>28

----------------------------------------------------------------------------
\* Around a corner of the box the others are on one side, so that turns add up.
LEMMA Fan ==
  ASSUME Given, NEW b \in BoxCorners, NEW u \in Corners \ {b}, NEW v \in Corners \ {b}, NEW w \in Corners \ {b},
         Counterclockwise(u, v, b) > 0, Counterclockwise(v, w, b) > 0
  PROVE  Counterclockwise(u, w, b) > 0
<1>1. IsPlace(b) /\ IsPlace(u) /\ IsPlace(v) /\ IsPlace(w)
  BY CornerKinds
<1>2. PICK x \in Int, y \in Int : x = Direction(b)[1] /\ y = Direction(b)[2]
  BY BoxAround DEF BoxCorners
<1>3. PICK u1 \in Int, u2 \in Int : u1 = u[1] - b[1] /\ u2 = u[2] - b[2]
  BY <1>1 DEF IsPlace
<1>4. PICK v1 \in Int, v2 \in Int : v1 = v[1] - b[1] /\ v2 = v[2] - b[2]
  BY <1>1 DEF IsPlace
<1>5. PICK w1 \in Int, w2 \in Int : w1 = w[1] - b[1] /\ w2 = w[2] - b[2]
  BY <1>1 DEF IsPlace
<1>6. /\ x * u1 + y * u2 < 0
      /\ x * v1 + y * v2 < 0
      /\ x * w1 + y * w2 < 0
  <2>1. \A p \in Corners \ {b} : x * (p[1] - b[1]) + y * (p[2] - b[2]) < 0
    BY <1>2, BoxAround DEF BoxCorners
  <2> QED
    BY <2>1, <1>3, <1>4, <1>5
<1>7. /\ (-x) * u1 + (-y) * u2 > 0
      /\ (-x) * v1 + (-y) * v2 > 0
      /\ (-x) * w1 + (-y) * w2 > 0
  <2>1. \A p \in Int, q \in Int : (-x) * p + (-y) * q = -(x * p + y * q)
    BY SMT
  <2>2. \A p \in Int, q \in Int : x * p + y * q \in Int
    BY SMT
  <2> QED
    BY <1>6, <2>1, <2>2
<1>8. /\ Counterclockwise(u, v, b) = u1 * v2 - u2 * v1
      /\ Counterclockwise(v, w, b) = v1 * w2 - v2 * w1
      /\ Counterclockwise(u, w, b) = u1 * w2 - u2 * w1
  BY <1>3, <1>4, <1>5, Zenon DEF Counterclockwise
<1>9. PICK p \in Int, q \in Int : p = -x /\ q = -y
  BY <1>2
<1>10. p * u1 + q * u2 > 0 /\ p * v1 + q * v2 > 0 /\ p * w1 + q * w2 > 0
  BY <1>7, <1>9, Zenon
<1>11. u1 * v2 - u2 * v1 > 0 /\ v1 * w2 - v2 * w1 > 0
  BY <1>8, Zenon
<1>12. u1 * w2 - u2 * w1 > 0
  BY <1>10, <1>11, TurnsAddUp
<1> QED
  BY <1>8, <1>12, Zenon

\* Where far is in the circle of the three, new sees it between the others.
LEMMA InCircleAcross ==
  ASSUME NEW r, NEW l, NEW n, NEW f, IsPlace(r), IsPlace(l), IsPlace(n), IsPlace(f),
         Counterclockwise(r, l, n) > 0, Counterclockwise(l, r, f) > 0, InCircle(l, n, r, f) > 0
  PROVE  Counterclockwise(n, r, f) > 0 /\ Counterclockwise(l, n, f) > 0
<1>1. PICK l1 \in Int, l2 \in Int : l1 = l[1] - f[1] /\ l2 = l[2] - f[2]
  BY DEF IsPlace
<1>2. PICK n1 \in Int, n2 \in Int : n1 = n[1] - f[1] /\ n2 = n[2] - f[2]
  BY DEF IsPlace
<1>3. PICK r1 \in Int, r2 \in Int : r1 = r[1] - f[1] /\ r2 = r[2] - f[2]
  BY DEF IsPlace
<1>4. PICK A \in Int, B \in Int, C \in Int : A = n1 * r2 - n2 * r1 /\ B = l1 * n2 - l2 * n1 /\ C = l1 * r2 - l2 * r1
  BY SignOfProduct
<1>5. Counterclockwise(n, r, f) = A /\ Counterclockwise(l, n, f) = B /\ Counterclockwise(l, r, f) = C
  BY <1>1, <1>2, <1>3, <1>4, Zenon DEF Counterclockwise
<1>6. Counterclockwise(l, n, r) = A + B - C
  <2>1. l[1] - r[1] = l1 - r1 /\ l[2] - r[2] = l2 - r2 /\ n[1] - r[1] = n1 - r1 /\ n[2] - r[2] = n2 - r2
    BY <1>1, <1>2, <1>3 DEF IsPlace
  <2>2. Counterclockwise(l, n, r) = (l1 - r1) * (n2 - r2) - (l2 - r2) * (n1 - r1)
    BY <2>1, Zenon DEF Counterclockwise
  <2>3. (l1 - r1) * (n2 - r2) - (l2 - r2) * (n1 - r1)
          = (n1 * r2 - n2 * r1) + (l1 * n2 - l2 * n1) - (l1 * r2 - l2 * r1)
    BY SMT
  <2> QED
    BY <2>2, <2>3, <1>4, Zenon
<1>7. Counterclockwise(l, n, r) > 0
  BY Turning
<1>8. InCircle(l, n, r, f) = (l1 * l1 + l2 * l2) * A - (n1 * n1 + n2 * n2) * C + (r1 * r1 + r2 * r2) * B
  <2>1. InCircle(l, n, r, f) = (l1 * l1 + l2 * l2) * (n1 * r2 - r1 * n2)
                                 + (n1 * n1 + n2 * n2) * (r1 * l2 - l1 * r2)
                                 + (r1 * r1 + r2 * r2) * (l1 * n2 - n1 * l2)
    BY <1>1, <1>2, <1>3, Zenon DEF InCircle
  <2>2. n1 * r2 - r1 * n2 = A /\ r1 * l2 - l1 * r2 = -C /\ l1 * n2 - n1 * l2 = B
    BY <1>4, SMT
  <2>3. PICK q1 \in Int, q2 \in Int, q3 \in Int : /\ q1 = l1 * l1 + l2 * l2 /\ q2 = n1 * n1 + n2 * n2
                                                  /\ q3 = r1 * r1 + r2 * r2
    BY SignOfProduct
  <2>4. InCircle(l, n, r, f) = q1 * A + q2 * (-C) + q3 * B
    BY <2>1, <2>2, <2>3, Zenon
  <2>5. q1 * A + q2 * (-C) + q3 * B = q1 * A - q2 * C + q3 * B
    BY SMT
  <2> QED
    BY <2>3, <2>4, <2>5, Zenon
<1>9. PICK S \in Int : S = A + B - C
  OBVIOUS
<1>10. C > 0 /\ S > 0
  BY <1>5, <1>6, <1>7, <1>9
<1>11. (l1 * l1 + l2 * l2) * A - (n1 * n1 + n2 * n2) * C + (r1 * r1 + r2 * r2) * B > 0
  BY <1>8, Zenon
<1>12. A > 0 /\ B > 0
  <2>1. CircleFits(l1, l2, n1, n2, r1, r2, A, B, C, S)
    BY <1>4, <1>9, <1>10, <1>11, Zenon DEF CircleFits
  <2> QED
    BY <2>1, InCircleTurns
<1> QED
  BY <1>5, <1>12, Zenon

\* An edge is only turned where the two triangles make a convex quadrilateral.
LEMMA MustFlipTurns ==
  ASSUME Given, NEW m, m = mesh, Sound(m), NEW h \in Alive(m), MustFlip(h)
  PROVE  /\ Sym(m, h)[1] # DummyTri
         /\ Counterclockwise(Apex(m, Sym(m, h)), Apex(m, h), Org(m, h)) > 0
         /\ Counterclockwise(Apex(m, h), Apex(m, Sym(m, h)), Dest(m, h)) > 0
<1>1. PICK top, R, L, N, F : /\ top = Sym(m, h) /\ R = Org(m, h) /\ L = Dest(m, h) /\ N = Apex(m, h)
                             /\ F = Apex(m, top)
  OBVIOUS
<1>2. /\ top[1] # DummyTri
      /\ IF IsInfinite(L) THEN Counterclockwise(N, R, F) > 0
         ELSE IF IsInfinite(R) THEN Counterclockwise(F, L, N) > 0
         ELSE ~IsInfinite(F) /\ InCircle(L, N, R, F) > 0
  BY <1>1 DEF MustFlip
<1>3. top \in Alive(m) /\ Org(m, top) = L /\ Dest(m, top) = R
  BY <1>1, <1>2, Quadrilateral
<1>4. /\ R \in Corners /\ L \in Corners /\ N \in Corners /\ F \in Corners
      /\ IsPlace(R) /\ IsPlace(L) /\ IsPlace(N) /\ IsPlace(F)
      /\ Counterclockwise(R, L, N) > 0 /\ Counterclockwise(L, R, F) > 0
      /\ R # L /\ L # N /\ R # N /\ L # F /\ R # F
  BY <1>1, <1>3, SoundHandle
<1>5. /\ Counterclockwise(N, R, L) > 0 /\ Counterclockwise(R, F, L) > 0
      /\ Counterclockwise(L, N, R) > 0 /\ Counterclockwise(F, L, R) > 0
  BY <1>4, Turning
<1>6. CASE IsInfinite(L)
  <2>1. L \in BoxCorners
    BY <1>4, <1>6, CornerKinds
  <2>2. Counterclockwise(N, F, L) > 0
    BY <2>1, <1>4, <1>5, Fan
  <2>3. Counterclockwise(F, N, R) > 0
    BY <1>2, <1>4, <1>6, Turning
  <2> QED
    BY <2>2, <2>3, <1>1, <1>2
<1>7. CASE ~IsInfinite(L) /\ IsInfinite(R)
  <2>1. R \in BoxCorners
    BY <1>4, <1>7, CornerKinds
  <2>2. Counterclockwise(F, N, R) > 0
    BY <2>1, <1>4, <1>5, Fan
  <2>3. Counterclockwise(N, F, L) > 0
    BY <1>2, <1>4, <1>7, Turning
  <2> QED
    BY <2>2, <2>3, <1>1, <1>2
<1>8. CASE ~IsInfinite(L) /\ ~IsInfinite(R)
  <2>1. Counterclockwise(N, R, F) > 0 /\ Counterclockwise(L, N, F) > 0
    BY <1>2, <1>4, <1>8, InCircleAcross
  <2>2. Counterclockwise(F, N, R) > 0 /\ Counterclockwise(N, F, L) > 0
    BY <2>1, <1>4, Turning
  <2> QED
    BY <2>2, <1>1, <1>2
<1> QED
  BY <1>6, <1>7, <1>8

----------------------------------------------------------------------------
\* p is not beyond the edge from u to w, nor on it.
AheadOf(u, w, p) ==
  /\ Counterclockwise(u, w, p) >= 0
  /\ Counterclockwise(u, w, p) = 0 =>
       /\ ~SamePlace(u, p) /\ ~SamePlace(w, p)
       /\ ~ \A k \in 1 .. 2 : Between(u[k], p[k], w[k])

\* What is known in the search for p when it has come to the handle o.
Tracked(m, how, o, p) ==
  /\ o \in Alive(m)
  /\ CASE how = "vertex" -> SamePlace(Org(m, o), p)
       [] how = "edge" -> OnEdge(Org(m, o), Dest(m, o), p)
       [] how = "triangle" -> /\ Counterclockwise(Org(m, o), Dest(m, o), p) > 0
                              /\ Counterclockwise(Dest(m, o), Apex(m, o), p) > 0
                              /\ Counterclockwise(Apex(m, o), Org(m, o), p) > 0
       [] how = "walk" -> AheadOf(Org(m, o), Dest(m, o), p)
       [] OTHER -> FALSE

\* A point that the edge has on its right can be reached across it.
LEMMA NeverOutside ==
  ASSUME Given, NEW m, Sound(m), NEW o \in Alive(m), NEW p \in Points,
         ~(Counterclockwise(Org(m, o), Dest(m, o), p) > 0)
  PROVE  /\ Sym(m, o) \in Alive(m) /\ Sym(m, o)[1] # DummyTri
         /\ Org(m, Sym(m, o)) = Dest(m, o) /\ Dest(m, Sym(m, o)) = Org(m, o)
<1>1. Faces(m, o)
  BY DEF Sound
<1>2. p \in Corners /\ p \notin BoxCorners
  BY CornerKinds
<1>3. ~IsBoxEdge(Org(m, o), Dest(m, o))
  <2> SUFFICES ASSUME IsBoxEdge(Org(m, o), Dest(m, o)) PROVE FALSE
    OBVIOUS
  <2>1. p # Org(m, o) /\ p # Dest(m, o)
    BY <1>2 DEF IsBoxEdge, BoxCorners
  <2> QED
    BY <1>2, <2>1, BoxEdgeLeft
<1> QED
  BY <1>1, <1>3 DEF Faces, Alive

\* What locate finds out first is true, and where it turns around there is a
\* triangle (triangle.c:7722-7745).
LEMMA BeginTracks ==
  ASSUME Given, NEW m, m = mesh, Sound(m), NEW o \in Alive(m), NEW p \in Points
  PROVE  Tracked(m, Begin(o, p).how, Begin(o, p).horiz, p)
<1>1. PICK u, w : u = Org(m, o) /\ w = Dest(m, o)
  OBVIOUS
<1>2. IsPlace(u) /\ IsPlace(w) /\ IsPlace(p) /\ u # w /\ IsMesh(m)
  BY <1>1, SoundHandle, CornerKinds DEF Sound
<1>3. CASE SamePlace(u, p)
  <2>1. Begin(o, p) = Located("vertex", o)
    BY <1>1, <1>3 DEF Begin
  <2> QED
    BY <1>1, <1>3, <2>1 DEF Tracked, Located
<1>4. CASE ~SamePlace(u, p) /\ SamePlace(w, p)
  <2>1. Begin(o, p) = Located("vertex", Lnext(o))
    BY <1>1, <1>4 DEF Begin
  <2>2. Lnext(o) \in Alive(m) /\ Org(m, Lnext(o)) = w
    BY <1>1, <1>2, AliveTurns
  <2> QED
    BY <1>4, <2>1, <2>2 DEF Tracked, Located
<1>5. CASE ~SamePlace(u, p) /\ ~SamePlace(w, p)
  <2>1. Begin(o, p) = IF Counterclockwise(u, w, p) = 0 /\ \A k \in 1 .. 2 : Between(u[k], p[k], w[k])
                      THEN Located("edge", o)
                      ELSE Located("walk", IF Counterclockwise(u, w, p) < 0 THEN Sym(m, o) ELSE o)
    BY <1>1, <1>5 DEF Begin
  <2>2. CASE Counterclockwise(u, w, p) = 0 /\ \A k \in 1 .. 2 : Between(u[k], p[k], w[k])
    <3>1. Begin(o, p) = Located("edge", o)
      BY <2>1, <2>2
    <3>2. \A k \in 1 .. 2 : (u[k] <= p[k] /\ p[k] <= w[k]) \/ (w[k] <= p[k] /\ p[k] <= u[k])
      <4>1. \A a \in Int, b \in Int, c \in Int : Between(a, b, c) => (a <= b /\ b <= c) \/ (c <= b /\ b <= a)
        BY DEF Between
      <4>2. \A k \in 1 .. 2 : u[k] \in Int /\ w[k] \in Int /\ p[k] \in Int
        <5>1. \A k \in 1 .. 2 : k = 1 \/ k = 2
          OBVIOUS
        <5> QED
          BY <5>1, <1>2 DEF IsPlace
      <4> QED
        BY <2>2, <4>1, <4>2
    <3>3. OnEdge(u, w, p)
      BY <2>2, <3>2, <1>5 DEF OnEdge, SamePlace
    <3> QED
      BY <1>1, <3>1, <3>3 DEF Tracked, Located
  <2>3. CASE /\ ~(Counterclockwise(u, w, p) = 0 /\ \A k \in 1 .. 2 : Between(u[k], p[k], w[k]))
             /\ Counterclockwise(u, w, p) < 0
    <3>1. Begin(o, p) = Located("walk", Sym(m, o))
      BY <2>1, <2>3
    <3>2. ~(Counterclockwise(u, w, p) > 0) /\ Counterclockwise(w, u, p) > 0
      BY <2>3, <1>2, Turning
    <3>3. Sym(m, o) \in Alive(m) /\ Org(m, Sym(m, o)) = w /\ Dest(m, Sym(m, o)) = u
      BY <3>2, <1>1, NeverOutside
    <3>4. AheadOf(w, u, p)
      BY <3>2, <1>2, Turning DEF AheadOf
    <3> QED
      BY <3>1, <3>3, <3>4 DEF Tracked, Located
  <2>4. CASE /\ ~(Counterclockwise(u, w, p) = 0 /\ \A k \in 1 .. 2 : Between(u[k], p[k], w[k]))
             /\ ~(Counterclockwise(u, w, p) < 0)
    <3>1. Begin(o, p) = Located("walk", o)
      BY <2>1, <2>4
    <3>2. Counterclockwise(u, w, p) >= 0
      BY <2>4, <1>2, Turning
    <3>3. AheadOf(u, w, p)
      BY <3>2, <2>4, <1>5 DEF AheadOf
    <3> QED
      BY <1>1, <3>1, <3>3 DEF Tracked, Located
  <2> QED
    BY <2>2, <2>3, <2>4
<1> QED
  BY <1>3, <1>4, <1>5

\* Where the three signs are these, p is on a side of the triangle.
LEMMA OnSide ==
  ASSUME NEW a, NEW b, NEW c, NEW p, IsPlace(a), IsPlace(b), IsPlace(c), IsPlace(p),
         Counterclockwise(a, b, c) > 0, Counterclockwise(a, b, p) = 0,
         Counterclockwise(b, c, p) >= 0, Counterclockwise(c, a, p) >= 0
  PROVE  /\ \A k \in 1 .. 2 : (a[k] <= p[k] /\ p[k] <= b[k]) \/ (b[k] <= p[k] /\ p[k] <= a[k])
         /\ Counterclockwise(b, c, p) > 0 /\ Counterclockwise(c, a, p) > 0 =>
              \A k \in 1 .. 2 : Between(a[k], p[k], b[k])
<1>1. PICK D \in Int, A \in Int, B \in Int, C \in Int :
        /\ D = Counterclockwise(a, b, c) /\ A = Counterclockwise(b, c, p) /\ B = Counterclockwise(c, a, p)
        /\ C = Counterclockwise(a, b, p)
  BY Turning
<1>2. D > 0 /\ C = 0 /\ A >= 0 /\ B >= 0
  BY <1>1
<1> SUFFICES ASSUME NEW k \in 1 .. 2
             PROVE  /\ (a[k] <= p[k] /\ p[k] <= b[k]) \/ (b[k] <= p[k] /\ p[k] <= a[k])
                    /\ A > 0 /\ B > 0 => Between(a[k], p[k], b[k])
  BY <1>1
<1>3. k = 1 \/ k = 2
  OBVIOUS
<1>4. PICK x \in Int, y \in Int, z \in Int, t \in Int : x = a[k] /\ y = b[k] /\ z = c[k] /\ t = p[k]
  BY <1>3 DEF IsPlace
<1>5. D = C + A + B /\ D * t = C * z + A * x + B * y
  <2>1. Counterclockwise(a, b, c) = Counterclockwise(a, b, p) + Counterclockwise(b, c, p) + Counterclockwise(c, a, p)
    BY Barycentric
  <2>2. Counterclockwise(a, b, c) * p[k] =
          Counterclockwise(a, b, p) * c[k] + Counterclockwise(b, c, p) * a[k] + Counterclockwise(c, a, p) * b[k]
    BY Barycentric
  <2> QED
    BY <1>1, <1>4, <2>1, <2>2, Zenon
<1>6. D = A + B /\ D * t = A * x + B * y
  <2>1. \A i \in Int : 0 * i = 0
    OBVIOUS
  <2>2. A * x \in Int /\ B * y \in Int
    BY SignOfProduct
  <2> QED
    BY <1>2, <1>5, <2>1, <2>2
<1>7. /\ (x <= t /\ t <= y) \/ (y <= t /\ t <= x)
      /\ x # y /\ A > 0 /\ B > 0 => t # x /\ t # y
  <2>1. IsMean(D, A, B, x, y, t)
    BY <1>2, <1>6 DEF IsMean
  <2> QED
    BY ONLY <1>2, <2>1, A \in Int, B \in Int, D \in Int, x \in Int, y \in Int, t \in Int, MeanBetween
<1>8. A > 0 /\ B > 0 => Between(x, t, y)
  BY <1>7 DEF Between
<1> QED
  BY <1>4, <1>7, <1>8

\* One pass of preciselocate finds out what is true, and never leaves the mesh
\* (triangle.c:7505-7580).
LEMMA LookTracks ==
  ASSUME Given, NEW m, m = mesh, Sound(m), NEW o \in Alive(m), NEW p \in Points,
         AheadOf(Org(m, o), Dest(m, o), p)
  PROVE  Tracked(m, LookBeyond(o, p).how, LookBeyond(o, p).horiz, p)
<1>1. PICK u, w, z : u = Org(m, o) /\ w = Dest(m, o) /\ z = Apex(m, o)
  OBVIOUS
<1>2. /\ IsPlace(u) /\ IsPlace(w) /\ IsPlace(z) /\ IsPlace(p) /\ IsMesh(m)
      /\ Counterclockwise(u, w, z) > 0
  BY <1>1, SoundHandle, CornerKinds DEF Sound
<1>3. PICK lo, po : lo = Lnext(o) /\ po = Lprev(o)
  OBVIOUS
<1>4. /\ lo \in Alive(m) /\ Org(m, lo) = w /\ Dest(m, lo) = z /\ Apex(m, lo) = u
      /\ po \in Alive(m) /\ Org(m, po) = z /\ Dest(m, po) = u /\ Apex(m, po) = w
  BY <1>1, <1>2, <1>3, AliveTurns
<1>5. PICK d \in Int, g \in Int : d = Counterclockwise(u, z, p) /\ g = Counterclockwise(z, w, p)
  BY <1>2, Turning
<1>6. Destorient(o, p) = d /\ Orgorient(o, p) = g
  BY <1>1, <1>5 DEF Destorient, Orgorient
<1>7. /\ Counterclockwise(z, u, p) = -d /\ Counterclockwise(w, z, p) = -g
      /\ Counterclockwise(u, w, p) \in Int
      /\ Counterclockwise(w, z, u) > 0 /\ Counterclockwise(z, u, w) > 0
  BY <1>2, <1>5, Turning
<1>8. CASE SamePlace(z, p)
  <2>1. LookBeyond(o, p) = Located("vertex", po)
    BY <1>1, <1>3, <1>8 DEF LookBeyond
  <2> QED
    BY <1>4, <1>8, <2>1 DEF Tracked, Located
<1>9. CASE ~SamePlace(z, p) /\ (d > 0 \/ g > 0)
  <2>1. PICK e : e = Exit(o, p)
    OBVIOUS
  <2>2. (e = po /\ d > 0) \/ (e = lo /\ g > 0)
    <3>1. \E t \in BOOLEAN : Exit(o, p) = IF d > 0 /\ (g > 0 => t) THEN po ELSE lo
      BY <1>3, <1>6, Zenon DEF Exit
    <3> QED
      BY <3>1, <1>9, <2>1
  <2>3. e \in Alive(m) /\ Counterclockwise(Dest(m, e), Org(m, e), p) > 0
    BY <2>2, <1>4, <1>5
  <2>4. ~(Counterclockwise(Org(m, e), Dest(m, e), p) > 0)
    BY <2>2, <1>4, <1>7
  <2>5. /\ Sym(m, e) \in Alive(m) /\ Sym(m, e)[1] # DummyTri
        /\ Org(m, Sym(m, e)) = Dest(m, e) /\ Dest(m, Sym(m, e)) = Org(m, e)
    BY <2>3, <2>4, NeverOutside
  <2>6. LookBeyond(o, p) = Located("walk", Sym(m, e))
    BY <1>1, <1>6, <1>9, <2>1, <2>5 DEF LookBeyond
  <2>7. AheadOf(Org(m, Sym(m, e)), Dest(m, Sym(m, e)), p)
    <3>1. PICK x : x = Counterclockwise(Dest(m, e), Org(m, e), p)
      OBVIOUS
    <3>2. x \in Int /\ x > 0
      BY <2>2, <2>3, <3>1, <1>4, <1>5
    <3>3. x >= 0 /\ x # 0
      BY <3>2
    <3> QED
      BY <3>1, <3>3, <2>5 DEF AheadOf
  <2> QED
    BY <2>5, <2>6, <2>7 DEF Tracked, Located
<1>10. CASE ~SamePlace(z, p) /\ ~(d > 0) /\ ~(g > 0) /\ d = 0
  <2>1. LookBeyond(o, p) = Located("edge", po)
    BY <1>1, <1>3, <1>6, <1>10 DEF LookBeyond
  <2>6. Counterclockwise(u, w, p) >= 0
    BY <1>1 DEF AheadOf
  <2>7. -g >= 0 /\ -d = 0
    <3>1. \A i \in Int : (~(i > 0) => -i >= 0) /\ (i = 0 => -i = 0)
      OBVIOUS
    <3>2. g \in Int /\ d \in Int /\ ~(g > 0) /\ d = 0
      BY <1>5, <1>10, Zenon
    <3> QED
      BY <3>1, <3>2, Zenon
  <2>2. Counterclockwise(z, u, p) = 0 /\ Counterclockwise(w, z, p) >= 0 /\ Counterclockwise(u, w, p) >= 0
    BY <2>6, <2>7, <1>7, Zenon
  <2>3. ~SamePlace(u, p)
    BY <1>1, <1>2, Turning DEF AheadOf
  <2>4. \A k \in 1 .. 2 : (z[k] <= p[k] /\ p[k] <= u[k]) \/ (u[k] <= p[k] /\ p[k] <= z[k])
    BY <2>2, <1>2, <1>7, OnSide
  <2>5. OnEdge(z, u, p)
    BY <2>2, <2>3, <2>4, <1>10 DEF OnEdge, SamePlace
  <2> QED
    BY <1>4, <2>1, <2>5 DEF Tracked, Located
<1>11. CASE ~SamePlace(z, p) /\ ~(d > 0) /\ ~(g > 0) /\ d # 0 /\ g = 0
  <2>1. LookBeyond(o, p) = Located("edge", lo)
    BY <1>1, <1>3, <1>6, <1>11 DEF LookBeyond
  <2>6. Counterclockwise(u, w, p) >= 0
    BY <1>1 DEF AheadOf
  <2>7. -d >= 0 /\ -g = 0
    <3>1. \A i \in Int : (~(i > 0) => -i >= 0) /\ (i = 0 => -i = 0)
      OBVIOUS
    <3>2. d \in Int /\ g \in Int /\ ~(d > 0) /\ g = 0
      BY <1>5, <1>11, Zenon
    <3> QED
      BY <3>1, <3>2, Zenon
  <2>2. Counterclockwise(w, z, p) = 0 /\ Counterclockwise(z, u, p) >= 0 /\ Counterclockwise(u, w, p) >= 0
    BY <2>6, <2>7, <1>7, Zenon
  <2>3. ~SamePlace(w, p)
    BY <1>1, <1>2, Turning DEF AheadOf
  <2>4. \A k \in 1 .. 2 : (w[k] <= p[k] /\ p[k] <= z[k]) \/ (z[k] <= p[k] /\ p[k] <= w[k])
    BY <2>2, <1>2, <1>7, OnSide
  <2>5. OnEdge(w, z, p)
    BY <2>2, <2>3, <2>4, <1>11 DEF OnEdge, SamePlace
  <2> QED
    BY <1>4, <2>1, <2>5 DEF Tracked, Located
<1>12. CASE ~SamePlace(z, p) /\ ~(d > 0) /\ ~(g > 0) /\ d # 0 /\ g # 0
  <2>1. LookBeyond(o, p) = Located("triangle", o)
    BY <1>1, <1>3, <1>6, <1>12 DEF LookBeyond
  <2>2. Counterclockwise(z, u, p) > 0 /\ Counterclockwise(w, z, p) > 0
    BY <1>7, <1>12
  <2>3. Counterclockwise(u, w, p) # 0
    <3> SUFFICES ASSUME Counterclockwise(u, w, p) = 0 PROVE FALSE
      OBVIOUS
    <3>1. \A k \in 1 .. 2 : Between(u[k], p[k], w[k])
      BY <2>2, <1>2, <1>7, OnSide
    <3> QED
      BY <3>1, <1>1 DEF AheadOf
  <2>4. Counterclockwise(u, w, p) > 0
    BY <2>3, <1>1, <1>7 DEF AheadOf
  <2> QED
    BY <1>1, <2>1, <2>2, <2>4 DEF Tracked, Located
<1> QED
  BY <1>8, <1>9, <1>10, <1>11, <1>12

----------------------------------------------------------------------------
\* No point is in the place of a corner of the box.
LEMMA BoxApart ==
  ASSUME Given, NEW b \in BoxCorners, NEW p \in Points
  PROVE  ~SamePlace(b, p)
<1>1. IsPlace(b) /\ IsPlace(p)
  BY CornerKinds
<1>2. \E u : Counterclockwise(b, u, p) > 0 /\ IsPlace(u)
  BY BoxAround DEF BoxCorners
<1> QED
  BY <1>1, <1>2, Turning

\* Before the first vertex is inserted.
OnlyOne(m) == \A o \in Alive(m), q \in Alive(m) : o[1] = q[1]
OnlyBox(m) == \A o \in Alive(m) : m.vert[o] \in BoxCorners

\* The mesh of the box alone.
BoxMesh == [MakeTriangle(EmptyMesh, Box[1], Box[2], Box[3]) EXCEPT !.adj[Outer] = <<NextTri(EmptyMesh), 0>>]

\* The mesh with one triangle.
LEMMA MadeOne ==
  ASSUME NEW x, NEW y, NEW z, NEW m, m = MakeTriangle(EmptyMesh, x, y, z)
  PROVE  /\ IsRecord(m) /\ m.seg = {} /\ m.made = 1
         /\ IsOn(m.adj, {0, 1} \X (0 .. 2)) /\ IsOn(m.vert, {0, 1} \X (0 .. 2))
         /\ \A o \in {0, 1} \X (0 .. 2) : m.adj[o] = Outer
         /\ m.vert[<<1, 0>>] = z /\ m.vert[<<1, 1>>] = x /\ m.vert[<<1, 2>>] = y
<1> DEFINE cs == << <<x, y, z>> >>
           new == {1} \X (0 .. 2)
           all == {0, 1} \X (0 .. 2)
           corner(o) == cs[o[1] - 0][((o[2] + 2) % 3) + 1]
           A == [o \in all |-> Outer]
           Vt == [o \in all |-> IF o \in new THEN corner(o) ELSE EmptyMesh.vert[o]]
<1>1. /\ EmptyMesh.made = 0 /\ EmptyMesh.seg = {} /\ Handles(EmptyMesh) = {0} \X (0 .. 2)
      /\ \A o \in {0} \X (0 .. 2) : EmptyMesh.adj[o] = Outer
  BY DEF EmptyMesh, Handles, DummyTri
<1>2. (0 + 1 .. 0 + Len(cs)) \X (0 .. 2) = new /\ Len(cs) = 1
  OBVIOUS
<1>3. Handles(EmptyMesh) \cup new = all
  BY <1>1
<1>4. m = [adj |-> [o \in all |-> IF o \in new THEN Outer ELSE EmptyMesh.adj[o]], vert |-> Vt, seg |-> {}, made |-> 1]
  <2> HIDE DEF all, new
  <2>1. m = MakeTriangles(EmptyMesh, cs)
    BY DEF MakeTriangle
  <2>2. 0 + Len(cs) = 1
    BY <1>2
  <2> HIDE DEF cs
  <2> QED
    BY <1>1, <1>2, <1>3, <2>1, <2>2, Zenon DEF MakeTriangles
<1>5. [o \in all |-> IF o \in new THEN Outer ELSE EmptyMesh.adj[o]] = A
  BY <1>1
<1>6. m = [adj |-> A, vert |-> Vt, seg |-> {}, made |-> 1]
  BY <1>4, <1>5, Zenon
<1>7. A = [o \in all |-> A[o]] /\ Vt = [o \in all |-> Vt[o]]
  OBVIOUS
<1>8. \A d \in 0 .. 2 : Vt[<<1, d>>] = cs[1][((d + 2) % 3) + 1]
  OBVIOUS
<1>9. ((0 + 2) % 3) + 1 = 3 /\ ((1 + 2) % 3) + 1 = 1 /\ ((2 + 2) % 3) + 1 = 2
  OBVIOUS
<1>10. Vt[<<1, 0>>] = z /\ Vt[<<1, 1>>] = x /\ Vt[<<1, 2>>] = y
  <2>1. cs[1][3] = z /\ cs[1][1] = x /\ cs[1][2] = y
    OBVIOUS
  <2>2. Vt[<<1, 0>>] = cs[1][3] /\ Vt[<<1, 1>>] = cs[1][1] /\ Vt[<<1, 2>>] = cs[1][2]
    <3> HIDE DEF Vt, cs
    <3> QED
      BY <1>8, <1>9
  <2> QED
    BY <2>1, <2>2, Zenon
<1>11. \A o \in all : A[o] = Outer
  OBVIOUS
<1>12. m.adj = A /\ m.vert = Vt /\ m.seg = {} /\ m.made = 1 /\ IsRecord(m)
  <2> HIDE DEF A, Vt
  <2> QED
    BY <1>6 DEF IsRecord
<1> HIDE DEF A, Vt
<1> QED
  BY <1>7, <1>10, <1>11, <1>12 DEF IsOn

\* boundingbox's mesh is sound.
LEMMA BoxIsSound ==
  ASSUME Given, NEW m, m = BoxMesh
  PROVE  Sound(m) /\ OnlyOne(m) /\ OnlyBox(m)
<1>1. PICK x, y, z : x = Box[1] /\ y = Box[2] /\ z = Box[3]
  OBVIOUS
<1>2. PICK m1 : m1 = MakeTriangle(EmptyMesh, x, y, z)
  OBVIOUS
<1>3. /\ IsRecord(m1) /\ m1.seg = {} /\ m1.made = 1
      /\ IsOn(m1.adj, {0, 1} \X (0 .. 2)) /\ IsOn(m1.vert, {0, 1} \X (0 .. 2))
      /\ \A o \in {0, 1} \X (0 .. 2) : m1.adj[o] = Outer
      /\ m1.vert[<<1, 0>>] = z /\ m1.vert[<<1, 1>>] = x /\ m1.vert[<<1, 2>>] = y
  BY <1>2, MadeOne
<1>4. m = [m1 EXCEPT !.adj[Outer] = <<1, 0>>]
  <2>1. NextTri(EmptyMesh) = 1
    BY DEF NextTri, EmptyMesh
  <2> QED
    BY <2>1, <1>1, <1>2, Zenon DEF BoxMesh
<1>5. m = [adj |-> [m1.adj EXCEPT ![Outer] = <<1, 0>>], vert |-> m1.vert, seg |-> {}, made |-> 1]
  BY <1>3, <1>4, PutFields DEF IsRecord
<1>6. /\ m = [adj |-> m.adj, vert |-> m.vert, seg |-> m.seg, made |-> m.made]
      /\ m.adj = [m1.adj EXCEPT ![Outer] = <<1, 0>>] /\ m.vert = m1.vert /\ m.seg = {} /\ m.made = 1
  BY <1>5
<1> DEFINE H == {0, 1} \X (0 .. 2)
<1>7. /\ DOMAIN m.adj = H /\ m.adj = [o \in H |-> m.adj[o]] /\ m.vert = [o \in H |-> m.vert[o]]
      /\ \A o \in H : m.adj[o] = IF o = Outer THEN <<1, 0>> ELSE Outer
  BY <1>3, <1>6 DEF IsOn
<1>8. IsMesh(m)
  <2>1. {0, 1} \in SUBSET (0 .. m.made) /\ DummyTri \in {0, 1} /\ m.made \in Nat
    BY <1>6 DEF DummyTri
  <2> QED
    BY <1>6, <1>7, <2>1 DEF IsMesh, Handles
<1>9. Alive(m) = {<<1, 0>>, <<1, 1>>, <<1, 2>>}
  <2>1. Alive(m) = {o \in H : o[1] # 0}
    BY <1>7 DEF Alive, Handles, DummyTri
  <2>2. \A o \in H : \E t \in {0, 1}, k \in 0 .. 2 : o = <<t, k>>
    OBVIOUS
  <2>3. \A k \in 0 .. 2 : k = 0 \/ k = 1 \/ k = 2
    OBVIOUS
  <2> QED
    BY <2>1, <2>2, <2>3
<1>10. /\ Lnext(<<1, 0>>) = <<1, 1>> /\ Lprev(<<1, 0>>) = <<1, 2>>
       /\ Lnext(<<1, 1>>) = <<1, 2>> /\ Lprev(<<1, 1>>) = <<1, 0>>
       /\ Lnext(<<1, 2>>) = <<1, 0>> /\ Lprev(<<1, 2>>) = <<1, 1>>
  BY DEF Lnext, Lprev, Turn
<1>11. m.vert[<<1, 0>>] = z /\ m.vert[<<1, 1>>] = x /\ m.vert[<<1, 2>>] = y
  BY <1>3, <1>6
<1>12. /\ Org(m, <<1, 0>>) = x /\ Dest(m, <<1, 0>>) = y /\ Apex(m, <<1, 0>>) = z
       /\ Org(m, <<1, 1>>) = y /\ Dest(m, <<1, 1>>) = z /\ Apex(m, <<1, 1>>) = x
       /\ Org(m, <<1, 2>>) = z /\ Dest(m, <<1, 2>>) = x /\ Apex(m, <<1, 2>>) = y
  BY <1>10, <1>11 DEF Org, Dest, Apex
<1>13. Counterclockwise(x, y, z) > 0 /\ Counterclockwise(y, z, x) > 0 /\ Counterclockwise(z, x, y) > 0
  BY <1>1, BoxAround, Turning
<1>14. \A o \in Alive(m) : /\ TurnsLeft(m, o) /\ IsBoxEdge(Org(m, o), Dest(m, o)) /\ m.vert[o] \in {x, y, z}
  BY <1>1, <1>9, <1>11, <1>12, <1>13 DEF TurnsLeft, IsBoxEdge
<1>15. \A o \in Alive(m) : Sym(m, o) = Outer
  <2>1. \A o \in Alive(m) : o \in H /\ o # Outer
    BY <1>9 DEF Outer, DummyTri
  <2> QED
    BY <2>1, <1>7 DEF Sym
<1>16. HasBoundary(m)
  <2>0. Outer \in H
    BY DEF Outer, DummyTri
  <2>1. Sym(m, Outer) = <<1, 0>>
    BY <1>7, <2>0 DEF Sym
  <2> QED
    BY <2>1, <1>9, <1>15 DEF HasBoundary
<1>17. {x, y, z} = BoxCorners
  BY <1>1 DEF BoxCorners
<1>18. BoxCorners \subseteq Corners
  BY CornerKinds
<1> QED
  BY <1>8, <1>9, <1>14, <1>15, <1>16, <1>17, <1>18 DEF Sound, Faces, OnlyOne, OnlyBox

----------------------------------------------------------------------------
\* Every triangle has a corner that is not one of the box.
PointsAround(m) == \A o \in Alive(m) : \E v \in Points : Meets(m, o, v)

\* Beyond an edge that has not lost its neighbour there is what there was.
Remains(m, o, loose) ==
  \/ /\ Sym(m, o) = Outer
     /\ \/ IsBoxEdge(Org(m, o), Dest(m, o))
        \/ Org(m, o) \in Points /\ Dest(m, o) \in Points
  \/ /\ Sym(m, o) \in Alive(m) \ loose /\ Sym(m, Sym(m, o)) = o
     /\ Org(m, Sym(m, o)) = Dest(m, o) /\ Dest(m, Sym(m, o)) = Org(m, o)

\* The way around the box: e, the next edge, comes from a point to a corner of
\* the box, and only it and the edge before the last have lost their neighbours.
Unboxing(m, e, last) ==
  /\ IsMesh(m) /\ e \in Alive(m) /\ last \in Alive(m)
  /\ Org(m, e) \in Points /\ Dest(m, e) \in BoxCorners
  /\ Dest(m, last) \in BoxCorners /\ Apex(m, last) \in BoxCorners
  /\ \A o \in Alive(m) : TurnsLeft(m, o) /\ m.vert[o] \in Corners
  /\ \A o \in Alive(m) \ {e, Lprev(last)} : Remains(m, o, {e, Lprev(last)})

\* What the program at p, with the mesh m, the vertex of number n to be inserted,
\* the recent triangle r and the search, edges or way around the box at a, knows.
Good(p, m, n, r, a) ==
  /\ p \in {"delaunay", "insert", "located", "flip", "unbox", "skeleton", "write"}
  /\ n \in Nat /\ n >= 1
  /\ p = "delaunay" => m = EmptyMesh /\ n = 1 /\ r = Outer
  /\ p \in {"insert", "located", "flip"} =>
       /\ Sound(m) /\ r \in Alive(m) \cup {Outer} /\ n <= Len(input.points) + 1
       /\ IF n = 1 /\ p # "flip" THEN OnlyOne(m) /\ OnlyBox(m) ELSE PointsAround(m)
  /\ p = "located" => n <= Len(input.points) /\ Tracked(m, a.how, a.horiz, Vertex(n))
  /\ p = "flip" => /\ n <= Len(input.points) /\ a.horiz \in Alive(m) /\ Apex(m, a.horiz) = Vertex(n)
                   /\ a = [first |-> a.first, horiz |-> a.horiz]
  /\ p = "unbox" => /\ Unboxing(m, a.nextedge, a.finaledge)
                    /\ a = [nextedge |-> a.nextedge, finaledge |-> a.finaledge]

InsertionInv == Given /\ Good(pc, mesh, nextvertex, recenttri, at)

\* Every triangle has a corner among the points after a split or a turn too.
LEMMA StillAround ==
  ASSUME Given, NEW m, NEW m2, NEW v \in Points,
         \A o \in Alive(m2) : Meets(m2, o, v) \/ (SameTriangle(m, m2, o) /\ PointsAround(m))
  PROVE  PointsAround(m2)
<1> SUFFICES ASSUME NEW o \in Alive(m2) PROVE \E p \in Points : Meets(m2, o, p)
  BY DEF PointsAround
<1>1. CASE Meets(m2, o, v)
  BY <1>1
<1>2. CASE SameTriangle(m, m2, o) /\ PointsAround(m)
  <2>1. PICK p \in Points : Meets(m, o, p)
    BY <1>2 DEF PointsAround, SameTriangle
  <2>2. Meets(m2, o, p)
    BY <1>2, <2>1 DEF Meets, SameTriangle
  <2> QED
    BY <2>2
<1> QED
  BY <1>1, <1>2

\* locate starts from a handle of a triangle, whatever it has drawn.
LEMMA StartsAlive ==
  ASSUME Given, Sound(mesh), recenttri \in Alive(mesh) \cup {Outer}, NEW p
  PROVE  Starts(p) \subseteq Alive(mesh)
<1>1. PICK m : m = mesh
  OBVIOUS
<1>2. Sym(m, Outer) \in Alive(m) /\ IsMesh(m)
  BY <1>1 DEF Sound, HasBoundary
<1>3. PICK T : Handles(m) = T \X (0 .. 2)
  BY <1>2 DEF IsMesh, Handles
<1>4. \A t \in Triangles(m) : <<t, 0>> \in Alive(m)
  <2>1. \A o \in Handles(m) : <<o[1], 0>> \in Handles(m)
    BY <1>3
  <2>2. \A t \in Triangles(m) : t # DummyTri /\ \E o \in Handles(m) : t = o[1]
    BY DEF Triangles
  <2>3. \A t : <<t, 0>>[1] = t
    OBVIOUS
  <2> QED
    BY <2>1, <2>2, <2>3, Zenon DEF Alive
<1>5. recenttri[1] \in Triangles(m) => recenttri \in Alive(m)
  BY <1>1 DEF Triangles, Outer
<1>6. \A o \in Triangles(m) \X {0} : o \in Alive(m)
  <2>1. \A o \in Triangles(m) \X {0} : \E t \in Triangles(m) : o = <<t, 0>>
    OBVIOUS
  <2> QED
    BY <2>1, <1>4, Zenon
<1>7. ASSUME NEW o \in Starts(p) PROVE o \in Alive(m)
  <2>1. (o = recenttri /\ recenttri[1] \in Triangles(m)) \/ o = Sym(m, Outer) \/ o \in Triangles(m) \X {0}
    BY <1>1, Zenon DEF Starts
  <2> QED
    BY <2>1, <1>2, <1>5, <1>6
<1> QED
  BY <1>1, <1>7

\* The vertex to be inserted is one of the points.
LEMMA GivenVertex ==
  ASSUME Given, NEW n \in Nat, n >= 1, n <= Len(input.points)
  PROVE  Vertex(n) \in Points
BY PointPlaces

\* boundingbox: the mesh is the triangle around all.
LEMMA BoundingBoxKeeps ==
  ASSUME InsertionInv, BoundingBox
  PROVE  Good(pc', mesh', nextvertex', recenttri', at')
<1>1. PICK m2 : m2 = mesh'
  OBVIOUS
<1>2. Given /\ mesh = EmptyMesh /\ nextvertex = 1 /\ recenttri = Outer
  BY DEF InsertionInv, Good, BoundingBox
<1>3. m2 = BoxMesh
  BY <1>1, <1>2, Zenon DEF BoundingBox, BoxMesh
<1>4. Sound(m2) /\ OnlyOne(m2) /\ OnlyBox(m2)
  BY <1>2, <1>3, BoxIsSound
<1>5. pc' = "insert" /\ nextvertex' = 1 /\ recenttri' = Outer
  BY <1>2 DEF BoundingBox, incrementalVars
<1>6. 1 <= Len(input.points) + 1
  BY <1>2, PointPlaces
<1> QED
  BY <1>1, <1>4, <1>5, <1>6 DEF Good

\* The search begins.
LEMMA LocateKeeps ==
  ASSUME InsertionInv, Locate
  PROVE  Good(pc', mesh', nextvertex', recenttri', at')
<1>1. PICK m : m = mesh
  OBVIOUS
<1>2. /\ Given /\ Sound(m) /\ recenttri \in Alive(m) \cup {Outer} /\ nextvertex \in Nat /\ nextvertex >= 1
      /\ nextvertex <= Len(input.points)
      /\ IF nextvertex = 1 THEN OnlyOne(m) /\ OnlyBox(m) ELSE PointsAround(m)
  BY <1>1 DEF InsertionInv, Good, Locate
<1>3. newvertex \in Points
  BY <1>2, GivenVertex DEF newvertex
<1>4. PICK o \in Starts(newvertex) : at' = Begin(o, newvertex)
  BY DEF Locate
<1>5. o \in Alive(m)
  BY <1>1, <1>2, StartsAlive
<1>6. Tracked(m, at'.how, at'.horiz, newvertex)
  BY <1>1, <1>2, <1>3, <1>4, <1>5, BeginTracks
<1>7. pc' = "located" /\ mesh' = m /\ nextvertex' = nextvertex /\ recenttri' = recenttri
  BY <1>1 DEF Locate
<1>8. nextvertex <= Len(input.points) + 1
  BY <1>2, PointPlaces
<1> QED
  BY <1>2, <1>6, <1>7, <1>8 DEF Good, newvertex

\* The search goes on.
LEMMA WalkOnKeeps ==
  ASSUME InsertionInv, WalkOn
  PROVE  Good(pc', mesh', nextvertex', recenttri', at')
<1>1. PICK m, o : m = mesh /\ o = at.horiz
  OBVIOUS
<1>2. /\ Given /\ Sound(m) /\ recenttri \in Alive(m) \cup {Outer} /\ nextvertex \in Nat /\ nextvertex >= 1
      /\ nextvertex <= Len(input.points) + 1 /\ nextvertex <= Len(input.points)
      /\ IF nextvertex = 1 THEN OnlyOne(m) /\ OnlyBox(m) ELSE PointsAround(m)
      /\ Tracked(m, at.how, o, newvertex) /\ at.how = "walk"
  BY <1>1 DEF InsertionInv, Good, WalkOn, newvertex
<1>3. newvertex \in Points
  BY <1>2, GivenVertex DEF newvertex
<1>4. at' = LookBeyond(o, newvertex)
  BY <1>1 DEF WalkOn
<1>5. o \in Alive(m) /\ AheadOf(Org(m, o), Dest(m, o), newvertex)
  BY <1>2 DEF Tracked
<1>6. Tracked(m, at'.how, at'.horiz, newvertex)
  BY <1>1, <1>2, <1>3, <1>4, <1>5, LookTracks
<1>7. pc' = "located" /\ mesh' = m /\ nextvertex' = nextvertex /\ recenttri' = recenttri
  BY <1>1 DEF WalkOn
<1> QED
  BY <1>2, <1>6, <1>7 DEF Good, newvertex

\* A vertex in the place of another is left out; the first is in no such place.
LEMMA DuplicateKeeps ==
  ASSUME InsertionInv, Duplicate
  PROVE  Good(pc', mesh', nextvertex', recenttri', at')
<1>1. PICK m, o : m = mesh /\ o = at.horiz
  OBVIOUS
<1>2. /\ Given /\ Sound(m) /\ nextvertex \in Nat /\ nextvertex >= 1
      /\ nextvertex <= Len(input.points)
      /\ IF nextvertex = 1 THEN OnlyOne(m) /\ OnlyBox(m) ELSE PointsAround(m)
      /\ Tracked(m, at.how, o, newvertex) /\ at.how = "vertex"
  BY <1>1 DEF InsertionInv, Good, Duplicate, newvertex
<1>3. newvertex \in Points
  BY <1>2, GivenVertex DEF newvertex
<1>4. o \in Alive(m) /\ SamePlace(Org(m, o), newvertex)
  BY <1>2 DEF Tracked
<1>5. nextvertex # 1
  <2> SUFFICES ASSUME OnlyBox(m) PROVE FALSE
    BY <1>2
  <2>1. Org(m, o) \in BoxCorners
    BY <1>2, <1>4, AliveTurns DEF OnlyBox, Org, Sound
  <2> QED
    BY <2>1, <1>2, <1>3, <1>4, BoxApart
<1>6. pc' = "insert" /\ mesh' = m /\ nextvertex' = nextvertex + 1 /\ recenttri' = o
  BY <1>1 DEF Duplicate
<1>7. nextvertex + 1 \in Nat /\ nextvertex + 1 >= 1 /\ nextvertex + 1 # 1 /\ nextvertex + 1 <= Len(input.points) + 1
  BY <1>2, <1>5, PointPlaces
<1> QED
  BY <1>2, <1>4, <1>5, <1>6, <1>7 DEF Good

----------------------------------------------------------------------------
\* A vertex inside of a triangle is inserted.
LEMMA SplitTriangleKeeps ==
  ASSUME InsertionInv, SplitTriangle
  PROVE  Good(pc', mesh', nextvertex', recenttri', at')
<1>1. PICK m, h, m2 : m = mesh /\ h = at.horiz /\ m2 = SplitIn(h, newvertex)
  OBVIOUS
<1>2. /\ Given /\ Sound(m) /\ recenttri \in Alive(m) \cup {Outer} /\ nextvertex \in Nat /\ nextvertex >= 1
      /\ nextvertex <= Len(input.points) + 1 /\ nextvertex <= Len(input.points)
      /\ IF nextvertex = 1 THEN OnlyOne(m) /\ OnlyBox(m) ELSE PointsAround(m)
      /\ Tracked(m, at.how, h, newvertex) /\ at.how = "triangle"
  BY <1>1 DEF InsertionInv, Good, SplitTriangle, newvertex
<1>3. newvertex \in Points /\ newvertex \in Corners
  BY <1>2, GivenVertex, CornerKinds DEF newvertex
<1>4. /\ h \in Alive(m) /\ Counterclockwise(Org(m, h), Dest(m, h), newvertex) > 0
      /\ Counterclockwise(Dest(m, h), Apex(m, h), newvertex) > 0
      /\ Counterclockwise(Apex(m, h), Org(m, h), newvertex) > 0
  BY <1>2 DEF Tracked
<1>5. /\ Sound(m2) /\ Apex(m2, h) = newvertex /\ h \in Alive(m2) /\ Alive(m) \subseteq Alive(m2)
      /\ \A o \in Alive(m2) : Meets(m2, o, newvertex) \/ (SameTriangle(m, m2, o) /\ o[1] # h[1])
  BY <1>1, <1>2, <1>3, <1>4, SplitInKeepsSound
<1>6. PointsAround(m2)
  <2>1. ASSUME NEW o \in Alive(m2), SameTriangle(m, m2, o), o[1] # h[1] PROVE PointsAround(m)
    <3>1. ~OnlyOne(m)
      BY <2>1, <1>4 DEF OnlyOne, SameTriangle
    <3> QED
      BY <3>1, <1>2
  <2> QED
    BY <2>1, <1>2, <1>3, <1>5, StillAround
<1>7. pc' = "flip" /\ mesh' = m2 /\ nextvertex' = nextvertex /\ recenttri' = recenttri /\ at' = Circle(m2, h)
  BY <1>1 DEF SplitTriangle
<1>8. recenttri \in Alive(m2) \cup {Outer}
  BY <1>2, <1>5
<1>9. at'.horiz = h /\ at' = [first |-> at'.first, horiz |-> at'.horiz]
  BY <1>7 DEF Circle
<1> QED
  BY <1>2, <1>5, <1>6, <1>7, <1>8, <1>9 DEF Good, newvertex

\* A vertex on an edge is inserted: there is a triangle on its other side.
LEMMA SplitEdgeKeeps ==
  ASSUME InsertionInv, SplitEdge
  PROVE  Good(pc', mesh', nextvertex', recenttri', at')
<1>1. PICK m, h, m2 : m = mesh /\ h = at.horiz /\ m2 = SplitAt(h, newvertex)
  OBVIOUS
<1>2. /\ Given /\ Sound(m) /\ recenttri \in Alive(m) \cup {Outer} /\ nextvertex \in Nat /\ nextvertex >= 1
      /\ nextvertex <= Len(input.points) + 1 /\ nextvertex <= Len(input.points)
      /\ IF nextvertex = 1 THEN OnlyOne(m) /\ OnlyBox(m) ELSE PointsAround(m)
      /\ Tracked(m, at.how, h, newvertex) /\ at.how = "edge"
  BY <1>1 DEF InsertionInv, Good, SplitEdge, newvertex
<1>3. newvertex \in Points /\ newvertex \in Corners
  BY <1>2, GivenVertex, CornerKinds DEF newvertex
<1>4. h \in Alive(m) /\ OnEdge(Org(m, h), Dest(m, h), newvertex)
  BY <1>2 DEF Tracked
<1>5. Sym(m, h) \in Alive(m) /\ Sym(m, h)[1] # DummyTri
  <2>1. ~(Counterclockwise(Org(m, h), Dest(m, h), newvertex) > 0)
    BY <1>4 DEF OnEdge
  <2> QED
    BY <2>1, <1>2, <1>3, <1>4, NeverOutside
<1>6. /\ Sound(m2) /\ Apex(m2, Lnext(h)) = newvertex /\ Lnext(h) \in Alive(m2) /\ Alive(m) \subseteq Alive(m2)
      /\ \A o \in Alive(m2) : Meets(m2, o, newvertex) \/ SameTriangle(m, m2, o)
  BY <1>1, <1>2, <1>3, <1>4, <1>5, SplitAtKeepsSound
<1>7. PointsAround(m)
  <2>1. Sym(m, h)[1] # h[1]
    BY <1>2, <1>4, OtherTriangle
  <2>2. ~OnlyOne(m)
    BY <2>1, <1>4, <1>5 DEF OnlyOne
  <2> QED
    BY <2>2, <1>2
<1>8. PointsAround(m2)
  BY <1>2, <1>3, <1>6, <1>7, StillAround
<1>9. pc' = "flip" /\ mesh' = m2 /\ nextvertex' = nextvertex /\ recenttri' = recenttri /\ at' = Circle(m2, Lnext(h))
  BY <1>1 DEF SplitEdge
<1>10. recenttri \in Alive(m2) \cup {Outer}
  BY <1>2, <1>6
<1>11. at'.horiz = Lnext(h) /\ at' = [first |-> at'.first, horiz |-> at'.horiz]
  BY <1>9 DEF Circle
<1> QED
  BY <1>2, <1>6, <1>8, <1>9, <1>10, <1>11 DEF Good, newvertex

\* What is known at the edges around a new vertex.
LEMMA AtTheEdges ==
  ASSUME InsertionInv, pc = "flip"
  PROVE  /\ Given /\ Sound(mesh) /\ recenttri \in Alive(mesh) \cup {Outer} /\ nextvertex \in Nat /\ nextvertex >= 1
         /\ nextvertex <= Len(input.points) + 1 /\ nextvertex <= Len(input.points) /\ PointsAround(mesh)
         /\ at.horiz \in Alive(mesh) /\ Apex(mesh, at.horiz) = newvertex /\ newvertex \in Points
         /\ at = [first |-> at.first, horiz |-> at.horiz]
<1>1. /\ Given /\ Sound(mesh) /\ recenttri \in Alive(mesh) \cup {Outer} /\ nextvertex \in Nat /\ nextvertex >= 1
      /\ nextvertex <= Len(input.points) + 1 /\ nextvertex <= Len(input.points) /\ PointsAround(mesh)
      /\ at.horiz \in Alive(mesh) /\ Apex(mesh, at.horiz) = newvertex
      /\ at = [first |-> at.first, horiz |-> at.horiz]
  BY DEF InsertionInv, Good, newvertex
<1> QED
  BY <1>1, GivenVertex DEF newvertex

\* An edge across from the new vertex is turned.
LEMMA FlipEdgeKeeps ==
  ASSUME InsertionInv, FlipEdge
  PROVE  Good(pc', mesh', nextvertex', recenttri', at')
<1>0. pc = "flip"
  BY DEF InsertionInv, Good, FlipEdge
<1>1. PICK m, h, m2 : m = mesh /\ h = at.horiz /\ m2 = Flip(m, h)
  OBVIOUS
<1>2. /\ Given /\ Sound(m) /\ recenttri \in Alive(m) \cup {Outer} /\ nextvertex \in Nat /\ nextvertex >= 1
      /\ nextvertex <= Len(input.points) + 1 /\ nextvertex <= Len(input.points) /\ PointsAround(m)
      /\ h \in Alive(m) /\ Apex(m, h) = newvertex /\ newvertex \in Points
  BY <1>1, <1>0, AtTheEdges
<1>3. /\ Sym(m, h)[1] # DummyTri
      /\ Counterclockwise(Apex(m, Sym(m, h)), Apex(m, h), Org(m, h)) > 0
      /\ Counterclockwise(Apex(m, h), Apex(m, Sym(m, h)), Dest(m, h)) > 0
  BY <1>1, <1>2, MustFlipTurns DEF FlipEdge
<1>4. /\ Sound(m2) /\ Alive(m2) = Alive(m) /\ Apex(m2, Lprev(h)) = newvertex
      /\ \A o \in Alive(m2) : Meets(m2, o, newvertex) \/ SameTriangle(m, m2, o)
  BY <1>1, <1>2, <1>3, FlipKeepsSound
<1>5. PointsAround(m2)
  BY <1>2, <1>4, StillAround
<1>6. Lprev(h) \in Alive(m2)
  BY <1>2, <1>4, AliveTurns DEF Sound
<1>7. pc' = "flip" /\ mesh' = m2 /\ nextvertex' = nextvertex /\ recenttri' = recenttri
  BY <1>0, <1>1 DEF FlipEdge
<1>8. at'.horiz = Lprev(h) /\ at' = [first |-> at'.first, horiz |-> at'.horiz]
  <2>1. at = [first |-> at.first, horiz |-> at.horiz]
    BY <1>0, AtTheEdges
  <2>2. at' = [at EXCEPT !.horiz = Lprev(h)]
    BY <1>1 DEF FlipEdge
  <2>3. at' = [first |-> at.first, horiz |-> Lprev(h)]
    BY <2>1, <2>2
  <2> QED
    BY <2>3
<1> QED
  BY <1>2, <1>4, <1>5, <1>6, <1>7, <1>8 DEF Good, newvertex

\* The next edge is across from the new vertex again.
LEMMA NextEdgeKeeps ==
  ASSUME InsertionInv, NextEdge
  PROVE  Good(pc', mesh', nextvertex', recenttri', at')
<1>0. pc = "flip"
  BY DEF InsertionInv, Good, NextEdge
<1>1. PICK m, h, s : m = mesh /\ h = at.horiz /\ s = Sym(m, Lnext(h))
  OBVIOUS
<1>2. /\ Given /\ Sound(m) /\ recenttri \in Alive(m) \cup {Outer} /\ nextvertex \in Nat /\ nextvertex >= 1
      /\ nextvertex <= Len(input.points) + 1 /\ nextvertex <= Len(input.points) /\ PointsAround(m)
      /\ h \in Alive(m) /\ Apex(m, h) = newvertex /\ newvertex \in Points
      /\ at = [first |-> at.first, horiz |-> at.horiz]
  BY <1>1, <1>0, AtTheEdges
<1>3. IsMesh(m) /\ Lnext(h) \in Alive(m) /\ Dest(m, Lnext(h)) = newvertex /\ Faces(m, Lnext(h))
  BY <1>2, AliveTurns DEF Sound
<1>4. s[1] # DummyTri
  BY <1>1 DEF NextEdge, Inserted
<1>5. s \in Alive(m) /\ Org(m, s) = newvertex
  BY <1>1, <1>3, <1>4 DEF Faces, Outer
<1>6. Lnext(s) \in Alive(m) /\ Apex(m, Lnext(s)) = newvertex
  BY <1>3, <1>5, AliveTurns
<1>7. at' = [at EXCEPT !.horiz = Lnext(s)]
  BY <1>1 DEF NextEdge
<1>8. at'.horiz = Lnext(s) /\ at' = [first |-> at'.first, horiz |-> at'.horiz]
  <2>1. at' = [first |-> at.first, horiz |-> Lnext(s)]
    BY <1>2, <1>7
  <2> QED
    BY <2>1
<1>9. pc' = "flip" /\ mesh' = m /\ nextvertex' = nextvertex /\ recenttri' = recenttri
  BY <1>0, <1>1 DEF NextEdge
<1> QED
  BY <1>2, <1>6, <1>8, <1>9 DEF Good, newvertex

\* All edges around the new vertex have been looked at.
LEMMA LastEdgeKeeps ==
  ASSUME InsertionInv, LastEdge
  PROVE  Good(pc', mesh', nextvertex', recenttri', at')
<1>1. PICK m, h : m = mesh /\ h = at.horiz
  OBVIOUS
<1>2. /\ Given /\ Sound(m) /\ nextvertex \in Nat /\ nextvertex >= 1
      /\ nextvertex <= Len(input.points) /\ PointsAround(m) /\ h \in Alive(m)
  BY <1>1, AtTheEdges DEF LastEdge
<1>3. Lprev(h) \in Alive(m)
  BY <1>2, AliveTurns DEF Sound
<1>4. pc' = "insert" /\ mesh' = m /\ nextvertex' = nextvertex + 1 /\ recenttri' = Lprev(h)
  BY <1>1 DEF LastEdge
<1>5. nextvertex + 1 \in Nat /\ nextvertex + 1 >= 1 /\ nextvertex + 1 # 1 /\ nextvertex + 1 <= Len(input.points) + 1
  BY <1>2, PointPlaces
<1> QED
  BY <1>2, <1>3, <1>4, <1>5 DEF Good

\* The mesh m with the pointer of o put at x.
Pointed(m, o, x) == [m EXCEPT !.adj[o] = x]

----------------------------------------------------------------------------
\* A pointer of the handle o is changed.
LEMMA PutPointer ==
  ASSUME NEW m, IsMesh(m), NEW o \in Handles(m), NEW x, NEW m2, m2 = Pointed(m, o, x)
  PROVE  /\ IsMesh(m2) /\ Alive(m2) = Alive(m)
         /\ \A q \in Handles(m) : Sym(m2, q) = IF q = o THEN x ELSE Sym(m, q)
         /\ m2.vert = m.vert
<1>1. m = [adj |-> m.adj, vert |-> m.vert, seg |-> m.seg, made |-> m.made]
  BY DEF IsMesh
<1>2. m2 = [adj |-> [m.adj EXCEPT ![o] = x], vert |-> m.vert, seg |-> m.seg, made |-> m.made]
  BY <1>1, PutFields DEF Pointed
<1>3. /\ m2.adj = [m.adj EXCEPT ![o] = x] /\ m2.vert = m.vert /\ m2.seg = m.seg /\ m2.made = m.made
      /\ m2 = [adj |-> m2.adj, vert |-> m2.vert, seg |-> m2.seg, made |-> m2.made]
  BY <1>2
<1>4. m.adj = [q \in Handles(m) |-> m.adj[q]]
  BY DEF IsMesh
<1>5. /\ DOMAIN m2.adj = Handles(m) /\ m2.adj = [q \in Handles(m) |-> m2.adj[q]]
      /\ \A q \in Handles(m) : m2.adj[q] = IF q = o THEN x ELSE m.adj[q]
  <2>1. \A A : A = [m.adj EXCEPT ![o] = x] => /\ DOMAIN A = Handles(m) /\ A = [q \in Handles(m) |-> A[q]]
                                           /\ \A q \in Handles(m) : A[q] = IF q = o THEN x ELSE m.adj[q]
    BY <1>4
  <2> QED
    BY <2>1, <1>3
<1>6. Handles(m2) = Handles(m)
  BY <1>5 DEF Handles
<1>7. IsMesh(m2)
  <2>1. /\ m.seg = {} /\ m.made \in Nat /\ m.vert = [q \in Handles(m) |-> m.vert[q]]
        /\ \E T \in SUBSET (0 .. m.made) : DummyTri \in T /\ DOMAIN m.adj = T \X (0 .. 2)
    BY DEF IsMesh
  <2>2. DOMAIN m.adj = Handles(m)
    BY DEF Handles
  <2> QED
    BY <2>1, <2>2, <1>3, <1>5, <1>6, Zenon DEF IsMesh
<1> QED
  BY <1>3, <1>5, <1>6, <1>7 DEF Alive, Sym

\* Nothing but the pointer of o is touched when what is beyond it dissolves.
LEMMA Dissolved ==
  ASSUME NEW m, IsMesh(m), NEW o \in Handles(m)
  PROVE  /\ IsMesh(Dissolve(m, o)) /\ Alive(Dissolve(m, o)) = Alive(m)
         /\ \A q \in Handles(m) : Sym(Dissolve(m, o), q) = IF q = o THEN Outer ELSE Sym(m, q)
         /\ Dissolve(m, o).vert = m.vert
<1>1. Dissolve(m, o) = Pointed(m, o, Outer)
  BY DEF Dissolve, Pointed
<1> QED
  BY <1>1, PutPointer

\* A triangle is given back.
LEMMA DeallocFields ==
  ASSUME NEW m, IsMesh(m), NEW t, t # DummyTri, NEW m2, m2 = TriangleDealloc(m, t)
  PROVE  /\ IsMesh(m2) /\ Alive(m2) = {o \in Alive(m) : o[1] # t}
         /\ \A o \in Alive(m2) : Sym(m2, o) = Sym(m, o) /\ m2.vert[o] = m.vert[o]
<1> DEFINE H == {o \in Handles(m) : o[1] # t}
           A == [o \in H |-> m.adj[o]]
           Vt == [o \in H |-> m.vert[o]]
<1>1. /\ m = [adj |-> m.adj, vert |-> m.vert, seg |-> m.seg, made |-> m.made]
      /\ m.seg = {} /\ m.made \in Nat
  BY DEF IsMesh
<1>2. m2 = [m EXCEPT !.adj = Restrict(m.adj, H), !.vert = Restrict(m.vert, H), !.seg = m.seg \cap H]
  BY DEF TriangleDealloc
<1>3. Restrict(m.adj, H) = A /\ Restrict(m.vert, H) = Vt /\ m.seg \cap H = {}
  BY <1>1 DEF Restrict
<1>4. m2 = [adj |-> A, vert |-> Vt, seg |-> {}, made |-> m.made]
  <2>1. m2 = [m EXCEPT !.adj = A, !.vert = Vt, !.seg = {}]
    BY <1>2, <1>3, Zenon
  <2> HIDE DEF A, Vt
  <2> QED
    BY <1>1, <2>1
<1>5. /\ m2.adj = A /\ m2.vert = Vt /\ m2.seg = {} /\ m2.made = m.made
      /\ m2 = [adj |-> m2.adj, vert |-> m2.vert, seg |-> m2.seg, made |-> m2.made]
  <2> HIDE DEF A, Vt
  <2> QED
    BY <1>4
<1>6. /\ DOMAIN A = H /\ A = [o \in H |-> A[o]] /\ Vt = [o \in H |-> Vt[o]]
      /\ \A o \in H : A[o] = m.adj[o] /\ Vt[o] = m.vert[o]
  OBVIOUS
<1> HIDE DEF A, Vt
<1>7. Handles(m2) = H
  BY <1>5, <1>6 DEF Handles
<1>8. PICK T \in SUBSET (0 .. m.made) : DummyTri \in T /\ Handles(m) = T \X (0 .. 2)
  BY DEF IsMesh, Handles
<1>9. H = (T \ {t}) \X (0 .. 2)
  BY <1>8
<1>10. IsMesh(m2)
  <2>1. T \ {t} \in SUBSET (0 .. m2.made) /\ DummyTri \in T \ {t} /\ DOMAIN m2.adj = (T \ {t}) \X (0 .. 2)
    BY <1>5, <1>6, <1>8, <1>9
  <2>2. m2.vert = [o \in Handles(m2) |-> m2.vert[o]] /\ m2.adj = [o \in Handles(m2) |-> m2.adj[o]]
    BY <1>5, <1>6, <1>7
  <2>3. m2.seg = {} /\ m2.made \in Nat
    BY <1>1, <1>5
  <2> QED
    BY <2>1, <2>2, <2>3, <1>5 DEF IsMesh
<1>11. Alive(m2) = {o \in Alive(m) : o[1] # t}
  BY <1>7 DEF Alive
<1>12. \A o \in Alive(m2) : o \in H
  BY <1>7 DEF Alive
<1> HIDE DEF H
<1> QED
  BY <1>5, <1>6, <1>10, <1>11, <1>12 DEF Sym

\* Two meshes with the same corners at the triangles of the second.
LEMMA SameCorners ==
  ASSUME NEW m, NEW m2, IsMesh(m2), \A o \in Alive(m2) : m2.vert[o] = m.vert[o], NEW o \in Alive(m2)
  PROVE  Org(m2, o) = Org(m, o) /\ Dest(m2, o) = Dest(m, o) /\ Apex(m2, o) = Apex(m, o)
BY AliveTurns DEF Org, Dest, Apex

\* The way around the box begins at an edge from a point to a corner of the box.
LEMMA StartBoxKeeps ==
  ASSUME InsertionInv, StartBox
  PROVE  Good(pc', mesh', nextvertex', recenttri', at')
<1>1. PICK m, bd, lb, ne, fe : /\ m = mesh /\ bd = Sym(m, Outer) /\ lb = Lnext(bd) /\ ne = Sym(m, lb)
                               /\ fe = Lprev(bd)
  OBVIOUS
<1>2. Given /\ Len(input.points) \in Nat /\ Len(input.points) >= 3
  BY PointPlaces DEF InsertionInv
<1>3. /\ Sound(m) /\ nextvertex \in Nat /\ nextvertex >= 1 /\ nextvertex > Len(input.points)
  BY <1>1 DEF InsertionInv, Good, StartBox
<1>4. PointsAround(m)
  <2>1. nextvertex # 1
    BY <1>2, <1>3
  <2> QED
    BY <2>1, <1>1 DEF InsertionInv, Good, StartBox
<1>5. IsMesh(m) /\ bd \in Alive(m) /\ Sym(m, bd) = Outer
  BY <1>1, <1>3 DEF Sound, HasBoundary
<1>6. /\ lb \in Alive(m) /\ fe \in Alive(m) /\ Lprev(fe) = lb /\ Lnext(bd) = lb
      /\ Org(m, lb) = Dest(m, bd) /\ Dest(m, lb) = Apex(m, bd)
      /\ Dest(m, fe) = Org(m, bd) /\ Apex(m, fe) = Dest(m, bd)
  BY <1>1, <1>5, AliveTurns
<1>7. Org(m, bd) \in BoxCorners /\ Dest(m, bd) \in BoxCorners
  <2>1. Faces(m, bd)
    BY <1>3, <1>5 DEF Sound
  <2>2. IsBoxEdge(Org(m, bd), Dest(m, bd))
    BY <2>1, <1>5, OuterNotAlive DEF Faces
  <2> QED
    BY <2>2 DEF IsBoxEdge, BoxCorners
<1>8. Apex(m, bd) \in Points
  <2>1. PICK v \in Points : Meets(m, bd, v)
    BY <1>4, <1>5 DEF PointsAround
  <2>2. v \notin BoxCorners
    BY <1>2, CornerKinds
  <2> QED
    BY <2>1, <2>2, <1>7 DEF Meets
<1>9. ne \in Alive(m) /\ Sym(m, ne) = lb /\ Org(m, ne) = Apex(m, bd) /\ Dest(m, ne) = Dest(m, bd)
  <2>1. Apex(m, bd) \notin BoxCorners
    BY <1>2, <1>8, CornerKinds
  <2>2. ~IsBoxEdge(Org(m, lb), Dest(m, lb))
    BY <2>1, <1>6 DEF IsBoxEdge, BoxCorners
  <2>3. Faces(m, lb)
    BY <1>3, <1>6 DEF Sound
  <2> QED
    BY <2>2, <2>3, <1>1, <1>6 DEF Faces
<1>10. Outer \in Handles(m)
  <2>1. \E T : DummyTri \in T /\ Handles(m) = T \X (0 .. 2)
    BY <1>5 DEF IsMesh, Handles
  <2> QED
    BY <2>1 DEF Outer
<1>11. PICK x, m2 : m2 = mesh' /\ m2 = Pointed(m, Outer, x)
  BY <1>1 DEF StartBox, Pointed
<1>12. /\ IsMesh(m2) /\ Alive(m2) = Alive(m) /\ m2.vert = m.vert
       /\ \A o \in Alive(m) : Sym(m2, o) = Sym(m, o)
  <2>1. \A o \in Alive(m) : o \in Handles(m) /\ o # Outer
    BY OuterNotAlive DEF Alive
  <2> QED
    BY <2>1, <1>5, <1>10, <1>11, PutPointer
<1>13. \A o \in Alive(m) : Org(m2, o) = Org(m, o) /\ Dest(m2, o) = Dest(m, o) /\ Apex(m2, o) = Apex(m, o)
  BY <1>12 DEF Org, Dest, Apex
<1>14. ASSUME NEW o \in Alive(m2) PROVE TurnsLeft(m2, o) /\ m2.vert[o] \in Corners
  BY <1>3, <1>12, <1>13 DEF Sound, TurnsLeft
<1>15. ASSUME NEW o \in Alive(m2) \ {ne, lb} PROVE Remains(m2, o, {ne, lb})
  <2>1. Faces(m, o) /\ o \in Alive(m)
    BY <1>3, <1>12 DEF Sound
  <2>2. CASE Sym(m, o) = Outer
    BY <2>1, <2>2, <1>12, <1>13, OuterNotAlive DEF Faces, Remains
  <2>3. CASE Sym(m, o) # Outer
    <3>1. PICK q : q = Sym(m, o)
      OBVIOUS
    <3>2. q \in Alive(m) /\ Sym(m, q) = o /\ Org(m, q) = Dest(m, o) /\ Dest(m, q) = Org(m, o)
      BY <2>1, <2>3, <3>1 DEF Faces
    <3>3. q # ne /\ q # lb
      BY <3>2, <1>1, <1>9
    <3> QED
      BY <2>1, <3>1, <3>2, <3>3, <1>12, <1>13 DEF Remains
  <2> QED
    BY <2>2, <2>3
<1>16. Unboxing(m2, ne, fe)
  BY <1>6, <1>7, <1>8, <1>9, <1>12, <1>13, <1>14, <1>15 DEF Unboxing
<1>17. pc' = "unbox" /\ nextvertex' = nextvertex /\ at' = [nextedge |-> ne, finaledge |-> fe]
  BY <1>1 DEF StartBox
<1>18. at'.nextedge = ne /\ at'.finaledge = fe
  BY <1>17
<1> QED
  BY <1>3, <1>11, <1>16, <1>17, <1>18 DEF Good

\* The way around the box ends.
LEMMA EndBoxKeeps ==
  ASSUME InsertionInv, EndBox
  PROVE  Good(pc', mesh', nextvertex', recenttri', at')
<1>1. pc' \in {"skeleton", "write"} /\ nextvertex' = nextvertex
  BY DEF EndBox, AfterDelaunay
<1>2. nextvertex \in Nat /\ nextvertex >= 1
  BY DEF InsertionInv, Good
<1> QED
  BY <1>1, <1>2 DEF Good

----------------------------------------------------------------------------
\* The triangle of e is given back, and the way goes on at e2.
LEMMA WayOn ==
  ASSUME Given, NEW m, NEW e, NEW last, Unboxing(m, e, last), e # last,
         NEW inner, inner = Sym(m, Lprev(e)), NEW d, d = Dissolve(m, inner),
         NEW next, next = Sym(d, Lnext(e)), NEW m2, m2 = TriangleDealloc(d, Lnext(e)[1]),
         NEW e2, e2 = IF next[1] = DummyTri THEN inner ELSE next
  PROVE  Unboxing(m2, e2, last)
<1>1. PICK dead, pe, lb, Vt, B, W : /\ dead = Lnext(e) /\ pe = Lprev(e) /\ lb = Lprev(last)
                                    /\ Vt = Org(m, e) /\ B = Dest(m, e) /\ W = Apex(m, e)
  OBVIOUS
<1>2. /\ IsMesh(m) /\ e \in Alive(m) /\ last \in Alive(m) /\ Vt \in Points /\ B \in BoxCorners
      /\ Dest(m, last) \in BoxCorners /\ Apex(m, last) \in BoxCorners
      /\ \A o \in Alive(m) : TurnsLeft(m, o) /\ m.vert[o] \in Corners
      /\ \A o \in Alive(m) \ {e, lb} : Remains(m, o, {e, lb})
  BY <1>1 DEF Unboxing
<1>3. Vt \notin BoxCorners
  BY <1>2, CornerKinds
<1>4. /\ lb \in Alive(m) /\ lb[1] = last[1] /\ Org(m, lb) = Apex(m, last)
      /\ Org(m, Lnext(last)) = Dest(m, last)
      /\ \A q \in Alive(m) : q[1] = last[1] => q \in {last, Lnext(last), lb}
  BY <1>1, <1>2, AliveTurns
<1>5. e[1] # last[1]
  <2> SUFFICES ASSUME e[1] = last[1] PROVE FALSE
    OBVIOUS
  <2>1. e = Lnext(last) \/ e = lb
    BY <1>2, <1>4
  <2> QED
    BY <2>1, <1>1, <1>2, <1>3, <1>4
<1>6. /\ dead \in Alive(m) /\ pe \in Alive(m) /\ dead[1] = e[1] /\ pe[1] = e[1] /\ e[1] # DummyTri
      /\ dead # e /\ pe # e /\ dead # pe
      /\ Org(m, dead) = B /\ Dest(m, dead) = W /\ Apex(m, dead) = Vt
      /\ Org(m, pe) = W /\ Dest(m, pe) = Vt
      /\ \A q \in Alive(m) : q[1] = e[1] => q \in {e, dead, pe}
  BY <1>1, <1>2, AliveTurns
<1>7. dead \notin {e, lb} /\ pe \notin {e, lb} /\ e # lb
  BY <1>4, <1>5, <1>6
<1>8. W \in Corners /\ B \in Corners /\ Vt \in Corners
  BY <1>1, <1>2, <1>6, CornerKinds DEF Apex
<1>9. /\ Counterclockwise(B, W, Vt) > 0
      /\ Remains(m, dead, {e, lb}) /\ Remains(m, pe, {e, lb})
  <2>1. TurnsLeft(m, dead)
    BY <1>2, <1>6
  <2> QED
    BY <2>1, <1>2, <1>6, <1>7 DEF TurnsLeft
<1>10. B # W /\ Vt # W
  <2>1. IsPlace(B) /\ IsPlace(Vt) /\ IsPlace(W)
    BY <1>8, CornerKinds
  <2> QED
    BY <2>1, <1>9, Turning DEF SamePlace
<1>11. \/ inner = Outer /\ W \in Points
       \/ /\ inner \in Alive(m) \ {e, lb} /\ Sym(m, inner) = pe
          /\ Org(m, inner) = Vt /\ Dest(m, inner) = W
  <2>1. ~IsBoxEdge(W, Vt)
    BY <1>3 DEF IsBoxEdge, BoxCorners
  <2> QED
    BY <2>1, <1>1, <1>6, <1>9 DEF Remains
<1>12. inner # e /\ inner # dead /\ inner # pe
  <2>1. e # Outer /\ dead # Outer /\ pe # Outer
    BY <1>2, <1>6, OuterNotAlive
  <2>2. CASE inner = Outer
    BY <2>1, <2>2
  <2>3. CASE inner \in Alive(m) \ {e, lb} /\ Org(m, inner) = Vt
    BY <2>3, <1>2, <1>3, <1>6, <1>10
  <2> QED
    BY <2>2, <2>3, <1>11
<1>13. Outer \in Handles(m)
  <2>1. \E T : DummyTri \in T /\ Handles(m) = T \X (0 .. 2)
    BY <1>2 DEF IsMesh, Handles
  <2> QED
    BY <2>1 DEF Outer
<1>14. inner \in Handles(m)
  BY <1>11, <1>13 DEF Alive
<1>15. /\ IsMesh(d) /\ Alive(d) = Alive(m) /\ d.vert = m.vert
       /\ \A o \in Alive(m) : Sym(d, o) = IF o = inner THEN Outer ELSE Sym(m, o)
  <2>1. \A o \in Alive(m) : o \in Handles(m)
    BY DEF Alive
  <2> QED
    BY <2>1, <1>2, <1>14, Dissolved
<1>16. /\ IsMesh(m2) /\ Alive(m2) = {o \in Alive(m) : o[1] # e[1]}
       /\ \A o \in Alive(m2) : Sym(m2, o) = Sym(d, o) /\ m2.vert[o] = d.vert[o]
  <2>1. m2 = TriangleDealloc(d, e[1])
    BY <1>1, <1>6
  <2> QED
    BY <2>1, <1>6, <1>15, DeallocFields
<1>17. /\ \A o \in Alive(m2) : o \in Alive(m) /\ o \notin {e, dead, pe}
       /\ \A o \in Alive(m) : o \notin {e, dead, pe} => o \in Alive(m2)
       /\ \A o \in Alive(m2) : Sym(m2, o) = IF o = inner THEN Outer ELSE Sym(m, o)
  BY <1>6, <1>15, <1>16
<1>18. \A o \in Alive(m2) : m2.vert[o] = m.vert[o]
  BY <1>15, <1>16
<1>19. \A o \in Alive(m2) : Org(m2, o) = Org(m, o) /\ Dest(m2, o) = Dest(m, o) /\ Apex(m2, o) = Apex(m, o)
  BY <1>16, <1>18, SameCorners
<1>20. \A o \in Alive(m2) : TurnsLeft(m2, o) /\ m2.vert[o] \in Corners
  BY <1>2, <1>17, <1>18, <1>19 DEF TurnsLeft
<1>21. last \in Alive(m2) /\ Dest(m2, last) \in BoxCorners /\ Apex(m2, last) \in BoxCorners
  BY <1>2, <1>5, <1>16, <1>19
<1>22. next = Sym(m, dead)
  BY <1>1, <1>6, <1>12, <1>15
<1> HIDE DEF Remains
<1>23. ASSUME W \in Points PROVE Unboxing(m2, e2, last)
  <2>1. next \in Alive(m) \ {e, lb} /\ Sym(m, next) = dead /\ Org(m, next) = W /\ Dest(m, next) = B
    <3>1. B \notin Points /\ W \notin BoxCorners
      BY <1>2, <1>23, CornerKinds
    <3>2. ~IsBoxEdge(B, W)
      BY <3>1 DEF IsBoxEdge, BoxCorners
    <3> QED
      BY <3>1, <3>2, <1>6, <1>9, <1>22 DEF Remains
  <2>2. e2 = next /\ next # dead /\ next # pe
    <3>1. next[1] # DummyTri
      BY <2>1 DEF Alive
    <3>2. B # Vt
      BY <1>2, <1>3
    <3> QED
      BY <2>1, <3>1, <3>2, <1>6, <1>10
  <2>3. e2 \in Alive(m2) /\ Org(m2, e2) \in Points /\ Dest(m2, e2) \in BoxCorners
    BY <2>1, <2>2, <1>2, <1>17, <1>19, <1>23
  <2>4. ASSUME NEW o \in Alive(m2) \ {e2, lb} PROVE Remains(m2, o, {e2, lb})
    <3>1. o \in Alive(m) /\ o \notin {e, dead, pe, lb} /\ Remains(m, o, {e, lb})
      BY <1>2, <1>17, <2>4
    <3>2. CASE o = inner
      <4>1. Org(m, o) = Vt /\ Dest(m, o) = W
        BY <3>1, <3>2, <1>11, OuterNotAlive
      <4> QED
        BY <3>2, <4>1, <1>2, <1>17, <1>19, <1>23 DEF Remains
    <3>3. CASE o # inner /\ Sym(m, o) = Outer
      <4>1. Sym(m2, o) = Outer
        BY <3>3, <1>17
      <4>2. IsBoxEdge(Org(m, o), Dest(m, o)) \/ (Org(m, o) \in Points /\ Dest(m, o) \in Points)
        BY <3>1, <3>3, OuterNotAlive DEF Remains
      <4> QED
        BY <4>1, <4>2, <1>19 DEF Remains
    <3>4. CASE o # inner /\ Sym(m, o) # Outer
      <4>1. PICK q : q = Sym(m, o)
        OBVIOUS
      <4>2. q \in Alive(m) \ {e, lb} /\ Sym(m, q) = o /\ Org(m, q) = Dest(m, o) /\ Dest(m, q) = Org(m, o)
        BY <3>1, <3>4, <4>1 DEF Remains
      <4>3. q # pe
        BY <4>2, <3>4, <1>1
      <4>4. q # dead
        BY <4>2, <2>2, <1>22, <2>4
      <4>5. q # next
        BY <4>2, <2>1, <3>1
      <4>6. q # inner
        BY <4>2, <3>1, <1>11, OuterNotAlive
      <4>7. q \in Alive(m2) \ {e2, lb} /\ Sym(m2, o) = q /\ Sym(m2, q) = o
        BY <4>1, <4>2, <4>3, <4>4, <4>5, <4>6, <3>4, <2>2, <1>17
      <4> QED
        BY <4>2, <4>7, <1>19 DEF Remains
    <3> QED
      BY <3>2, <3>3, <3>4
  <2> QED
    BY <2>3, <2>4, <1>1, <1>16, <1>20, <1>21 DEF Unboxing
<1>24. ASSUME W \in BoxCorners PROVE Unboxing(m2, e2, last)
  <2>1. IsBoxEdge(B, W)
    BY <1>2, <1>8, <1>9, <1>24, BoxBound
  <2>2. next = Outer
    <3> SUFFICES ASSUME next # Outer PROVE FALSE
      OBVIOUS
    <3>1. next \in Alive(m) /\ Org(m, next) = W /\ Dest(m, next) = B
      BY <1>6, <1>9, <1>22 DEF Remains
    <3>2. Counterclockwise(W, B, Apex(m, next)) > 0
      BY <3>1, <1>2 DEF TurnsLeft
    <3>3. Apex(m, next) \in Corners
      BY <3>1, <1>2 DEF Apex
    <3> QED
      BY <3>2, <3>3, <1>2, <1>8, <1>9, <1>24, OneSide
  <2>3. /\ e2 = inner /\ inner \in Alive(m) \ {e, lb} /\ Sym(m, inner) = pe
        /\ Org(m, inner) = Vt /\ Dest(m, inner) = W
    <3>1. W \notin Points
      BY <1>24, CornerKinds
    <3>2. next[1] = DummyTri
      BY <2>2 DEF Outer
    <3> QED
      BY <3>1, <3>2, <1>11
  <2>4. e2 \in Alive(m2) /\ Org(m2, e2) \in Points /\ Dest(m2, e2) \in BoxCorners
    BY <2>3, <1>2, <1>12, <1>17, <1>19, <1>24
  <2>5. ASSUME NEW o \in Alive(m2) \ {e2, lb} PROVE Remains(m2, o, {e2, lb})
    <3>1. o \in Alive(m) /\ o \notin {e, dead, pe, lb} /\ o # inner /\ Remains(m, o, {e, lb})
      BY <1>2, <1>17, <2>3, <2>5
    <3>2. CASE Sym(m, o) = Outer
      <4>1. Sym(m2, o) = Outer
        BY <3>1, <3>2, <1>17
      <4>2. IsBoxEdge(Org(m, o), Dest(m, o)) \/ (Org(m, o) \in Points /\ Dest(m, o) \in Points)
        BY <3>1, <3>2, OuterNotAlive DEF Remains
      <4> QED
        BY <4>1, <4>2, <1>19 DEF Remains
    <3>3. CASE Sym(m, o) # Outer
      <4>1. PICK q : q = Sym(m, o)
        OBVIOUS
      <4>2. q \in Alive(m) \ {e, lb} /\ Sym(m, q) = o /\ Org(m, q) = Dest(m, o) /\ Dest(m, q) = Org(m, o)
        BY <3>1, <3>3, <4>1 DEF Remains
      <4>3. q # pe
        BY <4>2, <3>1, <1>1
      <4>4. q # dead
        BY <4>2, <3>1, <2>2, <1>22, OuterNotAlive
      <4>5. q # inner
        BY <4>2, <2>3, <3>1
      <4>6. q \in Alive(m2) \ {e2, lb} /\ Sym(m2, o) = q /\ Sym(m2, q) = o
        BY <4>1, <4>2, <4>3, <4>4, <4>5, <3>1, <2>3, <1>17
      <4> QED
        BY <4>2, <4>6, <1>19 DEF Remains
    <3> QED
      BY <3>2, <3>3
  <2> QED
    BY <2>4, <2>5, <1>1, <1>16, <1>20, <1>21 DEF Unboxing
<1> QED
  BY <1>8, <1>23, <1>24, CornerKinds

\* A triangle of the box is given back.
LEMMA RemoveBoxKeeps ==
  ASSUME InsertionInv, RemoveBox
  PROVE  Good(pc', mesh', nextvertex', recenttri', at')
<1>1. PICK m, e, last, inner, d, next, m2, e2 :
        /\ m = mesh /\ e = at.nextedge /\ last = at.finaledge /\ inner = Sym(m, Lprev(e)) /\ d = Dissolve(m, inner)
        /\ next = Sym(d, Lnext(e)) /\ m2 = TriangleDealloc(d, Lnext(e)[1])
        /\ e2 = IF next[1] = DummyTri THEN inner ELSE next
  OBVIOUS
<1>2. /\ Given /\ nextvertex \in Nat /\ nextvertex >= 1 /\ Unboxing(m, e, last)
      /\ at = [nextedge |-> at.nextedge, finaledge |-> at.finaledge] /\ e # last
  BY <1>1 DEF InsertionInv, Good, RemoveBox
<1>3. Unboxing(m2, e2, last)
  BY <1>1, <1>2, WayOn
<1>4. /\ pc' = "unbox" /\ mesh' = m2 /\ nextvertex' = nextvertex /\ at' = [at EXCEPT !.nextedge = e2]
  BY <1>1 DEF RemoveBox
<1>5. at'.nextedge = e2 /\ at'.finaledge = last /\ at' = [nextedge |-> at'.nextedge, finaledge |-> at'.finaledge]
  <2>1. at' = [nextedge |-> e2, finaledge |-> last]
    BY <1>1, <1>2, <1>4
  <2> QED
    BY <2>1
<1> QED
  BY <1>2, <1>3, <1>4, <1>5 DEF Good

----------------------------------------------------------------------------
\* What is given stays, and with it the points, the box and what is said of them.
LEMMA SameGiven ==
  ASSUME input' = input, added' = added, InsertionInv, Good(pc', mesh', nextvertex', recenttri', at')
  PROVE  InsertionInv'
<1>1. \A i : Vertex(i)' = Vertex(i)
  BY DEF Vertex
<1>2. Vertices' = Vertices
  BY <1>1 DEF Vertices, Vertex
<1>3. Box' = Box
  BY <1>2, ZenonT(60) DEF Box, MinCoordinate, MaxCoordinate, Width, Vertices, Vertex
<1>4. Points' = Points
  BY DEF Points, Vertex
<1>5. Given'
  BY DEF InsertionInv, Given
<1>6. \A u, w : IsBoxEdge(u, w)' <=> IsBoxEdge(u, w)
  BY <1>3 DEF IsBoxEdge
<1>7. Corners' = Corners /\ BoxCorners' = BoxCorners
  BY <1>3, <1>4 DEF Corners, BoxCorners
<1>8. PICK p, m, n, r, a : p = pc' /\ m = mesh' /\ n = nextvertex' /\ r = recenttri' /\ a = at'
  OBVIOUS
<1>9. Good(p, m, n, r, a)
  BY <1>8
<1>10. Sound(mesh)' <=> Sound(m)
  BY <1>6, <1>7, <1>8 DEF Sound, Faces
<1>11. PointsAround(mesh)' <=> PointsAround(m)
  BY <1>4, <1>8 DEF PointsAround
<1>12. OnlyBox(mesh)' <=> OnlyBox(m)
  BY <1>7, <1>8 DEF OnlyBox
<1>13. Unboxing(mesh, at.nextedge, at.finaledge)' <=> Unboxing(m, a.nextedge, a.finaledge)
  BY <1>4, <1>6, <1>7, <1>8 DEF Unboxing, Remains
<1>14. Vertex(nextvertex)' = Vertex(n)
  BY <1>8 DEF Vertex
<1>15. Good(pc, mesh, nextvertex, recenttri, at)'
  BY <1>8, <1>9, <1>10, <1>11, <1>12, <1>13, <1>14 DEF Good
<1> QED
  BY <1>5, <1>15 DEF InsertionInv

\* The invariant holds before anything is inserted.
LEMMA InsertionInvInit == InitCommon /\ InitIncremental => InsertionInv
<1> SUFFICES ASSUME InitCommon, InitIncremental PROVE InsertionInv
  OBVIOUS
<1> QED
  BY DEF InitCommon, InitIncremental, InsertionInv, Given, Good

\* What InsertionRight asks of the bonds and triangles holds in every sound mesh.
LEMMA SoundRight ==
  ASSUME Given, NEW m, Sound(m)
  PROVE  /\ Sym(m, Outer)[1] \in Triangles(m) /\ Sym(m, Sym(m, Outer)) = Outer
         /\ \A o \in Handles(m) : o[1] # DummyTri => Reciprocal(m, o)
         /\ \A t \in Triangles(m) : NotInverted(m, t)
<1>1. IsMesh(m) /\ HasBoundary(m)
  BY DEF Sound
<1>2. Sym(m, Outer)[1] \in Triangles(m) /\ Sym(m, Sym(m, Outer)) = Outer
  BY <1>1 DEF HasBoundary, Alive, Triangles
<1>3. ASSUME NEW o \in Alive(m) PROVE Reciprocal(m, o)
  <2>1. Faces(m, o)
    BY DEF Sound
  <2> QED
    BY <2>1 DEF Faces, Reciprocal, SameVertex, Outer
<1>4. ASSUME NEW t \in Triangles(m) PROVE NotInverted(m, t)
  <2>1. PICK T : Handles(m) = T \X (0 .. 2)
    BY <1>1 DEF IsMesh, Handles
  <2>2. t \in T /\ t # DummyTri
    BY <2>1 DEF Triangles
  <2>3. <<t, 0>> \in Alive(m)
    BY <2>1, <2>2 DEF Alive
  <2>4. Lnext(<<t, 0>>) = <<t, 1>> /\ Lprev(<<t, 0>>) = <<t, 2>>
    BY DEF Lnext, Lprev, Turn
  <2>5. TurnsLeft(m, <<t, 0>>)
    BY <2>3 DEF Sound
  <2> QED
    BY <2>4, <2>5 DEF TurnsLeft, NotInverted, Org, Dest, Apex
<1> QED
  BY <1>2, <1>3, <1>4 DEF Alive

\* What InsertionRight asks of the way around the box.
LEMMA UnboxingRight ==
  ASSUME Given, NEW m, NEW e, NEW last, Unboxing(m, e, last)
  PROVE  /\ e \in Handles(m) /\ e[1] # DummyTri
         /\ \A o \in Handles(m) : o[1] \in RealTriangles(m) => Reciprocal(m, o)
<1>1. IsMesh(m) /\ e \in Alive(m) /\ last \in Alive(m)
  BY DEF Unboxing
<1>2. ASSUME NEW o \in Handles(m), o[1] \in RealTriangles(m) PROVE Reciprocal(m, o)
  <2>1. o \in Alive(m)
    BY <1>2 DEF RealTriangles, Triangles, Alive
  <2>2. ASSUME NEW q \in Alive(m), q[1] = o[1] PROVE m.vert[q] \notin BoxCorners
    <3>1. PICK T : Handles(m) = T \X (0 .. 2)
      BY <1>1 DEF IsMesh, Handles
    <3>2. q \in {o[1]} \X (0 .. 2)
      BY <3>1, <2>2 DEF Alive
    <3>3. IsInput(m.vert[q])
      BY <3>2, <1>2 DEF RealTriangles, IsReal
    <3> QED
      BY <3>3, CornerKinds
  <2>3. o # e
    <3>1. Lprev(e) \in Alive(m) /\ Lprev(e)[1] = e[1] /\ m.vert[Lprev(e)] \in BoxCorners
      BY <1>1, AliveTurns DEF Unboxing, Dest
    <3> QED
      BY <3>1, <2>2
  <2>4. o # Lprev(last)
    <3>1. Lprev(last)[1] = last[1] /\ m.vert[last] \in BoxCorners
      BY <1>1, AliveTurns DEF Unboxing, Apex
    <3> QED
      BY <3>1, <1>1, <2>2
  <2>5. Remains(m, o, {e, Lprev(last)})
    BY <2>1, <2>3, <2>4 DEF Unboxing
  <2> QED
    BY <2>5 DEF Remains, Reciprocal, SameVertex, Outer
<1> QED
  BY <1>1, <1>2 DEF Alive

\* The invariant is strong enough.
LEMMA InsertionInvRight == InsertionInv => InsertionRight
<1> SUFFICES ASSUME InsertionInv PROVE InsertionRight
  OBVIOUS
<1>1. ASSUME pc = "located" PROVE at.how # "outside" /\ FoundAt(newvertex)
  <2>1. Tracked(mesh, at.how, at.horiz, newvertex)
    BY <1>1 DEF InsertionInv, Good, newvertex
  <2>2. at.how \in {"vertex", "edge", "triangle", "walk"}
    BY <2>1 DEF Tracked
  <2>3. CASE at.how = "vertex"
    BY <2>1, <2>3 DEF Tracked, FoundAt
  <2>4. CASE at.how = "edge"
    BY <2>1, <2>4 DEF Tracked, FoundAt, OnEdge
  <2>5. CASE at.how = "triangle"
    BY <2>1, <2>5 DEF Tracked, FoundAt
  <2>6. CASE at.how = "walk"
    BY <2>1, <2>6 DEF Tracked, FoundAt, AheadOf
  <2> QED
    BY <2>2, <2>3, <2>4, <2>5, <2>6
<1>2. pc \in {"insert", "located", "flip"} => Sound(mesh)
  BY DEF InsertionInv, Good
<1>3. pc = "unbox" => Unboxing(mesh, at.nextedge, at.finaledge)
  BY DEF InsertionInv, Good
<1>4. Given
  BY DEF InsertionInv
<1> QED
  BY <1>1, <1>2, <1>3, <1>4, SoundRight, UnboxingRight DEF InsertionRight

\* Within the algorithm its invariant holds.
Inserts == pc \in {"delaunay", "insert", "located", "flip", "unbox"} => InsertionInv

\* Every action of the algorithm keeps the invariant.
LEMMA StepKeeps ==
  ASSUME InsertionInv, pc \in {"delaunay", "insert", "located", "flip", "unbox"},
         IncrementalNext \/ UNCHANGED <<input, pc, mesh, result, incrementalVars>>
  PROVE  InsertionInv'
<1>1. CASE UNCHANGED <<input, pc, mesh, result, incrementalVars>>
  <2>1. /\ input' = input /\ added' = added /\ pc' = pc /\ mesh' = mesh
        /\ nextvertex' = nextvertex /\ recenttri' = recenttri /\ at' = at
    BY <1>1 DEF result, incrementalVars
  <2>2. Good(pc', mesh', nextvertex', recenttri', at')
    BY <2>1 DEF InsertionInv
  <2> QED
    BY <2>1, <2>2, SameGiven
<1>2. CASE BoundingBox
  <2>1. input' = input /\ added' = added
    BY <1>2 DEF BoundingBox, result
  <2> QED
    BY <1>2, <2>1, BoundingBoxKeeps, SameGiven
<1>3. CASE Locate
  <2>1. input' = input /\ added' = added
    BY <1>3 DEF Locate, result
  <2> QED
    BY <1>3, <2>1, LocateKeeps, SameGiven
<1>4. CASE WalkOn
  <2>1. input' = input /\ added' = added
    BY <1>4 DEF WalkOn, result
  <2> QED
    BY <1>4, <2>1, WalkOnKeeps, SameGiven
<1>5. CASE Duplicate
  <2>1. input' = input /\ added' = added
    BY <1>5 DEF Duplicate
  <2> QED
    BY <1>5, <2>1, DuplicateKeeps, SameGiven
<1>6. CASE SplitTriangle
  <2>1. input' = input /\ added' = added
    BY <1>6 DEF SplitTriangle, result
  <2> QED
    BY <1>6, <2>1, SplitTriangleKeeps, SameGiven
<1>7. CASE SplitEdge
  <2>1. input' = input /\ added' = added
    BY <1>7 DEF SplitEdge, result
  <2> QED
    BY <1>7, <2>1, SplitEdgeKeeps, SameGiven
<1>8. CASE FlipEdge
  <2>1. input' = input /\ added' = added
    BY <1>8 DEF FlipEdge, result
  <2> QED
    BY <1>8, <2>1, FlipEdgeKeeps, SameGiven
<1>9. CASE NextEdge
  <2>1. input' = input /\ added' = added
    BY <1>9 DEF NextEdge, result
  <2> QED
    BY <1>9, <2>1, NextEdgeKeeps, SameGiven
<1>10. CASE LastEdge
  <2>1. input' = input /\ added' = added
    BY <1>10 DEF LastEdge, result
  <2> QED
    BY <1>10, <2>1, LastEdgeKeeps, SameGiven
<1>11. CASE StartBox
  <2>1. input' = input /\ added' = added
    BY <1>11 DEF StartBox
  <2> QED
    BY <1>11, <2>1, StartBoxKeeps, SameGiven
<1>12. CASE RemoveBox
  <2>1. input' = input /\ added' = added
    BY <1>12 DEF RemoveBox
  <2> QED
    BY <1>12, <2>1, RemoveBoxKeeps, SameGiven
<1>13. CASE EndBox
  <2>1. input' = input /\ added' = added
    BY <1>13 DEF EndBox, result
  <2> QED
    BY <1>13, <2>1, EndBoxKeeps, SameGiven
<1> QED
  BY <1>1, <1>2, <1>3, <1>4, <1>5, <1>6, <1>7, <1>8, <1>9, <1>10, <1>11, <1>12, <1>13 DEF IncrementalNext

\* For all points, three or more and anywhere, in any order, in one place or on a
\* line: every vertex is found where it lies, no walk leaves the box, all bonds are
\* mutual and no triangle is flat or inverted after each split and each turn, and
\* the way around the box never goes astray.
THEOREM InsertionAlwaysRight == IncrementalSpec => []InsertionRight
<1>1. InitCommon /\ InitIncremental => Inserts
  BY InsertionInvInit DEF Inserts
<1>2. Inserts /\ [IncrementalNext \/ Elsewhere]_<<input, pc, mesh, result, incrementalVars>> => Inserts'
  <2> SUFFICES ASSUME Inserts, [IncrementalNext \/ Elsewhere]_<<input, pc, mesh, result, incrementalVars>>
               PROVE  Inserts'
    OBVIOUS
  <2>1. CASE Elsewhere
    BY <2>1 DEF Elsewhere, Inserts
  <2>2. CASE pc \in {"delaunay", "insert", "located", "flip", "unbox"} /\ ~Elsewhere
    <3>1. InsertionInv
      BY <2>2 DEF Inserts
    <3>2. InsertionInv'
      BY <2>2, <3>1, StepKeeps
    <3> QED
      BY <3>2 DEF Inserts
  <2>3. CASE pc \notin {"delaunay", "insert", "located", "flip", "unbox"} /\ ~Elsewhere
    <3>1. pc' # pc
      BY <2>3 DEF Elsewhere
    <3>2. IncrementalNext
      BY <2>3, <3>1
    <3>3. FALSE
      BY <2>3, <3>1, <3>2 DEF IncrementalNext, BoundingBox, Locate, WalkOn, Duplicate, SplitTriangle, SplitEdge,
           FlipEdge, NextEdge, LastEdge, StartBox, RemoveBox, EndBox
    <3> QED
      BY <3>3
  <2> QED
    BY <2>1, <2>2, <2>3
<1>3. Inserts => InsertionRight
  <2>1. CASE pc \in {"delaunay", "insert", "located", "flip", "unbox"}
    BY <2>1, InsertionInvRight DEF Inserts
  <2>2. CASE pc \notin {"delaunay", "insert", "located", "flip", "unbox"}
    BY <2>2 DEF InsertionRight
  <2> QED
    BY <2>1, <2>2
<1> QED
  BY <1>1, <1>2, <1>3, PTL DEF IncrementalSpec

\* No step of divide and conquer, of the segments, of the holes or of the output
\* leads into the incremental insertion; FlipEdge and NextEdge of insertvertex, which
\* the segments use too, are actions of IncrementalNext.
THEOREM OthersStayOut == DivConqNext \/ SegmentsNext \/ HolesNext \/ Write => Elsewhere
<1>1. DivConqNext => Elsewhere
  <2>1. Sort \/ Divide \/ Edge \/ TwoEdges \/ OneTriangle => Elsewhere
    BY DEF Sort, Divide, Edge, TwoEdges, OneTriangle, Subproblem, Make, Elsewhere
  <2>2. StartMerge \/ Tangent \/ BottomGhost => Elsewhere
    BY DEF StartMerge, Tangent, BottomGhost, Subproblem, Elsewhere
  <2>3. Look \/ TurnLeft \/ TurnRight \/ Knit => Elsewhere
    BY DEF Look, TurnLeft, TurnRight, LeftTurned, TurnEdge, Knit, Elsewhere
  <2>4. TopGhost => Elsewhere
    BY DEF TopGhost, Elsewhere
  <2>5. EndDivConq \/ RemoveGhost => Elsewhere
    BY DEF EndDivConq, RemoveGhosts, RemoveGhost, AfterDelaunay, Elsewhere
  <2> QED
    BY <2>1, <2>2, <2>3, <2>4, <2>5 DEF DivConqNext
<1>2. SegmentsNext => Elsewhere
  BY DEF SegmentsNext, FormSkeleton, SkipSegment, StartSegment, EndSkeleton, Arrive, PassVertex, SecondScout,
         StartForce, CrossSegment, EndSplit, Dig, FixupFlip, FixupReturn, ForceEnds, DigOn, NextSegment, Scouts,
         SplitSegment, FixedUp, Cross, Elsewhere
<1>3. HolesNext => Elsewhere
  BY DEF HolesNext, StartCarve, InfectHull, FindHole, SeekOn, InfectHole, EndHoles, Spread, Kill, Elsewhere
<1>4. Write => Elsewhere
  BY DEF Write, Elsewhere
<1> QED
  BY <1>1, <1>2, <1>3, <1>4
=============================================================================
