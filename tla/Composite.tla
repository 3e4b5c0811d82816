------------------------------- MODULE Composite -------------------------------
(***************************************************************************)
(* framebuf/composite: Porter and Duff's rules on bitmaps of pixels with   *)
(* alpha. Colours are not premultiplied. A pixel is <<red, green, blue,    *)
(* alpha>>, and a bitmap's rowbytes is counted in pixels. Fully            *)
(* transparent and fully opaque pixels have shortcuts; the rest is blended *)
(* in integers. PorterDuff is what the rules' paper and docs/composite.md  *)
(* say, exactly, in 255ths.                                                *)
(***************************************************************************)
EXTENDS Integers, Sequences, Bitwise

CONSTANTS Pixels,    \* the pixels tried, in every pair
          Formats    \* the pixel formats tried

VARIABLES src, dst,  \* the bitmaps
          reply      \* the last call's rule and result

vars == <<src, dst, reply>>

Rules == {"CLEAR", "SRC", "DST", "SRC_OVER", "DST_OVER", "SRC_IN", "DST_IN",
          "SRC_OUT", "DST_OUT", "SRC_ATOP", "DST_ATOP", "XOR"}
Colours == 1 .. 3
ALPHA(px) == px[4]

DIV_255(x) == LET t == x + 128 IN (t \div 256 + t) \div 256
PRELERP(p, q, a) == p + q - DIV_255(a * p)

\* 0 .. 255 -> 0 .. 256
Widened(alpha) == alpha + alpha \div 128

\* The components are shifted and combined, whatever does not fit in a byte
\* ending up in the next component.
FUSE(new, alpha) ==
  << new[1] % 256,
     (new[2] % 256) | (new[1] \div 256),
     (new[3] % 256) | (new[2] \div 256),
     alpha | (new[3] \div 256) >>

Transparent == <<0, 0, 0, 0>>
WithAlpha(px, alpha) == [px EXCEPT ![4] = alpha]

src_over_opaque(s, d) ==
  LET sa == Widened(ALPHA(s))
  IN  FUSE([c \in Colours |-> (s[c] * sa + d[c] * (256 - sa)) \div 256], 255)

src_over_general(s, d) ==
  LET newalpha == PRELERP(ALPHA(s), ALPHA(d), ALPHA(d))
      sa == Widened(ALPHA(s))  da == Widened(ALPHA(d))
  IN  IF newalpha = 0 THEN Transparent
      ELSE FUSE([c \in Colours |->
             (((s[c] * sa + (d[c] * da * (256 - sa)) \div 256) \div 256) * 255) \div newalpha],
             newalpha)

src_in_general(s, d) ==
  LET newalpha == DIV_255(ALPHA(s) * ALPHA(d))
  IN  IF newalpha = 0 THEN Transparent ELSE WithAlpha(s, newalpha)

src_out_general(s, d) ==
  LET part == ALPHA(s) * (255 - ALPHA(d))  newalpha == DIV_255(part)
  IN  IF newalpha = 0 THEN Transparent
      ELSE FUSE([c \in Colours |-> DIV_255(s[c] * part) \div newalpha], newalpha)

src_atop_general(s, d) ==
  LET sa == Widened(ALPHA(s))  da == Widened(ALPHA(d))
  IN  IF ALPHA(d) = 0 THEN Transparent
      ELSE FUSE([c \in Colours |->
             (((s[c] * sa * da + d[c] * da * (256 - sa)) \div 65536) * 255) \div ALPHA(d)],
             ALPHA(d))

xor_general(s, d) ==
  LET ofs == ALPHA(s) * (255 - ALPHA(d))  ofd == ALPHA(d) * (255 - ALPHA(s))
      newalpha == DIV_255(ofs + ofd)
  IN  IF newalpha = 0 THEN Transparent
      ELSE FUSE([c \in Colours |-> DIV_255(s[c] * ofs + d[c] * ofd) \div newalpha], newalpha)

-----------------------------------------------------------------------------
(* The rules, pixel by pixel: what d becomes. *)

src_over(s, d) ==
  IF ALPHA(s) = 0 THEN d
  ELSE IF ALPHA(s) = 255 \/ ALPHA(d) = 0 THEN s
  ELSE IF ALPHA(d) = 255 THEN src_over_opaque(s, d) ELSE src_over_general(s, d)

\* Mutant: the blends' arguments are not reversed.
dst_over_Forward(s, d) ==
  IF ALPHA(s) = 0 \/ ALPHA(d) = 255 THEN d
  ELSE IF ALPHA(d) = 0 THEN s
  ELSE IF ALPHA(s) = 255 THEN src_over_opaque(s, d) ELSE src_over_general(s, d)

dst_over(s, d) ==
  IF ALPHA(s) = 0 \/ ALPHA(d) = 255 THEN d
  ELSE IF ALPHA(d) = 0 THEN s
  ELSE IF ALPHA(s) = 255 THEN src_over_opaque(d, s) ELSE src_over_general(d, s)

src_in(s, d) ==
  IF ALPHA(s) = 0 \/ ALPHA(d) = 0 THEN Transparent
  ELSE IF ALPHA(d) = 255 THEN s
  ELSE IF ALPHA(s) = 255 THEN WithAlpha(s, ALPHA(d)) ELSE src_in_general(s, d)

dst_in(s, d) ==
  IF ALPHA(s) = 255 THEN d
  ELSE IF ALPHA(s) = 0 \/ ALPHA(d) = 0 THEN Transparent
  ELSE IF ALPHA(d) = 255 THEN WithAlpha(d, ALPHA(s)) ELSE src_in_general(d, s)

src_out(s, d) ==
  IF ALPHA(s) = 0 \/ ALPHA(d) = 255 THEN Transparent
  ELSE IF ALPHA(d) = 0 THEN s
  ELSE IF ALPHA(s) = 255 THEN WithAlpha(s, 255 - ALPHA(d)) ELSE src_out_general(s, d)

dst_out(s, d) ==
  IF ALPHA(s) = 0 THEN d
  ELSE IF ALPHA(s) = 255 \/ ALPHA(d) = 0 THEN Transparent
  ELSE IF ALPHA(d) = 255 THEN WithAlpha(d, 255 - ALPHA(s)) ELSE src_out_general(d, s)

src_atop(s, d) ==
  IF ALPHA(s) = 0 THEN d
  ELSE IF ALPHA(d) = 0 THEN Transparent
  ELSE IF ALPHA(s) = 255 THEN WithAlpha(s, ALPHA(d))
  ELSE IF ALPHA(d) = 255 THEN src_over_opaque(s, d) ELSE src_atop_general(s, d)

dst_atop(s, d) ==
  IF ALPHA(s) = 0 THEN Transparent
  ELSE IF ALPHA(d) = 0 THEN s
  ELSE IF ALPHA(s) = 255 THEN src_over_opaque(d, s)
  ELSE IF ALPHA(d) = 255 THEN WithAlpha(d, ALPHA(s)) ELSE src_atop_general(d, s)

xor(s, d) ==
  IF ALPHA(s) = 0 THEN d
  ELSE IF ALPHA(d) = 0 THEN s
  ELSE IF ALPHA(s) = 255 THEN WithAlpha(s, 255 - ALPHA(d))
  ELSE IF ALPHA(d) = 255 THEN WithAlpha(d, 255 - ALPHA(s)) ELSE xor_general(s, d)

compo(rule, s, d) ==
  CASE rule = "CLEAR"    -> Transparent
    [] rule = "SRC"      -> s
    [] rule = "DST"      -> d
    [] rule = "SRC_OVER" -> src_over(s, d)
    [] rule = "DST_OVER" -> dst_over(s, d)
    [] rule = "SRC_IN"   -> src_in(s, d)
    [] rule = "DST_IN"   -> dst_in(s, d)
    [] rule = "SRC_OUT"  -> src_out(s, d)
    [] rule = "DST_OUT"  -> dst_out(s, d)
    [] rule = "SRC_ATOP" -> src_atop(s, d)
    [] rule = "DST_ATOP" -> dst_atop(s, d)
    [] rule = "XOR"      -> xor(s, d)

-----------------------------------------------------------------------------

\* Two rows of one pixel and one spare, or of two pixels; dst's rows are src's
\* the other way round.
Init ==
  /\ \E p, q \in Pixels, f, g \in Formats, w, v \in {1, 2} :
       /\ p = q \/ (f = g /\ w = 1 /\ v = 1)
       /\ src = [width |-> w, height |-> 2, format |-> f, rowbytes |-> 2, base |-> <<p, q, q, p>>]
       /\ dst = [width |-> v, height |-> 2, format |-> g, rowbytes |-> 2, base |-> <<q, p, p, q>>]
  /\ reply = <<"none">>

composite_xxxa8888(rule) ==
  [i \in DOMAIN dst.base |->
    IF (i - 1) % src.rowbytes < src.width /\ (i - 1) \div src.rowbytes < src.height
      THEN compo(rule, src.base[i], dst.base[i]) ELSE dst.base[i]]

composite(rule) ==
  /\ UNCHANGED src
  /\ IF src.width # dst.width \/ src.height # dst.height \/ src.format # dst.format
       THEN reply' = <<rule, "BAD_ARG">> /\ UNCHANGED dst
     ELSE IF src.format \notin {"rgba8888", "bgra8888"}
       THEN reply' = <<rule, "NOT_IMPLEMENTED">> /\ UNCHANGED dst
     ELSE /\ dst' = [dst EXCEPT !.base = composite_xxxa8888(rule)]
          /\ reply' = <<rule, "OK">>

\* One call, on any pair.
Next == reply = <<"none">> /\ \E rule \in Rules : composite(rule)

Spec == Init /\ [][Next]_vars

-----------------------------------------------------------------------------

\* The part of s, and that of d, that each rule keeps, in 255ths.
Fraction(rule, s, d) ==
  LET sa == ALPHA(s)  da == ALPHA(d)
  IN  CASE rule = "CLEAR"    -> <<0, 0>>
        [] rule = "SRC"      -> <<255, 0>>
        [] rule = "DST"      -> <<0, 255>>
        [] rule = "SRC_OVER" -> <<255, 255 - sa>>
        [] rule = "DST_OVER" -> <<255 - da, 255>>
        [] rule = "SRC_IN"   -> <<da, 0>>
        [] rule = "DST_IN"   -> <<0, sa>>
        [] rule = "SRC_OUT"  -> <<255 - da, 0>>
        [] rule = "DST_OUT"  -> <<0, 255 - sa>>
        [] rule = "SRC_ATOP" -> <<da, 255 - sa>>
        [] rule = "DST_ATOP" -> <<255 - da, sa>>
        [] rule = "XOR"      -> <<255 - da, 255 - sa>>

Near(a, b, most) == a - b \in -most .. most

\* The alpha n of the result is the nearest to the exact one; its colours,
\* weighed by it, are within three 255ths of the exact ones.
PorterDuff(rule, s, d, n) ==
  LET f == Fraction(rule, s, d)
      ofs == f[1] * ALPHA(s)  ofd == f[2] * ALPHA(d)
  IN  /\ Near(255 * ALPHA(n), ofs + ofd, 127)
      /\ \A c \in Colours : Near(255 * ALPHA(n) * n[c], ofs * s[c] + ofd * d[c], 3 * 65025)

\* A colour divided by an alpha that was rounded down is within a byte when
\* the alpha is no small one, or the colour two thirds of the most.
FitsAByte(s, d, n) == ALPHA(n) >= 128 \/ \A c \in Colours : s[c] <= 170 /\ d[c] <= 170

Composed(Holds(_, _, _)) ==
  reply' # reply =>
    \A i \in DOMAIN dst.base :
      LET s == src.base[i]  d == dst.base[i]  n == dst'.base[i]
      IN  IF reply'[2] = "OK" /\ (i % 2 = 1 \/ src.width = 2) THEN Holds(s, d, n) ELSE n = d

\* A call composes every pixel of dst with its pixel of src, by the rule asked
\* for, and changes nothing else, be the pixels transparent, opaque or between
\* (the shortcuts and the blends of composite.c:421-901).
ComposesByRule ==
  Composed(LAMBDA s, d, n : FitsAByte(s, d, n) => PorterDuff(reply'[1], s, d, n))

\* The same of every colour (docs/composite.md:13).
ComposesAnyByRule == Composed(LAMBDA s, d, n : PorterDuff(reply'[1], s, d, n))

=============================================================================
