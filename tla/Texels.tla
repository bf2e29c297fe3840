------------------------------- MODULE Texels -------------------------------
(***************************************************************************)
(* How a picture gets into a texture (src/src/gl/gl_texture.c,             *)
(* src/src/image/image.c): a size that OpenGL takes, and either the        *)
(* picture in a corner of it, for texts and the user interface, or scaled  *)
(* to all of it.  Scaling goes by rows in fixed point and keeps the two    *)
(* rows of the picture that it last used.                                  *)
(*                                                                         *)
(* Columns go as rows do, with a pointer instead of the two rows, and none *)
(* of them is written twice; only the reads that leave the picture are     *)
(* modelled.  Smaller levels are left out, as both types of texture are    *)
(* GL_NEAREST, and so is memory that cannot be had.                        *)
(***************************************************************************)
EXTENDS Integers, Sequences

CONSTANTS
  MaxSide,    (* Bound: the sides of pictures.                               *)
  MinDim,     (* GL_MIN_TEXTURE_DIMENSION,                                   *)
  MaxDim,     (* and gl_max_texture_size: powers of two.                     *)
  IntMax      (* INT_MAX: what the fixed point can count to.                 *)

(* Powers of two up to one in fixed point, 1 << 16.  Rows of a texture     *)
(* with more than that would be closer than it can tell.                   *)
One    == 65536
Powers == {1, 2, 4, 8, 16, 32, 64, 128, 256, 512, 1024, 2048, 4096, 8192, 16384, 32768, One}

ASSUME TexelsAssumption ==
  MaxSide \in Nat \ {0} /\ {MinDim, MaxDim} \subseteq Powers \ {1} /\ MinDim <= MaxDim
  /\ IntMax \in Nat

VARIABLES
  wide, high, (* The picture.                                                *)
  noscale,    (* GL_TEX_FL_NOSCALE.                                          *)
  npot,       (* Sides need not be powers of two.                            *)
  tw, th,     (* The texture: sw, sh.                                        *)
  share,      (* How much of it r_texture_load takes for the picture: texw   *)
              (* and texh, each as a numerator and a denominator.            *)
  phase,      (* "size", "rows", "done", or where memory that is not the     *)
              (* picture's was written ("spilt") or read ("wild").           *)
  made,       (* i: the turns of the loop over the rows,                     *)
  out,        (* and in how many of them out has been advanced.              *)
  oldy,       (* The row of the picture for which the two were last computed,*)
  row1, row2, (* and which rows of the picture they are.                     *)
  rows        (* The rows of the texture that have been written, each from   *)
              (* two rows of the picture.                                    *)

picture    == <<wide, high, noscale, npot>>
texelsVars == <<picture, tw, th, share, phase, made, out, oldy, row1, row2, rows>>

Sides == 1 .. MaxSide

TexelsInit ==
  /\ wide \in Sides /\ high \in Sides
  /\ noscale \in BOOLEAN /\ npot \in BOOLEAN
  /\ tw = 0 /\ th = 0 /\ share = <<>> /\ phase = "size"
  /\ made = 0 /\ out = 0 /\ oldy = 0 /\ row1 = 0 /\ row2 = 1 /\ rows = <<>>

-----------------------------------------------------------------------------

Between(x, lo, hi) == IF x < lo THEN lo ELSE IF x > hi THEN hi ELSE x

(* ceil_pwrov2.                                                            *)
PowerUp(n) == CHOOSE p \in Powers: p >= n /\ \A q \in Powers: q >= n => p <= q

(* The picture's side is never shifted: the flag is tested, not the flags. *)
SideOf(n) ==
  LET s == Between(n, 1, MaxDim)
  IN  Between(IF npot THEN s ELSE PowerUp(s), MinDim, MaxDim)

(* image_resize copies whole rows of the picture, all of them.             *)
PictureFits == wide <= tw' /\ high <= th'

(* resample_lerp_line steps through a row of the picture as image_scale    *)
(* does through the rows: the last column it asks for is beyond an int.    *)
ColumnsOverflow == (tw' - 1) * ((wide * One) \div tw') > IntMax

(* The two rows are made before the loop.  The second is behind a picture  *)
(* of one row, and is read there, though never used.                       *)
CreateTexture ==
  /\ phase = "size"
  /\ tw' = SideOf(wide) /\ th' = SideOf(high)
  /\ share' = IF noscale THEN <<<<wide, tw'>>, <<high, th'>>>> ELSE <<<<wide, wide>>, <<high, high>>>>
  /\ IF noscale \/ (wide = tw' /\ high = th')
     THEN /\ phase' = IF PictureFits THEN "done" ELSE "spilt"
          /\ rows' = [i \in 1 .. high |-> <<i - 1, i - 1>>]
     ELSE /\ phase' \in (IF ColumnsOverflow THEN {} ELSE {"rows"})
                        \cup (IF ColumnsOverflow \/ high = 1 THEN {"wild"} ELSE {})
          /\ rows' = rows
  /\ UNCHANGED <<picture, made, out, oldy, row1, row2>>

(* fstep, f and yi: a row of the picture in 16.16.  The step is exact, for *)
(* a side that changes becomes a power of two.                             *)
Fstep == (high * One) \div th
F     == made * Fstep
Yi    == F \div One
Endy  == high - 1

(* Fault: the second row is taken for the first wherever the picture goes. *)
NextRow1Shifted == IF Yi # oldy THEN row2 ELSE row1

(* The first of the two rows: the second one, if that is next.             *)
NextRow1 == IF Yi = oldy THEN row1 ELSE IF Yi = oldy + 1 THEN row2 ELSE Yi
NextRow2 == IF Yi = oldy THEN row2 ELSE Yi + 1

(* A row between two rows of the picture, and out goes on to the next; or  *)
(* the picture's last row, and it does not.                                *)
ScaleRow ==
  /\ phase = "rows" /\ made < th /\ F <= IntMax
  /\ made' = made + 1
  /\ row1' = NextRow1
  /\ oldy' = Yi
  /\ IF Yi < Endy
     THEN /\ row2' = NextRow2
          /\ rows' = Append(SubSeq(rows, 1, out), <<row1', row2'>>)
          /\ out' = out + 1
     ELSE /\ rows' = Append(SubSeq(rows, 1, out), <<row1', row1'>>)
          /\ UNCHANGED <<row2, out>>
  /\ UNCHANGED <<picture, tw, th, share, phase>>

(* f overflows: yi is any row, in front of the picture as a rule.          *)
RowsOverflow ==
  /\ phase = "rows" /\ made < th /\ F > IntMax
  /\ phase' = "wild"
  /\ UNCHANGED <<picture, tw, th, share, made, out, oldy, row1, row2, rows>>

ScaleEnds ==
  /\ phase = "rows" /\ made = th
  /\ phase' = "done"
  /\ UNCHANGED <<picture, tw, th, share, made, out, oldy, row1, row2, rows>>

TexelsNext ==
  \/ CreateTexture
  \/ ScaleRow
  \/ RowsOverflow
  \/ ScaleEnds
  \/ phase \in {"done", "spilt", "wild"} /\ UNCHANGED texelsVars

TexelsSpec == TexelsInit /\ [][TexelsNext]_texelsVars

-----------------------------------------------------------------------------
(* Properties.                                                             *)

(* The part of a texture that is taken for the picture shows all of it and *)
(* nothing else, each row of the texture from the two rows of the picture  *)
(* it lies between.  Rows that are never written, and show what the memory *)
(* held before, are only rows that would repeat the one above them, the    *)
(* picture's last.  Nothing is written beyond the texture unless the       *)
(* picture is larger than any texture and not scaled, and nothing read     *)
(* beyond the picture unless it is of one row or of so many that the fixed *)
(* point overflows.                                                        *)
TextureShowsPicture ==
  /\ phase = "spilt" => noscale /\ (wide > MaxDim \/ high > MaxDim)
  /\ phase = "wild"  => ~noscale /\ (high = 1 \/ wide * One > IntMax \/ high * One > IntMax)
  /\ phase = "done" =>
       /\ tw \in MinDim .. MaxDim /\ th \in MinDim .. MaxDim
       /\ npot \/ {tw, th} \subseteq Powers
       /\ \E of \in 1 .. th:
            /\ of * share[2][2] = share[2][1] * th
            /\ \/ Len(rows) = of
               \/ ~noscale /\ Len(rows) \in 1 .. of /\ (Len(rows) - 1) * high >= Endy * of
            /\ \A i \in DOMAIN rows:
                 LET at == (i - 1) * high IN
                   /\ rows[i][1] \in 0 .. Endy /\ rows[i][2] \in 0 .. Endy
                   /\ rows[i][1] * of <= at
                   /\ IF rows[i][1] = rows[i][2] THEN rows[i][1] = Endy \/ rows[i][1] * of = at
                      ELSE rows[i][2] = rows[i][1] + 1 /\ rows[i][2] * of >= at
=============================================================================
