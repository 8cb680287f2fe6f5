------------------------------ MODULE SvgStyle ------------------------------
(***************************************************************************)
(* How gdevice.h says in SVG what R asks for: the style attribute of an    *)
(* element, which leaves out what the <style> of svg_new_page declares     *)
(* already, and the choice of a font.  A graphics context is a record with *)
(* R's names: col and fill are colors [rgb, alpha], lwd a number of        *)
(* quarters of a line width, lty a sequence of up to eight dash lengths,   *)
(* lmitre a number of hundredths.  A style is a function from attributes.  *)
(***************************************************************************)
EXTENDS Integers, Sequences, SequencesExt

Black == "000000"

IsBlack(col) == col.rgb = Black /\ col.alpha = 255
IsFilled(col) == col.alpha # 0

\* styles that say one thing, or nothing
Says(attribute, value) == [a \in {attribute} |-> value]
Silent == <<>>

And(s, t) == [a \in DOMAIN s \cup DOMAIN t |-> IF a \in DOMAIN s THEN s[a] ELSE t[a]]

Paint(rgb, alpha) == [rgb |-> rgb, alpha |-> alpha]
NoPaint == Paint("none", 0)

\* write_style_col: an opacity only for what is neither opaque nor invisible
StyleCol(attribute, col) ==
  Says(attribute, IF col.alpha = 0 THEN NoPaint ELSE Paint(col.rgb, col.alpha))

\* scale_lty: lines are not dashed more finely than lwd 1
ScaleLty(dash, lwd) == (IF lwd > 4 THEN lwd ELSE 4) * dash

\* the dashes of a line type: the first one in any case, the others up to the
\* first that is 0; LTY_SOLID has none
Dashes(lty, lwd) ==
  LET zeros == {i \in 2..Len(lty) : lty[i] = 0}
      used == IF zeros = {} THEN lty
              ELSE SubSeq(lty, 1, (CHOOSE i \in zeros : \A k \in zeros : i <= k) - 1)
  IN [i \in DOMAIN used |-> ScaleLty(used[i], lwd)]

StyleDash(gc) ==
  IF gc.lty = <<>> THEN Silent ELSE Says("stroke-dasharray", Dashes(gc.lty, gc.lwd))

StyleCap(gc) ==
  IF gc.lend = "round" THEN Silent ELSE Says("stroke-linecap", gc.lend)

StyleJoin(gc) ==
  CASE gc.ljoin = "round" -> Silent
    [] gc.ljoin = "bevel" -> Says("stroke-linejoin", "bevel")
    [] OTHER -> And(Says("stroke-linejoin", "miter"),
                    IF gc.lmitre = 1000 THEN Silent ELSE Says("stroke-miterlimit", gc.lmitre))

\* mutant of StyleStroke: black is black, whatever its alpha
StyleStrokeAnyBlack(gc) ==
  IF gc.col.rgb = Black THEN Silent ELSE StyleCol("stroke", gc.col)

StyleStroke(gc) ==
  IF IsBlack(gc.col) THEN Silent ELSE StyleCol("stroke", gc.col)

\* write_style_linetype; 1 lwd is 1/96 inch, 72 units of the document an inch
StyleLinetype(gc) ==
  And(Says("stroke-width", 3 * gc.lwd),
      And(StyleStroke(gc), And(StyleDash(gc), And(StyleCap(gc), StyleJoin(gc)))))

StyleFill(gc) == IF IsFilled(gc.fill) THEN StyleCol("fill", gc.fill) ELSE Silent

\* the elements: lines and polylines have no fill, a polygon says so in any case
StyleOf(element, gc) ==
  CASE element \in {"line", "polyline"} -> StyleLinetype(gc)
    [] element = "polygon" -> And(StyleLinetype(gc), StyleCol("fill", gc.fill))
    [] element \in {"path", "rect", "circle"} -> And(StyleLinetype(gc), StyleFill(gc))

\* the style of svg_text
IsBold(face) == face \in {2, 4}
IsItalic(face) == face \in {3, 4}

\* find_system_alias, find_user_alias, fontname: symbols have a family of their
\* own, no family is sans, a system alias comes before a user's
Family(gc) ==
  IF gc.fontface = 5 THEN "symbol" ELSE IF gc.fontfamily = "" THEN "sans" ELSE gc.fontfamily

FaceName(face) ==
  CASE face = 4 -> "bolditalic" [] face = 2 -> "bold" [] face = 3 -> "italic"
    [] face = 5 -> "symbol" [] OTHER -> "plain"

FontName(gc, system, user) ==
  LET family == Family(gc)
      face == FaceName(gc.fontface)
  IN IF family \in DOMAIN system THEN system[family]
     ELSE IF family \in DOMAIN user /\ face \in DOMAIN user[family] THEN user[family][face]
     ELSE family

StyleText(gc, system, user) ==
  And(IF IsBold(gc.fontface) THEN Says("font-weight", "bold") ELSE Silent,
      And(IF IsItalic(gc.fontface) THEN Says("font-style", "italic") ELSE Silent,
          And(IF IsBlack(gc.col) THEN Silent ELSE StyleCol("fill", gc.col),
              Says("font-family", FontName(gc, system, user)))))

-----------------------------------------------------------------------------

\* <style>: the defaults of a page for shapes, and SVG's own
Declared(element) ==
  CASE element = "text" -> [fill |-> Paint(Black, 255)]
    [] OTHER -> [a \in {"fill", "stroke", "stroke-linecap", "stroke-linejoin",
                        "stroke-miterlimit", "stroke-dasharray"} |->
                   CASE a = "fill" -> NoPaint
                     [] a = "stroke" -> Paint(Black, 255)
                     [] a = "stroke-linecap" -> "round"
                     [] a = "stroke-linejoin" -> "round"
                     [] a = "stroke-miterlimit" -> 1000
                     [] a = "stroke-dasharray" -> <<>>]

Seen(col) == IF col.alpha = 0 THEN NoPaint ELSE col

\* what a browser paints is what R asked for
StyleAsAsked(element, gc) ==
  LET style == And(StyleOf(element, gc), Declared(element))
      miter == gc.ljoin = "miter"
  IN /\ style["stroke"] = Seen(gc.col)
     /\ style["stroke-width"] = 3 * gc.lwd
     /\ style["stroke-linecap"] = gc.lend
     /\ style["stroke-linejoin"] = gc.ljoin
     /\ miter => style["stroke-miterlimit"] = gc.lmitre
     /\ Len(style["stroke-dasharray"]) <= 8
     /\ gc.lty = <<>> <=> style["stroke-dasharray"] = <<>>
     /\ style["fill"] = IF element \in {"line", "polyline"} THEN NoPaint ELSE Seen(gc.fill)

TextAsAsked(gc, system, user) ==
  LET style == And(StyleText(gc, system, user), Declared("text"))
  IN /\ style["fill"] = Seen(gc.col)
     /\ "font-weight" \in DOMAIN style <=> gc.fontface \in {2, 4}
     /\ "font-style" \in DOMAIN style <=> gc.fontface \in {3, 4}
=============================================================================
