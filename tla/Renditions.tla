------------------------------ MODULE Renditions ------------------------------
(***************************************************************************)
(* How one uploaded picture becomes its renditions: for every title of     *)
(* image_sizes, in the dict's order, Service._thumbnail_images shrinks the *)
(* picture and saves a copy.  PIL's thumbnail works in place, and all the  *)
(* calls are given the same picture.                                       *)
(***************************************************************************)
EXTENDS Naturals, Sequences

CONSTANTS Width, Height   \* the sizes of the pictures that are uploaded

\* The rendition's title and the side of the square it must fit in.
image_sizes == <<[title |-> "preview_url", side |-> 680],
                 [title |-> "mini_url", side |-> 64],
                 [title |-> "small_url", side |-> 380]>>

VARIABLES
    uploaded,   \* the size of the picture as it was sent
    picture,    \* its size in memory
    saved       \* the sizes of the renditions made so far, in order

vars == <<uploaded, picture, saved>>

Init ==
    /\ uploaded \in [width : Width, height : Height]
    /\ picture = uploaded
    /\ saved = <<>>

\* The shorter side after the longer one became "side", rounded down.
Scaled(shorter, longer, side) ==
    IF (shorter * side) \div longer = 0 THEN 1 ELSE (shorter * side) \div longer

\* PIL: keep the proportions, never enlarge.
Thumbnail(size, side) ==
    IF size.width <= side /\ size.height <= side THEN size
    ELSE IF size.width <= size.height
    THEN [width |-> Scaled(size.width, size.height, side), height |-> side]
    ELSE [width |-> side, height |-> Scaled(size.height, size.width, side)]

\* One turn of the loop over image_sizes.
ThumbnailImage ==
    /\ Len(saved) < Len(image_sizes)
    /\ picture' = Thumbnail(picture, image_sizes[Len(saved) + 1].side)
    /\ saved' = Append(saved, picture')
    /\ UNCHANGED uploaded

Next == ThumbnailImage

Spec == Init /\ [][Next]_vars
------------------------------------------------------------------------------
\* What the model says of the columns: mini_url is the small size and
\* small_url the medium one, so a picture larger than both loses less in the
\* medium one.
SmallIsMediumSize ==
    Len(saved) = 3 /\ uploaded.width > 380 => saved[3].width > saved[2].width
===============================================================================
