\* Pictures of all proportions: the loop over image_sizes in the dict's order.
SPECIFICATION Spec
CONSTANTS
    Width = {40, 64, 100, 380, 500, 680, 1200}
    Height = {40, 64, 100, 380, 500, 680, 1200}
CHECK_DEADLOCK FALSE
INVARIANT
    SmallIsMediumSize
