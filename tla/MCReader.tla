------------------------------ MODULE MCReader ------------------------------
EXTENDS Reader
CONSTANTS photos, letter, Upper, lower, other

MCChunks == [m \in Messages |-> IF m = photos THEN 1 ELSE 2]
MCPrefs == {[lang |-> "zh", confirm |-> TRUE, auto |-> TRUE],
            [lang |-> "en", confirm |-> TRUE, auto |-> FALSE],
            [lang |-> "zh", confirm |-> FALSE, auto |-> FALSE]}
MCAttachments == [m \in Messages |->
  IF m = photos THEN <<<<Upper>>, <<lower, 2>>, <<lower>>>> ELSE <<<<other>>>>]
MCExisting == {<<lower>>, <<other>>}
MCFold == [n \in {<<Upper>>, <<lower>>, <<lower, 2>>, <<other>>} |->
             IF n = <<Upper>> THEN <<lower>> ELSE n]
=============================================================================
