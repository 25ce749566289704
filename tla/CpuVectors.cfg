\* Programs that set every bit of IE.
CONSTANTS
    Lines = {0, 1}
    Upper = {2}
    IeBits = {0, 1, 2}
SPECIFICATION Spec
INVARIANT VectorExists
