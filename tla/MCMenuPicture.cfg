SPECIFICATION Spec
CONSTRAINT Bound
INVARIANT MenuPictureValid
