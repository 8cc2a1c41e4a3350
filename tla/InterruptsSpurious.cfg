SPECIFICATION Spec
CONSTANT MaxFrames = 3
INVARIANT ReceivedVectorValid
