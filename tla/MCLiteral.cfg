CONSTANT Literals <- MCLiterals
SPECIFICATION Spec
INVARIANTS DatesExactlyValid
