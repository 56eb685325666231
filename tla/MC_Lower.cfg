\* Every program of the family, valid or not, with and without initializers.
SPECIFICATION Spec
INVARIANTS LoweringTotal LoweredValid
