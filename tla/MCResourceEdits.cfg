CONSTANTS
    Quantities <- MCQuantities
SPECIFICATION Spec
INVARIANTS DefaultsAdmitted
PROPERTIES FieldsApart
